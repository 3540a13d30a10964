\* Setting the mode and arming, with refused calls, lost links and force-arm.
CONSTANTS
  Modes = {"MANUAL", "STABILIZE", "ALT_HOLD"}
  Wanted = "ALT_HOLD"
  NoMode = NoMode
  AutoArm = TRUE
  ArmForce = TRUE
  Obeys = TRUE

SPECIFICATION FcuFairSpec

INVARIANT FcuInv
PROPERTIES ArmsAsTold SetupEnds
