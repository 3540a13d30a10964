\* The whole run, with a Ping, a camera and an IMU that may report at any time.
CONSTANTS
  Circle = 6
  GateClearance = 2
  MaxSprint = 3
  CrashDistance = 2
  OrbitRadius = 3
  Pings = {1, 2, 3, 5}
  NoPing = NoPing
  MaxDelay = 2

SPECIFICATION FairSpec

INVARIANT NoSecondLap
PROPERTIES CrashSurfaces SearchTimed SearchEnds
