\* Everything the environment may do, with a ramp of two steps, and what a
\* lasting situation leads to.  Range 1 is near, 2 is not, 3 is out of limits.
\* detect_path would complete as traverse_gate does: here it does not.
CONSTANTS
  Unit = 2
  Step = 1
  StopM = 2
  Backup = 1
  SwayGain = 1
  NoCmd = NoCmd
  NoRange = NoRange
  Missions <- AheadMissions
  Wanted <- WantedAhead
  NeedsPose = {"return_home"}
  CanComplete = {"traverse_gate", "return_home"}
  Overlaid = {"traverse_gate", "detect_path"}
  BootMission = "traverse_gate"
  Ranges = {1, 3}
  MinRange = 1
  MaxRange = 2
  Heaves = {0}

SPECIFICATION FairSpec

INVARIANTS PathInv
PROPERTIES SpeedsUpGradually BacksUp DoneSettles
