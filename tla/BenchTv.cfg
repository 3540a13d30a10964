\* The television bench with scaled times: delay 3, ramp 2, pass 9 periods.
CONSTANTS
  Arguments <- SomeArguments
  Modes = {"vision", "ramp", "fixed"}
  Sightings <- SomeSightings
  Readings = {1, 5, NoRange}
  NoRange = NoRange
  None = None
  FarRange = 4
  CloseRange = 1
  AreaFar = 0
  AreaClose = 2
  NoDetection = 4
  FixedRange = 4
  RampStart = 4
  RampEnd = 2
  Cleared = 5
  ClearDelay = 3
  ClearRamp = 2
  Low = 0
  High = 9
  GateClear = 3
  ClearAfter = 3
  PassTime = 9
  Horizon = 9

SPECIFICATION Spec

INVARIANT ClearsByItself
PROPERTY ClearedAnew
