\* All behaviors one after the other; durations of 1 to 4 control periods.
CONSTANTS
  SubmergeTime = 2
  PassTime = 3
  ClearAfter = 1
  MinTransit = 2
  MaxTransit = 3
  TransitDistance = 2
  ArriveRadius = 1
  SideStep = 1
  SidePass = 1
  CrossBehind = 1
  OrbitTime = 4
  MinPathTime = 2
  LostLimit = 2
  AlignedRequired = 2
  CenterDeadband = 0
  CommitDeadband = 1
  FullArea = 1
  Circle = 6
  Target = 3
  Tolerance = 1
  Sightings <- SomeSightings
  Positions = {0, 2}
  None = None
  Horizon = 4
  MaxTurn = 2
  MaxDelay = 2
SPECIFICATION FairSpec
INVARIANTS TurnExact TransitFailsUnseen
PROPERTIES FramesInARow TimedMissionsEnd
