\* The prequalification plan from start to end, with restarts of the master
\* and discovery at any point.
CONSTANTS
  None = None
  NoNode = None
  NoBehavior = NoBehavior
  Nodes <- PrequalNodes
  Start = "wait"
  Plan <- PrequalPlan
  Behaviors <- Known
  Registry <- Known
  Endless <- NeverComplete
  CanFail = {"transit_forward"}
  Duration <- OwnTime
  Latency = 1
  MaxEntries = 14
  Horizon = 4
  BootBehavior = "hold"
  PlannerMode = TRUE
  MaxRestarts = 2

SPECIFICATION FairSpec

INVARIANTS MasterFollows ReportedOnce
PROPERTIES WalksThePlan ComesToRest
