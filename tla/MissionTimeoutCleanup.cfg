\* base.py:44: cleanup is "Called when mission ends (success, failure, or timeout)."
\* From the node whose mission can outlast it; with Start = "wait" the
\* counterexample ends in the same node, after 30 states.
CONSTANTS
  None = None
  NoNode = None
  NoBehavior = NoBehavior
  Nodes <- PrequalNodes
  Start = "turn"
  Plan <- PrequalPlan
  Behaviors <- Known
  Registry <- Known
  Endless <- NeverComplete
  CanFail = {"transit_forward"}
  Duration <- OwnTime
  Latency = 1
  MaxEntries = 14
  Horizon = 4
  BootBehavior = "hold"
  PlannerMode = TRUE
  MaxRestarts = 0

SPECIFICATION FairSpec

PROPERTY FailedMissionIsCleanedUp
