\* The cyclic bench plan: the same behaviors are visited again and again; and
\* a behavior and a node of it that do not exist.
\* MaxEntries cuts the cycle, and the run stops there: no deadlock check.
CONSTANTS
  None = None
  NoNode = None
  NoBehavior = NoBehavior
  Nodes <- MisspeltNodes
  Start = "find_gate"
  Plan <- MisspeltPlan
  Behaviors <- KnownOrMisspelt
  Registry <- Known
  Endless <- NeverComplete
  CanFail = {"transit_forward"}
  Duration <- AnyTime
  Latency = 2
  MaxEntries = 8
  Horizon = 6
  BootBehavior = "hold"
  PlannerMode = TRUE
  MaxRestarts = 2

SPECIFICATION FairSpec

INVARIANT EventCredit
PROPERTY TimedNodesEnd

CHECK_DEADLOCK FALSE
