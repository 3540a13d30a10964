----------------------------- MODULE MissionPlan -----------------------------
(***************************************************************************)
(* A mission plan, as mission_planner_node.py loads it from YAML, and the  *)
(* missions that master_control_node.py can instantiate.  The plan is a    *)
(* graph: a node names the behavior to run, its timeout and the nodes that *)
(* follow each outcome.                                                    *)
(***************************************************************************)
EXTENDS Naturals

CONSTANTS
  Nodes,      \* the keys of the plan's "missions" mapping
  NoNode,     \* an absent transition, or an absent "start"
  Start,      \* the plan's "start" (need not be a key of "missions")
  Plan,       \* the "missions" mapping
  Behaviors,  \* every behavior name the plan, or the launch file, mentions
  NoBehavior, \* the mission key of a master that has no mission
  Registry,   \* MISSION_REGISTRY: the behaviors create_mission knows
  Endless,    \* behaviors whose step() never returns complete
  CanFail,    \* behaviors whose step() may complete with success=False
  Duration    \* watchdog periods after which step() completes by its own clock

(* A Duration of 0 is none: such a mission may complete at any time or go   *)
(* on for ever.  TimedMissionsEnd (Missions) bears the others out.         *)

(* A node of the plan.  The timeout counts watchdog periods (0.5 s), 0 is  *)
(* no timeout; a node without "behavior" runs the behavior of its own name. *)
NodeIds == Nodes \cup {Start, NoNode}
           \cup UNION {{Plan[n].success, Plan[n].failure, Plan[n].expired,
                        Plan[n].default} : n \in Nodes}

NodeConfig ==
  [behavior : Behaviors, timeout : Nat, success : NodeIds,
   failure : NodeIds, expired : NodeIds, default : NodeIds]

ASSUME PlanAssumption ==
  /\ NoNode \notin Nodes
  /\ Plan \in [Nodes -> NodeConfig]
  /\ Registry \subseteq Behaviors
  /\ NoBehavior \notin Behaviors
  /\ "hold" \in Registry \cap Endless
  /\ Duration \in [Behaviors -> Nat]
  /\ \A b \in Behaviors \cap Endless : Duration[b] = 0

(* Python's "a or b" on two optional node names. *)
Either(a, b) == IF a # NoNode THEN a ELSE b

(* Where each outcome of node n leads.  A timeout does not look at         *)
(* "default"; a failure reported by the mission does.                      *)
OnSuccess(n) == Either(Plan[n].success, Plan[n].default)
OnFailure(n) == Either(Plan[n].failure, Plan[n].default)
OnTimeout(n) == Either(Plan[n].expired, Plan[n].failure)
OnReport(n, ok) == IF ok THEN OnSuccess(n) ELSE OnFailure(n)

Behavior(n) == Plan[n].behavior
Timeout(n) == Plan[n].timeout

Followers(n) == {OnSuccess(n), OnFailure(n), OnTimeout(n)} \cap Nodes
=============================================================================
