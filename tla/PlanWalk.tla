------------------------------ MODULE PlanWalk -------------------------------
(***************************************************************************)
(* What the mission stack promises, without topics, mission names or       *)
(* clocks: the vehicle walks the plan graph.  It leaves a node along its   *)
(* success or failure edge only after the mission that was run for this    *)
(* very visit reported that outcome, and along its timeout edge only if    *)
(* the node has a timeout.  A walk that has ended stays ended.             *)
(***************************************************************************)
EXTENDS MissionPlan

VARIABLES
  at,      \* the node being visited, NoNode before the walk
  report,  \* what the mission of this visit reported: "none", "success", "failure"
  outcome  \* "idle", "running", "complete", "failed", "error"

walk == <<at, report, outcome>>

WalkTypeOK ==
  /\ at \in Nodes \cup {NoNode}
  /\ report \in {"none", "success", "failure"}
  /\ outcome \in {"idle", "running", "complete", "failed", "error"}

WalkInit == at = NoNode /\ report = "none" /\ outcome = "idle"

(* Go to node n, or end with an error when the plan does not define it. *)
Visit(n) ==
  /\ report' = "none"
  /\ \/ n \in Nodes /\ at' = n /\ outcome' = "running"
     \/ n \notin Nodes /\ at' = at /\ outcome' = "error"

(* Go to node n, or end with the given outcome when there is no next node. *)
Proceed(n, end) ==
  \/ n # NoNode /\ Visit(n)
  \/ n = NoNode /\ at' = at /\ report' = "none" /\ outcome' = end

Begin == outcome = "idle" /\ Start # NoNode /\ Visit(Start)

Report(r) ==
  /\ outcome = "running"
  /\ report = "none"
  /\ report' = r
  /\ UNCHANGED <<at, outcome>>

Follow ==
  /\ outcome = "running"
  /\ \/ report = "success" /\ Proceed(OnSuccess(at), "complete")
     \/ report = "failure" /\ Proceed(OnFailure(at), "failed")

Expire ==
  /\ outcome = "running"
  /\ Timeout(at) > 0
  /\ Proceed(OnTimeout(at), "failed")

WalkNext ==
  \/ Begin
  \/ \E r \in {"success", "failure"} : Report(r)
  \/ Follow
  \/ Expire

WalkSpec == WalkInit /\ [][WalkNext]_walk
=============================================================================
