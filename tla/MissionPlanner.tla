---------------------------- MODULE MissionPlanner ---------------------------
(***************************************************************************)
(* mission_planner_node.py: one action per callback of the node, which     *)
(* rclpy.spin runs one at a time.  _node_cfg is Plan[current], _timeout_s  *)
(* is Timeout(current), and time.monotonic() - _mission_start is elapsed.  *)
(***************************************************************************)
EXTENDS MissionTopics

CONSTANTS
  MaxEntries, \* bound: node entries in one run of the planner
  Horizon     \* bound: elapsed stops counting here

(* The horizon is beyond every timeout, so no comparison can tell. *)
ASSUME HorizonAssumption ==
  /\ MaxEntries \in Nat
  /\ Horizon \in Nat
  /\ \A n \in Nodes : Timeout(n) <= Horizon

VARIABLES
  started,   \* _started
  current,   \* _current_node
  entry,     \* how many nodes have been entered (not in the code)
  elapsed,   \* watchdog periods since _mission_start
  waiting,   \* _waiting_event
  finished,  \* _finished
  status     \* the last status published on mission_planner/status

plannerVars == <<started, current, entry, elapsed, waiting, finished, status>>

PlannerTypeOK ==
  /\ started \in BOOLEAN
  /\ current \in Nodes \cup {NoNode}
  /\ entry \in Nat
  /\ elapsed \in 0 .. Horizon
  /\ waiting \in BOOLEAN
  /\ finished \in BOOLEAN
  /\ status \in {"none", "running", "complete", "failed", "error"}

PlannerInit ==
  /\ started = FALSE
  /\ current = NoNode
  /\ entry = 0
  /\ elapsed = 0
  /\ waiting = FALSE
  /\ finished = FALSE
  /\ status = "none"

(* _enter_node; its callers have set _waiting_event to False. *)
EnterNode(n) ==
  \/ /\ n \in Nodes
     /\ entry < MaxEntries
     /\ current' = n
     /\ entry' = entry + 1
     /\ elapsed' = 0
     /\ waiting' = TRUE
     /\ toMaster' = Publish(toMaster, [behavior |-> Behavior(n),
                                       entry |-> entry + 1, age |-> 0], "master")
     /\ status' = "running"
     /\ UNCHANGED finished
  \/ /\ n \notin Nodes
     /\ status' = "error"
     /\ finished' = TRUE
     /\ waiting' = FALSE
     /\ UNCHANGED <<current, entry, elapsed, toMaster>>

(* Mutant: a plan without a next node is reported but not finished. *)
AdvanceUnfinished(next, success) ==
  \/ next # NoNode /\ EnterNode(next)
  \/ /\ next = NoNode
     /\ waiting' = FALSE
     /\ status' = IF success THEN "complete" ELSE "failed"
     /\ UNCHANGED <<current, entry, elapsed, finished, toMaster>>

(* _advance *)
Advance(next, success) ==
  \/ next # NoNode /\ EnterNode(next)
  \/ /\ next = NoNode
     /\ finished' = TRUE
     /\ waiting' = FALSE
     /\ status' = IF success THEN "complete" ELSE "failed"
     /\ UNCHANGED <<current, entry, elapsed, toMaster>>

(* _delayed_start and _start_plan, when the start timer fires. *)
DelayedStart ==
  /\ ~started
  /\ started' = TRUE
  /\ \/ Start # NoNode /\ EnterNode(Start)
     \/ Start = NoNode /\ UNCHANGED <<current, entry, elapsed, waiting,
                                      finished, status, toMaster>>
  /\ UNCHANGED <<toPlanner, joined>>

(* Mutant: the watchdog is a one-shot timer, spent in the first node. *)
WatchdogDueOnce ==
  /\ ~finished
  /\ waiting
  /\ entry = 1
  /\ Timeout(current) > 0
  /\ elapsed >= Timeout(current)

WatchdogDue ==
  /\ ~finished
  /\ waiting
  /\ Timeout(current) > 0
  /\ elapsed >= Timeout(current)

(* _watchdog_tick past the timeout; before it, it returns. *)
WatchdogTick ==
  /\ WatchdogDue
  /\ Advance(OnTimeout(current), FALSE)
  /\ UNCHANGED <<started, toPlanner, joined>>

(* Mutant: the behavior is not compared. *)
AcceptsAnyBehavior(event) == ~finished /\ waiting

(* An event is matched to the current node by the name of its behavior. *)
Accepts(event) ==
  /\ ~finished
  /\ waiting
  /\ event.behavior = Behavior(current)

(* Mutant: the reported success decides the status but not the edge. *)
MissionEventSucceeds ==
  /\ toPlanner # <<>>
  /\ toPlanner' = Tail(toPlanner)
  /\ LET event == Head(toPlanner) IN
       \/ /\ Accepts(event)
          /\ Advance(OnSuccess(current), event.success)
       \/ /\ ~Accepts(event)
          /\ UNCHANGED <<current, entry, elapsed, waiting, finished, status,
                         toMaster>>
  /\ UNCHANGED <<started, joined>>

(* _mission_event_callback *)
MissionEventCallback ==
  /\ toPlanner # <<>>
  /\ toPlanner' = Tail(toPlanner)
  /\ LET event == Head(toPlanner) IN
       \/ /\ Accepts(event)
          /\ Advance(OnReport(current, event.success), event.success)
       \/ /\ ~Accepts(event)
          /\ UNCHANGED <<current, entry, elapsed, waiting, finished, status,
                         toMaster>>
  /\ UNCHANGED <<started, joined>>

(* One watchdog period passes.  A watchdog that is due runs before. *)
Clock ==
  /\ ~WatchdogDue
  /\ elapsed' = IF waiting /\ elapsed < Horizon THEN elapsed + 1 ELSE elapsed
  /\ MessagesAge
  /\ UNCHANGED <<started, current, entry, waiting, finished, status>>
=============================================================================
