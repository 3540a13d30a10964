---------------------------- MODULE MasterControl ----------------------------
(***************************************************************************)
(* The mission life cycle of master_control_node.py: which mission object  *)
(* runs, when it is replaced, cleaned up and reported.  The motion command *)
(* that a control cycle also computes is the subject of CmdVelPath; whether *)
(* it is published (enable_control) changes nothing here, the mission is   *)
(* stepped either way.                                                     *)
(***************************************************************************)
EXTENDS MissionTopics

CONSTANTS
  BootBehavior,  \* the active_behavior parameter at launch
  PlannerMode,   \* the planner_mode parameter
  MaxRestarts    \* bound: restarts of the node

ASSUME MasterAssumption ==
  /\ BootBehavior \in Behaviors
  /\ PlannerMode \in BOOLEAN
  /\ MaxRestarts \in Nat

VARIABLES
  key,       \* _mission_key; NoBehavior: there is no mission (_mission is None)
  owner,     \* the entry whose command created the mission, 0: none (not in the code)
  heard,     \* the entry of the last command since launch, 0: none (not in the code)
  done,      \* _mission_done
  cleaned,   \* cleanup() has been called on the mission object
  restarts,  \* how often the node was restarted (not in the code)
  missionTime \* watchdog periods since _mission_started, up to the duration

masterVars == <<key, owner, heard, done, cleaned, restarts, missionTime>>

MasterTypeOK ==
  /\ key \in Registry \cup {NoBehavior}
  /\ owner \in Nat
  /\ heard \in Nat
  /\ done \in BOOLEAN
  /\ cleaned \in BOOLEAN
  /\ restarts \in 0 .. MaxRestarts
  /\ missionTime \in Nat

(* _activate_behavior called by __init__: there is no mission before. *)
BootKey == IF BootBehavior \in Registry THEN BootBehavior ELSE NoBehavior

MasterInit ==
  /\ key = BootKey
  /\ owner = 0
  /\ heard = 0
  /\ done = FALSE
  /\ cleaned = FALSE
  /\ restarts = 0
  /\ missionTime = 0

(* _activate_behavior.  The old mission is cleaned up before the registry  *)
(* is asked for the new one, and stays when the registry does not know it. *)
ActivateBehavior(behavior, e) ==
  \/ /\ behavior = key
     /\ UNCHANGED <<key, owner, done, cleaned, missionTime>>
  \/ /\ behavior # key
     /\ behavior \notin Registry
     /\ cleaned' = (key # NoBehavior)
     /\ UNCHANGED <<key, owner, done, missionTime>>
  \/ /\ behavior # key
     /\ behavior \in Registry
     /\ key' = behavior
     /\ owner' = e
     /\ done' = FALSE
     /\ cleaned' = FALSE
     /\ missionTime' = 0

(* Mutants: a running mission is not replaced; planner_mode is not read. *)
SetBehaviorWhenDone ==
  /\ toMaster # <<>>
  /\ toMaster' = Tail(toMaster)
  /\ heard' = Head(toMaster).entry
  /\ \/ done /\ ActivateBehavior(Head(toMaster).behavior, Head(toMaster).entry)
     \/ ~done /\ UNCHANGED <<key, owner, done, cleaned, missionTime>>
  /\ UNCHANGED <<toPlanner, joined, restarts>>

SetBehaviorAlways ==
  /\ toMaster # <<>>
  /\ toMaster' = Tail(toMaster)
  /\ heard' = Head(toMaster).entry
  /\ ActivateBehavior(Head(toMaster).behavior, Head(toMaster).entry)
  /\ UNCHANGED <<toPlanner, joined, restarts>>

(* set_behavior_callback *)
SetBehaviorCallback ==
  /\ toMaster # <<>>
  /\ toMaster' = Tail(toMaster)
  /\ heard' = Head(toMaster).entry
  /\ \/ PlannerMode /\ ActivateBehavior(Head(toMaster).behavior, Head(toMaster).entry)
     \/ ~PlannerMode /\ UNCHANGED <<key, owner, done, cleaned, missionTime>>
  /\ UNCHANGED <<toPlanner, joined, restarts>>

(* Mutant: _mission_done is not set. *)
MissionCompletesAgain(ok) ==
  /\ key # NoBehavior
  /\ ~done
  /\ key \notin Endless
  /\ ok \/ key \in CanFail
  /\ toPlanner' = Publish(toPlanner, [behavior |-> key, success |-> ok,
                                      entry |-> owner, age |-> 0], "planner")
  /\ cleaned' = TRUE
  /\ UNCHANGED <<key, owner, heard, done, missionTime, toMaster, joined, restarts>>

(* control_loop, the cycle in which step() returns complete: cleanup, the  *)
(* event and, outside planner mode, 'hold'.  A cycle in which it does not, *)
(* and one without a running mission, change nothing modelled here.  What  *)
(* a mission sees may complete it before its duration.                     *)
MissionCompletes(ok) ==
  /\ key # NoBehavior
  /\ ~done
  /\ key \notin Endless
  /\ ok \/ key \in CanFail
  /\ toPlanner' = Publish(toPlanner, [behavior |-> key, success |-> ok,
                                      entry |-> owner, age |-> 0], "planner")
  /\ \/ /\ PlannerMode
        /\ done' = TRUE
        /\ cleaned' = TRUE
        /\ UNCHANGED <<key, owner, missionTime>>
     \/ ~PlannerMode /\ ActivateBehavior("hold", 0)
  /\ UNCHANGED <<heard, toMaster, joined, restarts>>

(* The node dies and is launched again: its mission, and the commands it   *)
(* had not handled, are gone, and its publisher and its subscription have  *)
(* to be discovered anew.                                                  *)
Restart ==
  /\ restarts < MaxRestarts
  /\ restarts' = restarts + 1
  /\ key' = BootKey
  /\ owner' = 0
  /\ heard' = 0
  /\ done' = FALSE
  /\ cleaned' = FALSE
  /\ toMaster' = <<>>
  /\ joined' = [subscriber \in {"master", "planner"} |-> FALSE]
  /\ missionTime' = 0
  /\ UNCHANGED toPlanner

(* The cycle is due in which step() sees elapsed_s >= duration_s.          *)
Overdue ==
  /\ key # NoBehavior
  /\ ~done
  /\ Duration[key] > 0
  /\ missionTime >= Duration[key]

(* A watchdog period passes for the master: five cycles of its control     *)
(* timer, so no mission is overdue before.                                 *)
MissionClock ==
  /\ ~Overdue
  /\ missionTime' = IF key # NoBehavior /\ ~done /\ missionTime < Duration[key]
                    THEN missionTime + 1 ELSE missionTime
  /\ UNCHANGED <<key, owner, heard, done, cleaned, restarts>>
=============================================================================
