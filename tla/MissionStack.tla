----------------------------- MODULE MissionStack ----------------------------
(***************************************************************************)
(* mission_planner_node and master_control_node together, as               *)
(* mission_planner.launch.py starts them: two processes that share only    *)
(* the two topics of MissionTopics.                                        *)
(***************************************************************************)
EXTENDS MissionPlanner, MasterControl

vars == <<toMaster, toPlanner, joined, started, current, entry, elapsed, waiting,
          finished, status, key, owner, heard, done, cleaned, restarts, missionTime>>

TypeOK == TopicsTypeOK /\ PlannerTypeOK /\ MasterTypeOK

Init == TopicsInit /\ PlannerInit /\ MasterInit

PlannerStep ==
  /\ \/ DelayedStart
     \/ WatchdogTick
     \/ MissionEventCallback
  /\ UNCHANGED masterVars

MasterStep ==
  /\ \/ SetBehaviorCallback
     \/ \E ok \in BOOLEAN : MissionCompletes(ok)
     \/ Restart
  /\ UNCHANGED plannerVars

Discovery ==
  /\ \E subscriber \in {"master", "planner"} : Discover(subscriber)
  /\ UNCHANGED <<plannerVars, masterVars>>

TimePasses == Clock /\ MissionClock

Next == PlannerStep \/ MasterStep \/ Discovery \/ TimePasses

Spec == Init /\ [][Next]_vars

(* rclpy.spin serves every timer that is due and every message that has    *)
(* arrived, and time passes.  A mission completes when its own duration is *)
(* over, others need not complete, and nodes need not restart or be        *)
(* discovered.                                                             *)
Fairness ==
  /\ WF_vars(DelayedStart /\ UNCHANGED masterVars)
  /\ WF_vars(WatchdogTick /\ UNCHANGED masterVars)
  /\ WF_vars(MissionEventCallback /\ UNCHANGED masterVars)
  /\ WF_vars(SetBehaviorCallback /\ UNCHANGED plannerVars)
  /\ WF_vars(Overdue /\ (\E ok \in BOOLEAN : MissionCompletes(ok)) /\ UNCHANGED plannerVars)
  /\ WF_vars(TimePasses)

FairSpec == Spec /\ Fairness
-----------------------------------------------------------------------------
(* What the guarantees need of a plan and of the launch.                   *)

(* A node and the nodes that can follow it run different behaviors.        *)
ConsecutiveDiffer ==
  \A n \in Nodes : \A m \in Followers(n) : Behavior(m) # Behavior(n)

(* Every timeout outlasts two deliveries: the command on its way to the    *)
(* master and the last event of the mission it replaces on its way back.   *)
TimeoutsOutlastDelivery ==
  \A n \in Nodes : Timeout(n) > 0 => Timeout(n) > 2 * Latency

WellFormedPlan ==
  /\ PlannerMode
  /\ \A n \in Nodes : Behavior(n) \in Registry
  /\ BootBehavior \in Endless
  /\ ConsecutiveDiffer
  /\ TimeoutsOutlastDelivery
-----------------------------------------------------------------------------
(* Safety.                                                                 *)

(* The planner credits an event to the node it is visiting by behavior     *)
(* name alone (mission_planner_node.py:121).  Still, an event it would     *)
(* accept was published by the mission that was created for this very      *)
(* visit, not by one that an earlier node left running: a plan may visit   *)
(* the same behavior again, and an old completion may arrive late.         *)
EventCredit ==
  \A i \in 1 .. Len(toPlanner) :
    Accepts(toPlanner[i]) => toPlanner[i].entry = entry

(* Once a command has arrived, planner and master agree: the master runs   *)
(* the behavior of the planner's node, in a mission object created for     *)
(* this visit or in its launch behavior, if that is the one asked for.     *)
(* Otherwise it has heard nothing since its launch (it was not known yet   *)
(* or has restarted) and idles in its launch behavior.                     *)
MasterFollows ==
  waiting /\ toMaster = <<>> =>
    \/ heard = entry /\ key = Behavior(current) /\ owner \in {0, entry}
    \/ heard = 0 /\ key = BootKey /\ owner = 0 /\ ~done

(* The master is at most one command behind: a node is not left while its  *)
(* command is on the way, so commands never pile up.                       *)
OneCommandAtATime ==
  /\ Len(toMaster) <= 1
  /\ \A i \in 1 .. Len(toMaster) : toMaster[i].entry = entry

(* A visit is reported at most once: no two events of one mission are on   *)
(* their way, and the mission that has reported for this visit is over.    *)
ReportedOnce ==
  /\ \A i, j \in 1 .. Len(toPlanner) :
       toPlanner[i].entry = toPlanner[j].entry => i = j
  /\ \A i \in 1 .. Len(toPlanner) :
       toPlanner[i].entry = owner /\ owner > 0 => done

(* Without planner mode the node runs its launch behavior and then holds:  *)
(* it is never without a mission, and the planner has no say.              *)
StandaloneHolds ==
  ~PlannerMode => owner = 0 /\ ~done /\ key \in {BootKey, "hold"}

(* A plan that has ended stays ended, whatever late events or timers come  *)
(* (mission_planner_node.py:103, 114): its last node and status stand.     *)
EndIsFinal ==
  [][finished => UNCHANGED <<finished, current, entry, status>>
                 /\ Len(toMaster') <= Len(toMaster)]_vars
-----------------------------------------------------------------------------
(* Why the guarantees hold: an inductive invariant of every well-formed    *)
(* plan.  PlannerInv: a waiting planner is in a node.  CommandInv: the only *)
(* command on its way is the one for this visit and is as old as the visit, *)
(* so no timeout can expire before it arrives.  MissionInv: the master is   *)
(* in its launch behavior, or in the mission of this visit, or of an        *)
(* earlier one while the command is on its way.  EventInv: an event of an   *)
(* earlier visit names another behavior, left the master at most Latency    *)
(* into this visit, and is ahead of the only event of this visit.           *)
PlannerInv ==
  /\ waiting => started /\ ~finished /\ current \in Nodes /\ entry > 0
  /\ ~started => entry = 0 /\ ~finished

CommandInv ==
  toMaster # <<>> =>
    /\ waiting
    /\ joined["master"]
    /\ Len(toMaster) = 1
    /\ toMaster[1].entry = entry
    /\ toMaster[1].behavior = Behavior(current)
    /\ toMaster[1].age \in elapsed .. Latency
    /\ owner < entry

MissionInv ==
  /\ owner <= entry
  /\ owner = 0 => key = BootKey /\ ~done
  /\ owner > 0 => joined["master"]
  /\ owner > 0 /\ owner = entry /\ waiting => key = Behavior(current)
  /\ owner > 0 /\ owner < entry => toMaster # <<>> /\ key # Behavior(current)

(* A command is the current one, or the current one is on its way.         *)
HeardInv ==
  /\ heard <= entry
  /\ heard = 0 => owner = 0
  /\ heard > 0 => joined["master"]
  /\ heard > 0 /\ heard < entry => toMaster # <<>>
  /\ heard > 0 /\ heard = entry /\ waiting =>
       key = Behavior(current) /\ owner \in {0, entry}

EventInv ==
  \A i \in 1 .. Len(toPlanner) :
    LET event == toPlanner[i] IN
    /\ event.entry \in 1 .. entry
    /\ event.age <= Latency
    /\ event.entry = owner => done
    /\ toMaster # <<>> => event.entry < entry
    /\ event.entry = entry => i = Len(toPlanner)
    /\ event.entry = entry /\ waiting => event.behavior = Behavior(current)
    /\ event.entry < entry /\ waiting =>
         event.behavior # Behavior(current) /\ elapsed <= Latency + event.age
    /\ \A j \in 1 .. Len(toPlanner) : toPlanner[j].entry = event.entry => i = j

IInv == TypeOK /\ PlannerInv /\ CommandInv /\ MissionInv /\ EventInv /\ HeardInv
-----------------------------------------------------------------------------
(* The stack implements the walk: the report of a visit is the event of    *)
(* its mission on the way to the planner.                                  *)
EventsOf(e) == {i \in 1 .. Len(toPlanner) : toPlanner[i].entry = e}

WalkReport ==
  IF waiting /\ EventsOf(entry) # {}
  THEN IF \E i \in EventsOf(entry) : toPlanner[i].success THEN "success" ELSE "failure"
  ELSE "none"

WalkOutcome == IF status = "none" THEN "idle" ELSE status

Walk == INSTANCE PlanWalk WITH at <- current, report <- WalkReport,
                               outcome <- WalkOutcome

WalksThePlan == Walk!WalkSpec
-----------------------------------------------------------------------------
(* Liveness, under FairSpec.                                               *)

(* A node with a timeout is left, even when the master never got the       *)
(* command, does not know the behavior, lost the event or was restarted.   *)
TimedNodesEnd ==
  \A e \in 1 .. MaxEntries - 1 :
    (entry = e /\ waiting /\ Timeout(current) > 0) ~> (entry # e \/ finished)

(* A plan whose timed nodes are not on a cycle ends or comes to rest in a  *)
(* node that has no timeout.                                               *)
ComesToRest == started ~> (finished \/ (waiting /\ Timeout(current) = 0))

(* A mission whose node ended the plan is cleaned up (base.py:44), be it   *)
(* that it completes or that its node times out.  A mission with a duration *)
(* sees to it itself; turn_around, which goes on without a pose, does not, *)
(* and _advance (mission_planner_node.py:140) does not tell the master.    *)
FailedMissionIsCleanedUp ==
  (status = "failed" /\ owner = entry) ~> cleaned
=============================================================================
