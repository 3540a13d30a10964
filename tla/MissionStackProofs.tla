-------------------------- MODULE MissionStackProofs -------------------------
(***************************************************************************)
(* Theorems of MissionStack for every plan, latency and launch, and that   *)
(* it implements PlanWalk.                                                 *)
(***************************************************************************)
EXTENDS MissionStack, SequenceTheorems, TLAPS

(* Ageing keeps the length of a topic and everything but the ages.         *)
LEMMA OlderCommands ==
  ASSUME NEW topic \in Seq(Command)
  PROVE  /\ Older(topic) \in Seq(Command)
         /\ Len(Older(topic)) = Len(topic)
         /\ \A i \in 1 .. Len(topic) :
              Older(topic)[i] = [topic[i] EXCEPT !.age = topic[i].age + 1]
<1>1. Len(topic) \in Nat
  BY LenProperties
<1>2. \A i \in 1 .. Len(topic) : topic[i] \in Command
  BY ElementOfSeq
<1>3. \A i \in 1 .. Len(topic) : [topic[i] EXCEPT !.age = topic[i].age + 1] \in Command
  BY <1>2 DEF Command
<1>4. Older(topic) \in [1 .. Len(topic) -> Command]
  BY <1>3 DEF Older
<1>5. Older(topic) \in Seq(Command) /\ Len(Older(topic)) = Len(topic)
  BY <1>1, <1>4
<1>. QED
  BY <1>5 DEF Older

LEMMA AgedEvent ==
  ASSUME NEW event \in Event, NEW age \in Nat
  PROVE  [event EXCEPT !.age = age] \in Event
BY Zenon DEF Event

LEMMA OlderEvents ==
  ASSUME NEW topic \in Seq(Event)
  PROVE  /\ Older(topic) \in Seq(Event)
         /\ Len(Older(topic)) = Len(topic)
         /\ \A i \in 1 .. Len(topic) :
              Older(topic)[i] = [topic[i] EXCEPT !.age = topic[i].age + 1]
<1>1. Len(topic) \in Nat
  BY LenProperties
<1>2. \A i \in 1 .. Len(topic) : topic[i] \in Event
  BY ElementOfSeq
<1>3. \A i \in 1 .. Len(topic) : [topic[i] EXCEPT !.age = topic[i].age + 1] \in Event
  <2>1. \A i \in 1 .. Len(topic) : topic[i].age + 1 \in Nat
    BY <1>2 DEF Event
  <2>. QED
    BY <1>2, <2>1, AgedEvent
<1>4. Older(topic) \in [1 .. Len(topic) -> Event]
  BY <1>3 DEF Older
<1>5. Older(topic) \in Seq(Event) /\ Len(Older(topic)) = Len(topic)
  BY <1>1, <1>4
<1>. QED
  BY <1>5 DEF Older

(* Publishing keeps the type of a topic.                                   *)
LEMMA PublishType ==
  ASSUME NEW S, NEW topic \in Seq(S), NEW msg \in S, NEW subscriber
  PROVE  Publish(topic, msg, subscriber) \in Seq(S)
<1>1. CASE joined[subscriber]
  BY <1>1, AppendProperties DEF Publish
<1>2. CASE ~joined[subscriber]
  BY <1>2 DEF Publish
<1>. QED
  BY <1>1, <1>2

(* What entering a node, and advancing, does to the planner's variables.   *)
LEMMA EnterNodeType ==
  ASSUME TypeOK, NEW n, EnterNode(n)
  PROVE  /\ toMaster' \in Seq(Command)
         /\ current' \in Nodes \cup {NoNode}
         /\ entry' \in Nat
         /\ elapsed' \in 0 .. Horizon
         /\ waiting' \in BOOLEAN
         /\ finished' \in BOOLEAN
         /\ status' \in {"none", "running", "complete", "failed", "error"}
<1>. USE DEF TypeOK, TopicsTypeOK, PlannerTypeOK
<1>1. CASE n \in Nodes
  <2>1. [behavior |-> Behavior(n), entry |-> entry + 1, age |-> 0] \in Command
    BY <1>1, PlanAssumption DEF Command, Behavior, NodeConfig
  <2>2. toMaster' \in Seq(Command)
    BY <1>1, <2>1, PublishType DEF EnterNode
  <2>3. elapsed' \in 0 .. Horizon /\ entry' \in Nat
    BY <1>1, HorizonAssumption DEF EnterNode
  <2>4. waiting' \in BOOLEAN /\ finished' \in BOOLEAN
    BY <1>1 DEF EnterNode
  <2>. QED
    BY <1>1, <2>2, <2>3, <2>4 DEF EnterNode
<1>2. CASE n \notin Nodes
  BY <1>2 DEF EnterNode
<1>. QED
  BY <1>1, <1>2

LEMMA AdvanceType ==
  ASSUME TypeOK, NEW n, NEW success, Advance(n, success)
  PROVE  /\ toMaster' \in Seq(Command)
         /\ current' \in Nodes \cup {NoNode}
         /\ entry' \in Nat
         /\ elapsed' \in 0 .. Horizon
         /\ waiting' \in BOOLEAN
         /\ finished' \in BOOLEAN
         /\ status' \in {"none", "running", "complete", "failed", "error"}
<1>1. CASE n # NoNode /\ EnterNode(n)
  BY <1>1, EnterNodeType
<1>2. CASE n = NoNode
  BY <1>2 DEF Advance, TypeOK, TopicsTypeOK, PlannerTypeOK
<1>. QED
  BY <1>1, <1>2 DEF Advance

(* TypeOK is inductive, whatever the plan.                                 *)
LEMMA TypeInit == Init => TypeOK
<1>. SUFFICES ASSUME Init PROVE TypeOK
  OBVIOUS
<1>1. TopicsTypeOK
  BY Zenon, EmptySeq DEF Init, TopicsInit, TopicsTypeOK
<1>2. PlannerTypeOK
  <2>1. elapsed \in 0 .. Horizon /\ entry \in Nat
    BY HorizonAssumption DEF Init, PlannerInit
  <2>. QED
    BY <2>1, Zenon DEF Init, PlannerInit, PlannerTypeOK
<1>3. MasterTypeOK
  <2>1. owner \in Nat /\ heard \in Nat /\ restarts \in 0 .. MaxRestarts
    BY MasterAssumption DEF Init, MasterInit
  <2>. QED
    BY <2>1, Zenon DEF Init, MasterInit, BootKey, MasterTypeOK
<1>. QED
  BY <1>1, <1>2, <1>3 DEF TypeOK

LEMMA TypeStep == TypeOK /\ [Next]_vars => TypeOK'
<1>. SUFFICES ASSUME TypeOK, [Next]_vars PROVE TypeOK'
  OBVIOUS
<1>. USE DEF TypeOK, TopicsTypeOK, PlannerTypeOK, MasterTypeOK
<1>1. CASE DelayedStart /\ UNCHANGED masterVars
  <2>1. CASE Start # NoNode /\ EnterNode(Start)
    BY <1>1, <2>1, EnterNodeType DEF DelayedStart, masterVars
  <2>2. CASE Start = NoNode
    BY <1>1, <2>2 DEF DelayedStart, masterVars
  <2>. QED
    BY <1>1, <2>1, <2>2 DEF DelayedStart
<1>2. CASE WatchdogTick /\ UNCHANGED masterVars
  BY <1>2, AdvanceType DEF WatchdogTick, masterVars
<1>3. CASE MissionEventCallback /\ UNCHANGED masterVars
  <2>1. toPlanner' \in Seq(Event)
    BY <1>3 DEF MissionEventCallback
  <2>2. CASE Accepts(Head(toPlanner))
    BY <1>3, <2>1, <2>2, AdvanceType DEF MissionEventCallback, masterVars
  <2>3. CASE ~Accepts(Head(toPlanner))
    BY <1>3, <2>1, <2>3 DEF MissionEventCallback, masterVars
  <2>. QED
    BY <2>2, <2>3
<1>4. CASE SetBehaviorCallback /\ UNCHANGED plannerVars
  <2>1. toMaster' \in Seq(Command) /\ Head(toMaster) \in Command
    BY <1>4 DEF SetBehaviorCallback
  <2>2. MasterTypeOK'
    <3>1. owner' \in Nat /\ heard' \in Nat /\ missionTime' \in Nat
      BY <1>4, <2>1 DEF SetBehaviorCallback, ActivateBehavior, Command
    <3>. QED
      BY <1>4, <3>1, Zenon DEF SetBehaviorCallback, ActivateBehavior
  <2>. QED
    BY <1>4, <2>1, <2>2 DEF SetBehaviorCallback, plannerVars
<1>5. ASSUME NEW ok \in BOOLEAN, MissionCompletes(ok) /\ UNCHANGED plannerVars
      PROVE  TypeOK'
  <2>1. [behavior |-> key, success |-> ok, entry |-> owner, age |-> 0] \in Event
    BY <1>5, PlanAssumption DEF MissionCompletes, Event
  <2>2. toPlanner' \in Seq(Event)
    BY <1>5, <2>1, PublishType DEF MissionCompletes
  <2>3. MasterTypeOK'
    <3>1. CASE PlannerMode
      BY <1>5, <3>1, Zenon DEF MissionCompletes
    <3>2. CASE ~PlannerMode
      <4>1. owner' \in Nat
        BY <1>5, <3>2 DEF MissionCompletes, ActivateBehavior
      <4>. QED
        BY <1>5, <3>2, <4>1, PlanAssumption, Zenon DEF MissionCompletes, ActivateBehavior
    <3>. QED
      BY <3>1, <3>2
  <2>. QED
    BY <1>5, <2>2, <2>3 DEF MissionCompletes, plannerVars
<1>6. CASE Restart /\ UNCHANGED plannerVars
  <2>1. toMaster' \in Seq(Command) /\ toPlanner' \in Seq(Event)
    BY <1>6, EmptySeq DEF Restart
  <2>2. joined' \in [{"master", "planner"} -> BOOLEAN]
    BY <1>6, Zenon DEF Restart
  <2>3. owner' \in Nat /\ heard' \in Nat /\ restarts' \in 0 .. MaxRestarts
    BY <1>6, MasterAssumption DEF Restart
  <2>4. MasterTypeOK'
    BY <1>6, <2>3, Zenon DEF Restart, BootKey
  <2>. QED
    BY <1>6, <2>1, <2>2, <2>4 DEF plannerVars
<1>7. CASE Discovery
  BY <1>7 DEF Discovery, Discover, plannerVars, masterVars
<1>8. CASE TimePasses
  <2>1. toMaster' \in Seq(Command) /\ toPlanner' \in Seq(Event)
    BY <1>8, OlderCommands, OlderEvents DEF TimePasses, Clock, MessagesAge
  <2>2. elapsed' \in 0 .. Horizon
    BY <1>8, HorizonAssumption DEF TimePasses, Clock
  <2>3. MasterTypeOK'
    BY <1>8 DEF TimePasses, MissionClock
  <2>. QED
    BY <1>8, <2>1, <2>2, <2>3 DEF TimePasses, Clock, MessagesAge
<1>9. CASE UNCHANGED vars
  BY <1>9 DEF vars
<1>. QED
  BY <1>1, <1>2, <1>3, <1>4, <1>5, <1>6, <1>7, <1>8, <1>9
     DEF Next, PlannerStep, MasterStep

(* Every variable of the stack keeps its type, for every plan: commands    *)
(* and events on the topics stay well formed (mission_planner_node.py:94,  *)
(* master_control_node.py:130) and elapsed stays within the horizon.       *)
THEOREM TypeCorrect == Spec => []TypeOK
  BY TypeInit, TypeStep, PTL DEF Spec
-----------------------------------------------------------------------------
(* The inductive invariant, for well-formed plans.                         *)

LEMMA InvInit == Init => IInv
<1>. SUFFICES ASSUME Init PROVE IInv
  OBVIOUS
<1>1. TypeOK
  BY TypeInit
<1>2. PlannerInv /\ MissionInv /\ HeardInv
  BY DEF Init, PlannerInit, MasterInit, PlannerInv, MissionInv, HeardInv
<1>3. CommandInv /\ EventInv
  BY DEF Init, TopicsInit, CommandInv, EventInv
<1>. QED
  BY <1>1, <1>2, <1>3 DEF IInv

(* The numbers in the events on their way.                                 *)
LEMMA EventFields ==
  ASSUME NEW topic \in Seq(Event), NEW i \in 1 .. Len(topic)
  PROVE  topic[i] \in Event /\ topic[i].entry \in Nat /\ topic[i].age \in Nat
<1>1. topic[i] \in Event
  BY ElementOfSeq
<1>. QED
  BY <1>1 DEF Event

(* The events that stay on their way when the planner leaves its node: all *)
(* of them name the behavior of the node it leaves.                        *)
LeftBehind(events) ==
  \A i \in 1 .. Len(events) :
    /\ events[i].entry \in 1 .. entry
    /\ events[i].age <= Latency
    /\ events[i].entry = owner => done
    /\ events[i].entry = entry => i = Len(events)
    /\ events[i].behavior = Behavior(current)
    /\ \A j \in 1 .. Len(events) : events[j].entry = events[i].entry => i = j

(* Entering a node when no command is on its way and nothing that runs, or *)
(* is on its way, names the new node's behavior.                           *)
LEMMA EnterNodeInv ==
  ASSUME IInv, WellFormedPlan, toMaster = <<>>, ~finished,
         NEW n \in Nodes, EnterNode(n), started', joined' = joined,
         UNCHANGED masterVars,
         owner > 0 => key # Behavior(n),
         \A i \in 1 .. Len(toPlanner') :
           /\ toPlanner'[i].entry \in 1 .. entry
           /\ toPlanner'[i].age \in 0 .. Latency
           /\ toPlanner'[i].entry = owner => done
           /\ toPlanner'[i].behavior # Behavior(n)
           /\ \A j \in 1 .. Len(toPlanner') :
                toPlanner'[j].entry = toPlanner'[i].entry => i = j
  PROVE  PlannerInv' /\ CommandInv' /\ MissionInv' /\ EventInv'
<1>. USE DEF IInv, TypeOK, TopicsTypeOK, PlannerTypeOK, MasterTypeOK
<1>. DEFINE msg == [behavior |-> Behavior(n), entry |-> entry + 1, age |-> 0]
<1>1. /\ current' = n /\ entry' = entry + 1 /\ elapsed' = 0
      /\ waiting' /\ finished' = finished
      /\ toMaster' = Publish(toMaster, msg, "master")
  BY DEF EnterNode
<1>2. /\ owner' = owner /\ key' = key /\ done' = done
  BY DEF masterVars
<1>3. toMaster' = IF joined["master"] THEN <<msg>> ELSE <<>>
  BY <1>1 DEF Publish
<1>4. PlannerInv'
  BY <1>1 DEF PlannerInv
<1>5. owner < entry'
  BY <1>1 DEF MissionInv
<1>6. CommandInv'
  <2>1. CASE joined["master"]
    BY <1>1, <1>2, <1>3, <1>5, <2>1, LatencyAssumption DEF CommandInv
  <2>2. CASE ~joined["master"]
    BY <1>3, <2>2 DEF CommandInv
  <2>. QED
    BY <2>1, <2>2
<1>7. MissionInv'
  <2>1. owner > 0 => toMaster' # <<>>
    BY <1>3 DEF MissionInv
  <2>. QED
    BY <1>1, <1>2, <1>5, <2>1 DEF MissionInv
<1>8. EventInv'
  BY <1>1, <1>2, LatencyAssumption DEF EventInv
<1>. QED
  BY <1>4, <1>6, <1>7, <1>8

(* Leaving the current node, to a follower or to the end of the plan.      *)
LEMMA AdvanceInv ==
  ASSUME IInv, WellFormedPlan, toMaster = <<>>, waiting,
         toPlanner' \in Seq(Event),
         NEW n, NEW success, Advance(n, success),
         n \in Nodes => n \in Followers(current),
         started' = started, joined' = joined, UNCHANGED masterVars,
         LeftBehind(toPlanner')
  PROVE  PlannerInv' /\ CommandInv' /\ MissionInv' /\ EventInv'
<1>. USE DEF IInv, TypeOK, TopicsTypeOK, PlannerTypeOK, MasterTypeOK
<1>1. /\ owner' = owner /\ key' = key /\ done' = done
  BY DEF masterVars
<1>2. owner > 0 => key = Behavior(current)
  BY DEF MissionInv
<1>3. ~finished /\ started /\ current \in Nodes /\ entry > 0
  BY DEF PlannerInv
<1>4. CASE n \in Nodes
  <2>1. EnterNode(n)
    BY <1>4, PlanAssumption DEF Advance
  <2>2. Behavior(n) # Behavior(current)
    BY <1>3, <1>4 DEF WellFormedPlan, ConsecutiveDiffer
  <2>3. \A i \in 1 .. Len(toPlanner') : toPlanner'[i].age \in Nat
    BY EventFields
  <2>4. \A i \in 1 .. Len(toPlanner') : toPlanner'[i].age \in 0 .. Latency
    BY <2>3, LatencyAssumption DEF LeftBehind
  <2>5. \A i \in 1 .. Len(toPlanner') :
           /\ toPlanner'[i].entry \in 1 .. entry
           /\ toPlanner'[i].age \in 0 .. Latency
           /\ toPlanner'[i].entry = owner => done
           /\ toPlanner'[i].behavior # Behavior(n)
           /\ \A j \in 1 .. Len(toPlanner') :
                toPlanner'[j].entry = toPlanner'[i].entry => i = j
    BY <2>2, <2>4 DEF LeftBehind
  <2>6. owner > 0 => key # Behavior(n)
    BY <1>2, <2>2
  <2>7. started'
    BY <1>3
  <2>. QED
    BY <1>3, <1>4, <2>1, <2>5, <2>6, <2>7, EnterNodeInv
<1>5. CASE n \notin Nodes
  <2>1. /\ waiting' = FALSE
        /\ toMaster' = toMaster /\ entry' = entry
    BY <1>5 DEF Advance, EnterNode
  <2>2. PlannerInv'
    BY <1>3, <2>1 DEF PlannerInv
  <2>3. CommandInv' /\ MissionInv'
    BY <1>1, <2>1 DEF CommandInv, MissionInv
  <2>4. EventInv'
    BY <1>1, <2>1 DEF EventInv, LeftBehind
  <2>. QED
    BY <2>2, <2>3, <2>4
<1>. QED
  BY <1>4, <1>5

LEMMA DelayedStartInv ==
  ASSUME IInv, WellFormedPlan, DelayedStart, UNCHANGED masterVars
  PROVE  PlannerInv' /\ CommandInv' /\ MissionInv' /\ EventInv'
<1>. USE DEF IInv, TypeOK, TopicsTypeOK, PlannerTypeOK, MasterTypeOK
<1>1. /\ started' /\ toPlanner' = toPlanner /\ joined' = joined
  BY DEF DelayedStart
<1>2. /\ entry = 0 /\ ~waiting /\ ~finished /\ owner = 0 /\ toMaster = <<>>
  BY DEF DelayedStart, PlannerInv, CommandInv, MissionInv
<1>3. Len(toPlanner) = 0
  <2>1. Len(toPlanner) \in Nat
    BY LenProperties
  <2>2. ASSUME 1 \in 1 .. Len(toPlanner) PROVE FALSE
    <3>1. toPlanner[1].entry \in 1 .. entry
      BY <2>2 DEF EventInv
    <3>. QED
      BY <1>2, <3>1
  <2>. QED
    BY <2>1, <2>2
<1>4. /\ owner' = owner /\ key' = key /\ done' = done
  BY DEF masterVars
<1>5. CASE Start \in Nodes
  <2>1. EnterNode(Start)
    BY <1>5, PlanAssumption DEF DelayedStart
  <2>. QED
    BY <1>1, <1>2, <1>3, <1>5, <2>1, EnterNodeInv
<1>6. CASE Start \notin Nodes
  <2>1. /\ entry' = entry /\ waiting' = FALSE /\ toMaster' = toMaster
    BY <1>2, <1>6 DEF DelayedStart, EnterNode
  <2>2. PlannerInv'
    BY <1>1, <2>1 DEF PlannerInv
  <2>3. CommandInv' /\ MissionInv'
    BY <1>1, <1>2, <1>4, <2>1 DEF CommandInv, MissionInv
  <2>4. EventInv'
    BY <1>1, <1>3 DEF EventInv
  <2>. QED
    BY <2>2, <2>3, <2>4
<1>. QED
  BY <1>5, <1>6

LEMMA WatchdogTickInv ==
  ASSUME IInv, WellFormedPlan, WatchdogTick, UNCHANGED masterVars
  PROVE  PlannerInv' /\ CommandInv' /\ MissionInv' /\ EventInv'
<1>. USE DEF IInv, TypeOK, TopicsTypeOK, PlannerTypeOK, MasterTypeOK
<1>1. /\ waiting /\ current \in Nodes /\ Timeout(current) > 0
      /\ elapsed >= Timeout(current) /\ Advance(OnTimeout(current), FALSE)
      /\ started' = started /\ joined' = joined /\ toPlanner' = toPlanner
  BY DEF WatchdogTick, WatchdogDue, PlannerInv
<1>2. Timeout(current) \in Nat
  BY <1>1, PlanAssumption DEF Timeout, NodeConfig
<1>3. elapsed > 2 * Latency
  BY <1>1, <1>2, LatencyAssumption DEF WellFormedPlan, TimeoutsOutlastDelivery
<1>4. toMaster = <<>>
  BY <1>3, LatencyAssumption DEF CommandInv
<1>5. \A i \in 1 .. Len(toPlanner) : toPlanner[i].age \in Nat
  BY EventFields
<1>6. \A i \in 1 .. Len(toPlanner) : toPlanner[i].entry = entry
  BY <1>1, <1>3, <1>5, LatencyAssumption DEF EventInv
<1>7. LeftBehind(toPlanner')
  BY <1>1, <1>6 DEF EventInv, LeftBehind
<1>8. OnTimeout(current) \in Nodes => OnTimeout(current) \in Followers(current)
  BY DEF Followers
<1>. QED
  BY <1>1, <1>4, <1>7, <1>8, AdvanceInv

LEMMA MissionEventInv ==
  ASSUME IInv, WellFormedPlan, MissionEventCallback, UNCHANGED masterVars
  PROVE  PlannerInv' /\ CommandInv' /\ MissionInv' /\ EventInv'
<1>. USE DEF IInv, TypeOK, TopicsTypeOK, PlannerTypeOK, MasterTypeOK
<1>. DEFINE event == toPlanner[1]
<1>1. /\ toPlanner' = Tail(toPlanner) /\ toPlanner # <<>> /\ Head(toPlanner) = event
      /\ started' = started /\ joined' = joined
  BY DEF MissionEventCallback
<1>2. /\ Len(toPlanner) \in Nat \ {0} /\ toPlanner' \in Seq(Event)
      /\ Len(toPlanner') = Len(toPlanner) - 1
      /\ \A i \in 1 .. Len(toPlanner') : toPlanner'[i] = toPlanner[i + 1]
  BY <1>1, EmptySeq, HeadTailProperties
<1>3. CASE Accepts(event)
  <2>1. event.entry = entry /\ waiting
    BY <1>2, <1>3 DEF Accepts, EventInv
  <2>2. Len(toPlanner) = 1 /\ toMaster = <<>>
    BY <1>2, <2>1 DEF EventInv
  <2>3. LeftBehind(toPlanner')
    BY <1>2, <2>2 DEF LeftBehind
  <2>4. Advance(OnReport(current, event.success), event.success)
    BY <1>1, <1>3 DEF MissionEventCallback
  <2>5. OnReport(current, event.success) \in Nodes =>
          OnReport(current, event.success) \in Followers(current)
    BY DEF OnReport, Followers
  <2>. QED
    BY <1>1, <1>2, <2>1, <2>2, <2>3, <2>4, <2>5, AdvanceInv
<1>4. CASE ~Accepts(event)
  <2>1. UNCHANGED <<current, entry, elapsed, waiting, finished, toMaster>>
    BY <1>1, <1>4 DEF MissionEventCallback
  <2>2. /\ owner' = owner /\ key' = key /\ done' = done
    BY DEF masterVars
  <2>3. PlannerInv' /\ CommandInv' /\ MissionInv'
    BY <1>1, <2>1, <2>2 DEF PlannerInv, CommandInv, MissionInv
  <2>4. EventInv'
    <3>. HIDE DEF IInv, TypeOK, TopicsTypeOK, PlannerTypeOK, MasterTypeOK
    <3>. SUFFICES ASSUME NEW i \in 1 .. Len(toPlanner')
                  PROVE  EventInv!(i)'
      BY DEF EventInv
    <3>1. /\ i + 1 \in 1 .. Len(toPlanner) /\ toPlanner'[i] = toPlanner[i + 1]
      BY <1>2
    <3>2. EventInv!(i + 1)
      BY <3>1 DEF EventInv, IInv
    <3>3. ASSUME NEW j \in 1 .. Len(toPlanner'),
                 toPlanner'[j].entry = toPlanner'[i].entry
          PROVE  i = j
      <4>1. /\ j + 1 \in 1 .. Len(toPlanner) /\ toPlanner'[j] = toPlanner[j + 1]
        BY <1>2
      <4>2. i + 1 = j + 1
        BY <3>1, <3>2, <3>3, <4>1
      <4>. QED
        BY <1>2, <4>2
    <3>4. i = Len(toPlanner') <=> i + 1 = Len(toPlanner)
      BY <1>2
    <3>. QED
      BY <2>1, <2>2, <3>1, <3>2, <3>3, <3>4
  <2>. QED
    BY <2>3, <2>4
<1>. QED
  BY <1>3, <1>4

LEMMA SetBehaviorInv ==
  ASSUME IInv, WellFormedPlan, SetBehaviorCallback, UNCHANGED plannerVars
  PROVE  PlannerInv' /\ CommandInv' /\ MissionInv' /\ EventInv'
<1>. USE DEF IInv, TypeOK, TopicsTypeOK, PlannerTypeOK, MasterTypeOK
<1>1. /\ waiting /\ joined["master"] /\ Len(toMaster) = 1 /\ owner < entry
      /\ Head(toMaster).entry = entry /\ Head(toMaster).behavior = Behavior(current)
  BY DEF SetBehaviorCallback, CommandInv
<1>2. /\ toMaster' = <<>> /\ toPlanner' = toPlanner /\ joined' = joined
      /\ ActivateBehavior(Behavior(current), entry)
  BY <1>1 DEF SetBehaviorCallback, WellFormedPlan
<1>3. UNCHANGED <<started, current, entry, elapsed, waiting, finished>>
  BY DEF plannerVars
<1>4. current \in Nodes /\ Behavior(current) \in Registry /\ entry > 0
  BY <1>1 DEF PlannerInv, WellFormedPlan
<1>5. PlannerInv' /\ CommandInv'
  BY <1>2, <1>3 DEF PlannerInv, CommandInv
<1>6. CASE Behavior(current) = key
  <2>1. owner = 0
    BY <1>1, <1>6 DEF MissionInv
  <2>2. UNCHANGED <<key, owner, done>>
    BY <1>2, <1>6 DEF ActivateBehavior
  <2>3. MissionInv'
    BY <1>1, <1>2, <1>3, <2>1, <2>2 DEF MissionInv
  <2>4. EventInv'
    BY <1>2, <1>3, <2>2 DEF EventInv
  <2>. QED
    BY <1>5, <2>3, <2>4
<1>7. CASE Behavior(current) # key
  <2>1. key' = Behavior(current) /\ owner' = entry /\ done' = FALSE
    BY <1>2, <1>4, <1>7 DEF ActivateBehavior
  <2>2. MissionInv'
    BY <1>1, <1>2, <1>3, <1>4, <2>1 DEF MissionInv
  <2>3. toMaster # <<>>
    BY DEF SetBehaviorCallback
  <2>4. \A i \in 1 .. Len(toPlanner) : toPlanner[i].entry < entry
    BY <2>3 DEF EventInv
  <2>5. EventInv'
    BY <1>2, <1>3, <2>1, <2>4 DEF EventInv
  <2>. QED
    BY <1>5, <2>2, <2>5
<1>. QED
  BY <1>6, <1>7

LEMMA MissionCompletesInv ==
  ASSUME IInv, WellFormedPlan, NEW ok \in BOOLEAN, MissionCompletes(ok),
         UNCHANGED plannerVars
  PROVE  PlannerInv' /\ CommandInv' /\ MissionInv' /\ EventInv'
<1>. USE DEF IInv, TypeOK, TopicsTypeOK, PlannerTypeOK, MasterTypeOK
<1>. DEFINE msg == [behavior |-> key, success |-> ok, entry |-> owner, age |-> 0]
            n == Len(toPlanner)
<1>1. /\ key # NoBehavior /\ ~done /\ key \notin Endless /\ done'
      /\ key' = key /\ owner' = owner /\ toMaster' = toMaster /\ joined' = joined
      /\ toPlanner' = Publish(toPlanner, msg, "planner")
  BY DEF MissionCompletes, WellFormedPlan
<1>2. UNCHANGED <<started, current, entry, elapsed, waiting, finished>>
  BY DEF plannerVars
<1>3. owner > 0
  BY <1>1 DEF MissionInv, BootKey, WellFormedPlan
<1>4. PlannerInv' /\ CommandInv' /\ MissionInv'
  BY <1>1, <1>2, <1>3 DEF PlannerInv, CommandInv, MissionInv
<1>5. \A i \in 1 .. n : toPlanner[i].entry # owner
  BY <1>1 DEF EventInv
<1>6. CASE joined["planner"]
  <2>1. msg \in Event
    BY <1>1, PlanAssumption DEF Event
  <2>2. /\ n \in Nat /\ Len(toPlanner') = n + 1 /\ toPlanner'[n + 1] = msg
        /\ \A i \in 1 .. n : toPlanner'[i] = toPlanner[i]
    BY <1>1, <1>6, <2>1, LenProperties, AppendProperties DEF Publish
  <2>3. owner = entry => \A i \in 1 .. n : toPlanner[i].entry < entry
    BY <1>5 DEF EventInv
  <2>4. owner < entry => \A i \in 1 .. n : toPlanner[i].entry < entry
    BY <1>3 DEF MissionInv, EventInv
  <2>5. owner \in 1 .. entry
    BY <1>3 DEF MissionInv
  <2>6. ASSUME NEW i \in 1 .. n
        PROVE  EventInv!(i)'
    <3>1. toPlanner'[i] = toPlanner[i] /\ toPlanner[i].entry < entry
      BY <2>2, <2>3, <2>4, <2>5
    <3>2. EventInv!(i)
      BY DEF EventInv
    <3>3. ASSUME NEW j \in 1 .. n + 1, toPlanner'[j].entry = toPlanner'[i].entry
          PROVE  i = j
      <4>1. CASE j = n + 1
        BY <1>5, <2>2, <3>1, <3>3, <4>1
      <4>2. CASE j \in 1 .. n
        BY <2>2, <3>1, <3>2, <3>3, <4>2
      <4>. QED
        BY <2>2, <4>1, <4>2
    <3>. QED
      BY <1>1, <1>2, <2>2, <3>1, <3>2, <3>3
  <2>7. /\ owner < entry => toMaster # <<>> /\ key # Behavior(current)
        /\ toMaster # <<>> => owner < entry /\ elapsed <= Latency
        /\ owner = entry /\ waiting => key = Behavior(current)
    BY <1>3, LatencyAssumption DEF MissionInv, CommandInv
  <2>8. ASSUME NEW i \in 1 .. Len(toPlanner'), i = n + 1
        PROVE  EventInv!(i)'
    <3>1. toPlanner'[i].entry = owner /\ toPlanner'[i].age = 0
          /\ toPlanner'[i].behavior = key
      BY <2>2, <2>8
    <3>2. \A j \in 1 .. Len(toPlanner') : toPlanner'[j].entry = owner => i = j
      BY <1>5, <2>2, <2>8
    <3>3. /\ owner \in 1 .. entry /\ 0 <= Latency
          /\ toMaster # <<>> => owner < entry
          /\ owner = entry => i = Len(toPlanner')
          /\ owner < entry => elapsed <= Latency + 0
      BY <2>2, <2>5, <2>7, <2>8, LatencyAssumption
    <3>4. owner = entry /\ waiting => key = Behavior(current)
      BY <2>7
    <3>5. owner < entry => key # Behavior(current)
      BY <2>7
    <3>. HIDE DEF IInv, TypeOK, TopicsTypeOK, PlannerTypeOK, MasterTypeOK, n, msg
    <3>. QED
      BY <1>1, <1>2, <3>1, <3>2, <3>3, <3>4, <3>5, Zenon
  <2>9. EventInv'
    <3>1. ASSUME NEW i \in 1 .. Len(toPlanner')
          PROVE  EventInv!(i)'
      <4>1. CASE i \in 1 .. n
        BY <2>6, <4>1
      <4>2. CASE i = n + 1
        BY <2>8, <4>2
      <4>3. i \in 1 .. n \/ i = n + 1
        <5>. HIDE DEF IInv, TypeOK, TopicsTypeOK, PlannerTypeOK, MasterTypeOK, n
        <5>. QED
          BY <2>2
      <4>. QED
        BY <4>1, <4>2, <4>3
    <3>. HIDE DEF IInv, TypeOK, TopicsTypeOK, PlannerTypeOK, MasterTypeOK, n, msg
    <3>. QED
      BY <3>1, Zenon DEF EventInv
  <2>. QED
    BY <1>4, <2>9
<1>7. CASE ~joined["planner"]
  <2>1. toPlanner' = toPlanner
    BY <1>1, <1>7 DEF Publish
  <2>2. EventInv'
    BY <1>1, <1>2, <2>1 DEF EventInv
  <2>. QED
    BY <1>4, <2>2
<1>. QED
  BY <1>6, <1>7

LEMMA RestartInv ==
  ASSUME IInv, Restart, UNCHANGED plannerVars
  PROVE  PlannerInv' /\ CommandInv' /\ MissionInv' /\ EventInv'
<1>. USE DEF IInv, TypeOK, TopicsTypeOK, PlannerTypeOK, MasterTypeOK
<1>1. /\ toMaster' = <<>> /\ toPlanner' = toPlanner
      /\ key' = BootKey /\ owner' = 0 /\ done' = FALSE
  BY DEF Restart, BootKey
<1>2. UNCHANGED <<started, current, entry, elapsed, waiting, finished>>
  BY DEF plannerVars
<1>3. PlannerInv' /\ CommandInv'
  BY <1>1, <1>2 DEF PlannerInv, CommandInv
<1>4. MissionInv'
  BY <1>1, <1>2 DEF MissionInv, BootKey
<1>5. EventInv'
  BY <1>1, <1>2 DEF EventInv
<1>. QED
  BY <1>3, <1>4, <1>5

LEMMA DiscoveryInv ==
  ASSUME IInv, Discovery
  PROVE  PlannerInv' /\ CommandInv' /\ MissionInv' /\ EventInv'
<1>. USE DEF IInv, TypeOK, TopicsTypeOK
<1>1. /\ UNCHANGED <<toMaster, toPlanner, plannerVars, masterVars>>
      /\ joined["master"] => joined'["master"]
  BY DEF Discovery, Discover
<1>. QED
  BY <1>1 DEF PlannerInv, CommandInv, MissionInv, EventInv, plannerVars, masterVars

LEMMA TimePassesInv ==
  ASSUME IInv, TimePasses
  PROVE  PlannerInv' /\ CommandInv' /\ MissionInv' /\ EventInv'
<1>. USE DEF IInv, TypeOK, TopicsTypeOK, PlannerTypeOK, MasterTypeOK
<1>1. /\ UNCHANGED <<started, current, entry, waiting, finished, joined>>
      /\ elapsed' \in {elapsed, elapsed + 1}
      /\ Prompt(toMaster) /\ toMaster' = Older(toMaster)
      /\ Prompt(toPlanner) /\ toPlanner' = Older(toPlanner)
  BY DEF TimePasses, Clock, MessagesAge
<1>2. /\ owner' = owner /\ key' = key /\ done' = done
  BY DEF TimePasses, MissionClock
<1>3. /\ Len(toMaster') = Len(toMaster)
      /\ \A i \in 1 .. Len(toMaster) :
           toMaster'[i] = [toMaster[i] EXCEPT !.age = toMaster[i].age + 1]
      /\ toMaster' = <<>> <=> toMaster = <<>>
  BY <1>1, OlderCommands, EmptySeq
<1>4. /\ Len(toPlanner') = Len(toPlanner)
      /\ \A i \in 1 .. Len(toPlanner) :
           toPlanner'[i] = [toPlanner[i] EXCEPT !.age = toPlanner[i].age + 1]
  BY <1>1, OlderEvents
<1>5. PlannerInv' /\ MissionInv'
  BY <1>1, <1>2, <1>3 DEF PlannerInv, MissionInv
<1>6. CommandInv'
  <2>. SUFFICES ASSUME toMaster # <<>> PROVE CommandInv'
    BY <1>3 DEF CommandInv
  <2>1. Len(toMaster) = 1 /\ toMaster[1] \in Command /\ toMaster[1].age < Latency
    BY <1>1, ElementOfSeq DEF CommandInv, Prompt
  <2>2. /\ toMaster'[1].age = toMaster[1].age + 1
        /\ toMaster'[1].entry = toMaster[1].entry
        /\ toMaster'[1].behavior = toMaster[1].behavior
    BY <1>3, <2>1 DEF Command
  <2>3. toMaster[1].age \in Nat
    BY <2>1 DEF Command
  <2>. QED
    BY <1>1, <1>2, <1>3, <2>1, <2>2, <2>3, LatencyAssumption DEF CommandInv
<1>7. EventInv'
  <2>1. \A i \in 1 .. Len(toPlanner) :
          /\ toPlanner[i].age \in Nat
          /\ toPlanner[i].age < Latency
          /\ toPlanner'[i].age = toPlanner[i].age + 1
          /\ toPlanner'[i].entry = toPlanner[i].entry
          /\ toPlanner'[i].behavior = toPlanner[i].behavior
    <3>. SUFFICES ASSUME NEW i \in 1 .. Len(toPlanner)
                  PROVE  <2>1!(i)
      OBVIOUS
    <3>1. toPlanner[i] \in Event /\ toPlanner[i].age \in Nat
      BY EventFields
    <3>2. toPlanner'[i] = [toPlanner[i] EXCEPT !.age = toPlanner[i].age + 1]
      BY <1>4
    <3>3. toPlanner[i].age < Latency
      BY <1>1 DEF Prompt
    <3>4. /\ toPlanner'[i].age = toPlanner[i].age + 1
          /\ toPlanner'[i].entry = toPlanner[i].entry
          /\ toPlanner'[i].behavior = toPlanner[i].behavior
      BY <3>1, <3>2, Zenon DEF Event
    <3>. QED
      BY <3>1, <3>3, <3>4
  <2>. SUFFICES ASSUME NEW i \in 1 .. Len(toPlanner')
                PROVE  EventInv!(i)'
    BY DEF EventInv
  <2>2. i \in 1 .. Len(toPlanner)
    BY <1>4
  <2>3. EventInv!(i)
    BY <2>2 DEF EventInv
  <2>4. ASSUME NEW j \in 1 .. Len(toPlanner'), toPlanner'[j].entry = toPlanner'[i].entry
        PROVE  i = j
    BY <1>4, <2>1, <2>2, <2>3, <2>4
  <2>5. /\ toPlanner'[i].age \in Nat /\ toPlanner'[i].age <= Latency
        /\ toPlanner[i].entry < entry /\ waiting =>
             elapsed' <= Latency + toPlanner'[i].age
    <3>1. elapsed \in Nat /\ elapsed' \in {elapsed, elapsed + 1} /\ waiting' = waiting
      BY <1>1
    <3>. HIDE DEF IInv, TypeOK, TopicsTypeOK, PlannerTypeOK, MasterTypeOK
    <3>. QED
      BY <2>1, <2>2, <2>3, <3>1, LatencyAssumption
  <2>6. (i = Len(toPlanner') <=> i = Len(toPlanner))
        /\ (toMaster' # <<>> => toMaster # <<>>)
    BY <1>3, <1>4
  <2>. HIDE DEF IInv, TypeOK, TopicsTypeOK, PlannerTypeOK, MasterTypeOK
  <2>. QED
    BY <1>1, <1>2, <2>1, <2>2, <2>3, <2>4, <2>5, <2>6
<1>. QED
  BY <1>5, <1>6, <1>7

(* What the master has heard is the current command, or that is on its way. *)
LEMMA EnterNodeHeard ==
  ASSUME IInv, NEW n, EnterNode(n), UNCHANGED masterVars, joined' = joined
  PROVE  HeardInv'
<1>1. heard' = heard /\ owner' = owner /\ key' = key
  BY DEF masterVars
<1>2. CASE n \in Nodes
  <2>1. entry' = entry + 1
    BY <1>2 DEF EnterNode
  <2>2. heard < entry' /\ heard \in Nat
    BY <2>1 DEF IInv, HeardInv, TypeOK, PlannerTypeOK, MasterTypeOK
  <2>3. heard > 0 => toMaster' # <<>>
    BY <1>2, AppendProperties
       DEF EnterNode, Publish, IInv, HeardInv, TypeOK, TopicsTypeOK
  <2>. QED
    BY <1>1, <2>1, <2>2, <2>3 DEF IInv, HeardInv
<1>3. CASE n \notin Nodes
  <2>1. entry' = entry /\ toMaster' = toMaster /\ ~waiting'
    BY <1>3 DEF EnterNode
  <2>. QED
    BY <1>1, <2>1 DEF IInv, HeardInv
<1>. QED
  BY <1>2, <1>3

LEMMA AdvanceHeard ==
  ASSUME IInv, NEW next, NEW success \in BOOLEAN, Advance(next, success),
         UNCHANGED masterVars, joined' = joined
  PROVE  HeardInv'
<1>1. CASE next # NoNode /\ EnterNode(next)
  BY <1>1, EnterNodeHeard
<1>2. CASE entry' = entry /\ toMaster' = toMaster /\ ~waiting'
  BY <1>2 DEF masterVars, IInv, HeardInv
<1>. QED
  BY <1>1, <1>2 DEF Advance

LEMMA PlannerStepHeard ==
  ASSUME IInv, PlannerStep
  PROVE  HeardInv'
<1>1. UNCHANGED masterVars
  BY DEF PlannerStep
<1>2. CASE DelayedStart
  <2>1. CASE Start # NoNode /\ EnterNode(Start)
    BY <1>1, <1>2, <2>1, EnterNodeHeard DEF DelayedStart
  <2>2. CASE UNCHANGED <<current, entry, waiting, toMaster>>
    BY <1>1, <1>2, <2>2 DEF DelayedStart, masterVars, IInv, HeardInv
  <2>. QED
    BY <1>2, <2>1, <2>2 DEF DelayedStart
<1>3. CASE WatchdogTick
  BY <1>1, <1>3, AdvanceHeard DEF WatchdogTick
<1>4. CASE MissionEventCallback
  <2>1. CASE UNCHANGED <<current, entry, waiting, toMaster>>
    BY <1>1, <1>4, <2>1 DEF MissionEventCallback, masterVars, IInv, HeardInv
  <2>2. CASE ~UNCHANGED <<current, entry, waiting, toMaster>>
    <3>1. Head(toPlanner) \in Event
      BY <1>4 DEF MissionEventCallback, IInv, TypeOK, TopicsTypeOK
    <3>2. Head(toPlanner).success \in BOOLEAN
      BY <3>1 DEF Event
    <3>3. Advance(OnReport(current, Head(toPlanner).success), Head(toPlanner).success)
      BY <1>4, <2>2 DEF MissionEventCallback
    <3>. QED
      BY <1>1, <1>4, <3>2, <3>3, AdvanceHeard DEF MissionEventCallback
  <2>. QED
    BY <2>1, <2>2
<1>. QED
  BY <1>2, <1>3, <1>4 DEF PlannerStep

LEMMA MasterStepHeard ==
  ASSUME IInv, WellFormedPlan, MasterStep
  PROVE  HeardInv'
<1>1. UNCHANGED <<entry, current, waiting>>
  BY DEF MasterStep, plannerVars
<1>2. CASE SetBehaviorCallback
  <2>1. /\ waiting /\ joined["master"]
        /\ Head(toMaster).entry = entry /\ Head(toMaster).behavior = Behavior(current)
        /\ owner < entry /\ entry > 0 /\ joined' = joined
    BY <1>2 DEF SetBehaviorCallback, IInv, CommandInv, PlannerInv
  <2>2. heard' = entry
    BY <1>2, <2>1 DEF SetBehaviorCallback
  <2>3. key' = Behavior(current) /\ owner' \in {0, entry}
    <3>1. CASE Behavior(current) = key
      <4>1. owner = 0
        BY <2>1, <3>1 DEF IInv, MissionInv, TypeOK, MasterTypeOK
      <4>. QED
        BY <1>2, <2>1, <3>1, <4>1 DEF SetBehaviorCallback, ActivateBehavior
    <3>2. CASE Behavior(current) # key
      <4>1. Behavior(current) \in Registry
        BY <2>1 DEF WellFormedPlan, IInv, PlannerInv
      <4>. QED
        BY <1>2, <2>1, <3>2, <4>1
           DEF SetBehaviorCallback, ActivateBehavior, WellFormedPlan
    <3>. QED
      BY <3>1, <3>2
  <2>. QED
    BY <1>1, <2>1, <2>2, <2>3 DEF HeardInv, IInv, TypeOK, PlannerTypeOK
<1>3. ASSUME NEW ok \in BOOLEAN, MissionCompletes(ok)
      PROVE  HeardInv'
  BY <1>1, <1>3 DEF MissionCompletes, WellFormedPlan, IInv, HeardInv
<1>4. CASE Restart
  <2>1. heard' = 0 /\ owner' = 0
    BY <1>4 DEF Restart
  <2>. QED
    BY <1>1, <2>1 DEF HeardInv, IInv, TypeOK, PlannerTypeOK
<1>. QED
  BY <1>2, <1>3, <1>4 DEF MasterStep

LEMMA HeardStep ==
  ASSUME IInv, WellFormedPlan, [Next]_vars
  PROVE  HeardInv'
<1>1. CASE Discovery
  <2>1. UNCHANGED <<key, owner, heard, entry, waiting, current, toMaster>>
        /\ (joined["master"] => joined'["master"])
    BY <1>1 DEF Discovery, Discover, plannerVars, masterVars, IInv, TypeOK, TopicsTypeOK
  <2>. QED
    BY <2>1 DEF IInv, HeardInv
<1>2. CASE TimePasses
  <2>1. UNCHANGED <<key, owner, heard, entry, waiting, current, joined>>
    BY <1>2 DEF TimePasses, Clock, MessagesAge, MissionClock
  <2>2. toMaster' \in Seq(Command) /\ Len(toMaster') = Len(toMaster)
    BY <1>2, OlderCommands DEF TimePasses, Clock, MessagesAge, IInv, TypeOK, TopicsTypeOK
  <2>3. toMaster # <<>> => toMaster' # <<>>
    BY <2>2, EmptySeq DEF IInv, TypeOK, TopicsTypeOK
  <2>. QED
    BY <2>1, <2>3 DEF IInv, HeardInv
<1>3. CASE UNCHANGED vars
  BY <1>3 DEF vars, IInv, HeardInv
<1>. QED
  BY <1>1, <1>2, <1>3, PlannerStepHeard, MasterStepHeard DEF Next

(* Every step of a well-formed plan's stack keeps the invariant.           *)
LEMMA InvStep ==
  ASSUME WellFormedPlan, IInv, [Next]_vars
  PROVE  IInv'
<1>1. TypeOK'
  BY TypeStep DEF IInv
<1>0. HeardInv'
  BY HeardStep
<1>2. CASE PlannerStep
  BY <1>0, <1>1, <1>2, DelayedStartInv, WatchdogTickInv, MissionEventInv
     DEF PlannerStep, IInv
<1>3. CASE MasterStep
  BY <1>0, <1>1, <1>3, SetBehaviorInv, MissionCompletesInv, RestartInv
     DEF MasterStep, IInv
<1>4. CASE Discovery
  BY <1>0, <1>1, <1>4, DiscoveryInv DEF IInv
<1>5. CASE TimePasses
  BY <1>0, <1>1, <1>5, TimePassesInv DEF IInv
<1>6. CASE UNCHANGED vars
  BY <1>0, <1>1, <1>6 DEF vars, IInv, PlannerInv, CommandInv, MissionInv, EventInv
<1>. QED
  BY <1>2, <1>3, <1>4, <1>5, <1>6 DEF Next

(* Planner and master stay within one command of each other: the inductive *)
(* invariant of MissionStack holds for every well-formed plan, whatever is *)
(* delivered late, discovered late or restarted.                           *)
THEOREM InvariantHolds ==
  ASSUME WellFormedPlan
  PROVE  Spec => []IInv
<1>1. Init => IInv
  BY InvInit
<1>2. IInv /\ [Next]_vars => IInv'
  BY InvStep
<1>. QED
  BY <1>1, <1>2, PTL DEF Spec

(* An event that _mission_event_callback would credit to the current node  *)
(* comes from the mission created for this very visit, although the        *)
(* callback compares nothing but the behavior name.                        *)
THEOREM CreditIsDue ==
  ASSUME WellFormedPlan
  PROVE  Spec => []EventCredit
<1>1. IInv => EventCredit
  <2>. SUFFICES ASSUME IInv, NEW i \in 1 .. Len(toPlanner), Accepts(toPlanner[i])
                PROVE  toPlanner[i].entry = entry
    BY DEF EventCredit
  <2>1. toPlanner[i].entry \in 1 .. entry
    BY DEF IInv, EventInv
  <2>2. ~(toPlanner[i].entry < entry)
    BY DEF IInv, EventInv, Accepts
  <2>. QED
    BY <2>1, <2>2 DEF IInv, TypeOK, PlannerTypeOK
<1>. QED
  BY <1>1, InvariantHolds, PTL

(* When no command is on its way the master runs the planner's node, or it *)
(* has heard nothing since its launch and idles in its launch behavior.    *)
THEOREM MasterFollowsPlanner ==
  ASSUME WellFormedPlan
  PROVE  Spec => []MasterFollows
<1>1. IInv => MasterFollows
  <2>. SUFFICES ASSUME IInv, waiting, toMaster = <<>>
                PROVE  MasterFollows
    BY DEF MasterFollows
  <2>1. CASE heard = 0
    BY <2>1 DEF MasterFollows, IInv, HeardInv, MissionInv
  <2>2. CASE heard > 0
    <3>1. heard = entry
      BY <2>2 DEF IInv, HeardInv, TypeOK, PlannerTypeOK, MasterTypeOK
    <3>. QED
      BY <2>2, <3>1 DEF MasterFollows, IInv, HeardInv
  <2>. QED
    BY <2>1, <2>2 DEF IInv, TypeOK, MasterTypeOK
<1>. QED
  BY <1>1, InvariantHolds, PTL

(* No node is left while its set_behavior command is on the way.           *)
THEOREM CommandsNeverPileUp ==
  ASSUME WellFormedPlan
  PROVE  Spec => []OneCommandAtATime
<1>1. IInv => OneCommandAtATime
  <2>. SUFFICES ASSUME IInv PROVE OneCommandAtATime
    OBVIOUS
  <2>1. CASE toMaster = <<>>
    BY <2>1 DEF OneCommandAtATime
  <2>2. CASE toMaster # <<>>
    <3>1. Len(toMaster) = 1 /\ toMaster[1].entry = entry
      BY <2>2 DEF IInv, CommandInv
    <3>2. \A i \in 1 .. Len(toMaster) : i = 1
      BY <3>1
    <3>. QED
      BY <3>1, <3>2 DEF OneCommandAtATime
  <2>. QED
    BY <2>1, <2>2
<1>. QED
  BY <1>1, InvariantHolds, PTL

(* control_loop reports a mission once: a second event for the same visit  *)
(* is never published, and a mission that has reported is done.            *)
THEOREM VisitReportedOnce ==
  ASSUME WellFormedPlan
  PROVE  Spec => []ReportedOnce
<1>1. IInv => ReportedOnce
  BY DEF ReportedOnce, IInv, EventInv
<1>. QED
  BY <1>1, InvariantHolds, PTL

(* An ended plan stays ended under every late event, timer and restart, for *)
(* every plan, well formed or not: the guards of _watchdog_tick and         *)
(* _mission_event_callback suffice.                                         *)
EndInv == ~started => ~finished /\ ~waiting

THEOREM EndHolds == Spec => EndIsFinal
<1>1. Init => EndInv
  BY DEF Init, PlannerInit, EndInv
<1>2. EndInv /\ [Next]_vars => EndInv'
  <2>. SUFFICES ASSUME EndInv, [Next]_vars PROVE EndInv'
    OBVIOUS
  <2>1. CASE PlannerStep
    <3>1. CASE DelayedStart
      BY <3>1 DEF DelayedStart, EndInv
    <3>2. CASE WatchdogTick
      BY <3>2 DEF WatchdogTick, WatchdogDue, EndInv
    <3>3. CASE MissionEventCallback
      <4>1. CASE Accepts(Head(toPlanner))
        BY <3>3, <4>1 DEF MissionEventCallback, Accepts, EndInv
      <4>2. CASE ~Accepts(Head(toPlanner))
        BY <3>3, <4>2 DEF MissionEventCallback, EndInv
      <4>. QED
        BY <4>1, <4>2
    <3>. QED
      BY <2>1, <3>1, <3>2, <3>3 DEF PlannerStep
  <2>2. CASE UNCHANGED plannerVars
    BY <2>2 DEF plannerVars, EndInv
  <2>3. CASE TimePasses
    BY <2>3 DEF TimePasses, Clock, EndInv
  <2>. QED
    BY <2>1, <2>2, <2>3 DEF Next, MasterStep, Discovery, vars, plannerVars
<1>3. TypeOK /\ EndInv /\ [Next]_vars
      => [finished => UNCHANGED <<finished, current, entry, status>>
                      /\ Len(toMaster') <= Len(toMaster)]_vars
  <2>. SUFFICES ASSUME TypeOK, EndInv, Next, finished
                PROVE  /\ UNCHANGED <<finished, current, entry, status>>
                       /\ Len(toMaster') <= Len(toMaster)
    OBVIOUS
  <2>. USE DEF TypeOK, TopicsTypeOK
  <2>1. CASE PlannerStep
    <3>1. started /\ ~WatchdogDue
      BY DEF EndInv, WatchdogDue
    <3>2. MissionEventCallback /\ ~Accepts(Head(toPlanner))
      BY <2>1, <3>1 DEF PlannerStep, DelayedStart, WatchdogTick, Accepts
    <3>3. UNCHANGED <<current, entry, finished, status, toMaster>>
      <4>. HIDE DEF TypeOK, TopicsTypeOK
      <4>. QED
        BY <3>2, Zenon DEF MissionEventCallback
    <3>. QED
      BY <3>3
  <2>2. CASE MasterStep
    <3>1. UNCHANGED <<finished, current, entry, status>>
      BY <2>2 DEF MasterStep, plannerVars
    <3>2. CASE SetBehaviorCallback
      BY <3>1, <3>2 DEF SetBehaviorCallback
    <3>3. CASE \E ok \in BOOLEAN : MissionCompletes(ok)
      BY <3>1, <3>3 DEF MissionCompletes
    <3>4. CASE Restart
      BY <3>1, <3>4 DEF Restart
    <3>. QED
      BY <2>2, <3>2, <3>3, <3>4 DEF MasterStep
  <2>3. CASE Discovery
    BY <2>3 DEF Discovery, Discover, plannerVars
  <2>4. CASE TimePasses
    <3>1. Len(toMaster') = Len(toMaster)
      BY <2>4, OlderCommands DEF TimePasses, Clock, MessagesAge
    <3>. QED
      BY <2>4, <3>1 DEF TimePasses, Clock
  <2>. QED
    BY <2>1, <2>2, <2>3, <2>4 DEF Next
<1>. QED
  BY <1>1, <1>2, <1>3, TypeCorrect, PTL DEF Spec, EndIsFinal

(* Without planner mode the master runs its launch behavior and then holds, *)
(* and nothing the planner publishes changes that.                         *)
THEOREM StandaloneIgnoresPlanner == Spec => []StandaloneHolds
<1>1. Init => StandaloneHolds
  BY DEF Init, MasterInit, StandaloneHolds
<1>2. StandaloneHolds /\ [Next]_vars => StandaloneHolds'
  <2>. SUFFICES ASSUME StandaloneHolds, [Next]_vars, ~PlannerMode
                PROVE  owner' = 0 /\ ~done' /\ key' \in {BootKey, "hold"}
    BY DEF StandaloneHolds
  <2>. USE DEF StandaloneHolds
  <2>1. CASE SetBehaviorCallback
    BY <2>1 DEF SetBehaviorCallback
  <2>2. ASSUME NEW ok \in BOOLEAN, MissionCompletes(ok)
        PROVE  owner' = 0 /\ ~done' /\ key' \in {BootKey, "hold"}
    <3>1. ActivateBehavior("hold", 0)
      BY <2>2 DEF MissionCompletes
    <3>. QED
      BY <3>1, PlanAssumption DEF ActivateBehavior
  <2>3. CASE Restart
    BY <2>3 DEF Restart
  <2>4. CASE UNCHANGED <<key, owner, done>>
    BY <2>4
  <2>. QED
    BY <2>1, <2>2, <2>3, <2>4
       DEF Next, PlannerStep, MasterStep, Discovery, TimePasses, MissionClock, vars,
           masterVars
<1>. QED
  BY <1>1, <1>2, PTL DEF Spec
-----------------------------------------------------------------------------
(***************************************************************************)
(* MissionStack implements PlanWalk, for every well-formed plan: every step *)
(* of planner, master, discovery and clock is a step of the walk or leaves *)
(* the walk where it is.                                                   *)
(***************************************************************************)

(* What the status topic last said matches what the planner is doing.      *)
StatusInv ==
  /\ waiting <=> status = "running"
  /\ ~started => status = "none"

LEMMA StatusInit == Init => StatusInv
  BY DEF Init, PlannerInit, StatusInv

LEMMA EnterNodeStatus ==
  ASSUME NEW n, EnterNode(n)
  PROVE  waiting' <=> status' = "running"
  BY DEF EnterNode

LEMMA AdvanceStatus ==
  ASSUME NEW n, NEW success, Advance(n, success)
  PROVE  waiting' <=> status' = "running"
  BY EnterNodeStatus DEF Advance

LEMMA StatusStep ==
  ASSUME IInv, StatusInv, [Next]_vars
  PROVE  StatusInv'
<1>1. CASE PlannerStep
  <2>1. CASE DelayedStart
    BY <2>1, EnterNodeStatus DEF DelayedStart, StatusInv
  <2>2. CASE WatchdogTick
    BY <2>2, AdvanceStatus DEF WatchdogTick, WatchdogDue, IInv, PlannerInv, StatusInv
  <2>3. CASE MissionEventCallback
    <3>1. CASE Accepts(Head(toPlanner))
      BY <2>3, <3>1, AdvanceStatus
         DEF MissionEventCallback, Accepts, IInv, PlannerInv, StatusInv
    <3>2. CASE ~Accepts(Head(toPlanner))
      BY <2>3, <3>2 DEF MissionEventCallback, StatusInv
    <3>. QED
      BY <3>1, <3>2
  <2>. QED
    BY <1>1, <2>1, <2>2, <2>3 DEF PlannerStep
<1>2. CASE UNCHANGED plannerVars
  BY <1>2 DEF plannerVars, StatusInv
<1>3. CASE TimePasses
  BY <1>3 DEF TimePasses, Clock, StatusInv
<1>. QED
  BY <1>1, <1>2, <1>3 DEF Next, MasterStep, Discovery, vars, plannerVars

-----------------------------------------------------------------------------
(* Entering a node is a visit: no event of the new entry exists yet.       *)
LEMMA EnterNodeVisits ==
  ASSUME TypeOK, NEW n, EnterNode(n),
         \A i \in 1 .. Len(toPlanner') : toPlanner'[i].entry \in 1 .. entry
  PROVE  Walk!Visit(n)
<1>. USE DEF TypeOK, PlannerTypeOK
<1>1. CASE n \in Nodes
  <2>1. /\ current' = n /\ entry' = entry + 1 /\ status' = "running"
    BY <1>1 DEF EnterNode
  <2>2. EventsOf(entry)' = {}
    BY <2>1 DEF EventsOf
  <2>. QED
    BY <1>1, <2>1, <2>2 DEF Walk!Visit, WalkReport, WalkOutcome
<1>2. CASE n \notin Nodes
  <2>1. current' = current /\ status' = "error" /\ ~waiting'
    BY <1>2 DEF EnterNode
  <2>. QED
    BY <1>2, <2>1 DEF Walk!Visit, WalkReport, WalkOutcome
<1>. QED
  BY <1>1, <1>2

LEMMA AdvanceProceeds ==
  ASSUME TypeOK, NEW n, NEW success \in BOOLEAN, Advance(n, success),
         \A i \in 1 .. Len(toPlanner') : toPlanner'[i].entry \in 1 .. entry
  PROVE  Walk!Proceed(n, IF success THEN "complete" ELSE "failed")
<1>1. CASE n # NoNode
  BY <1>1, EnterNodeVisits DEF Advance, Walk!Proceed
<1>2. CASE n = NoNode
  <2>1. /\ current' = current /\ ~waiting'
        /\ status' = IF success THEN "complete" ELSE "failed"
    BY <1>2 DEF Advance
  <2>. QED
    BY <1>2, <2>1 DEF Walk!Proceed, WalkReport, WalkOutcome
<1>. QED
  BY <1>1, <1>2

(* The walk does not move while the planner does not and the events of its *)
(* entry stay.                                                             *)
LEMMA WalkStutters ==
  ASSUME UNCHANGED <<current, entry, waiting, status>>,
         waiting => /\ EventsOf(entry)' = {} <=> EventsOf(entry) = {}
                    /\ (\E i \in EventsOf(entry)' : toPlanner'[i].success)
                         <=> \E i \in EventsOf(entry) : toPlanner[i].success
  PROVE  UNCHANGED Walk!walk
<1>1. WalkReport' = WalkReport
  <2>1. CASE waiting
    BY <2>1 DEF WalkReport
  <2>2. CASE ~waiting
    BY <2>2 DEF WalkReport
  <2>. QED
    BY <2>1, <2>2
<1>. QED
  BY <1>1 DEF Walk!walk, WalkOutcome

LEMMA QuietTopic ==
  ASSUME UNCHANGED <<current, entry, waiting, status, toPlanner>>
  PROVE  UNCHANGED Walk!walk
  BY WalkStutters DEF EventsOf

LEMMA PlannerWalks ==
  ASSUME WellFormedPlan, IInv, StatusInv, PlannerStep
  PROVE  Walk!WalkNext \/ UNCHANGED Walk!walk
<1>. USE DEF IInv, TypeOK, TopicsTypeOK, PlannerTypeOK, MasterTypeOK
<1>1. \A i \in 1 .. Len(toPlanner) : toPlanner[i].entry \in 1 .. entry
  BY DEF EventInv
<1>2. CASE DelayedStart
  <2>1. WalkOutcome = "idle"
    BY <1>2 DEF DelayedStart, StatusInv, WalkOutcome
  <2>2. CASE Start # NoNode
    <3>1. Walk!Visit(Start)
      BY <1>1, <1>2, <2>2, EnterNodeVisits DEF DelayedStart
    <3>. QED
      BY <2>1, <2>2, <3>1 DEF Walk!WalkNext, Walk!Begin
  <2>3. CASE Start = NoNode
    BY <1>2, <2>3, QuietTopic DEF DelayedStart
  <2>. QED
    BY <2>2, <2>3
<1>3. CASE WatchdogTick
  <2>1. WalkOutcome = "running" /\ Timeout(current) > 0
    BY <1>3 DEF WatchdogTick, WatchdogDue, StatusInv, WalkOutcome
  <2>2. Walk!Proceed(OnTimeout(current), "failed")
    BY <1>1, <1>3, AdvanceProceeds DEF WatchdogTick
  <2>. QED
    BY <2>1, <2>2
       DEF Walk!WalkNext, Walk!Expire, Walk!Timeout, Timeout,
           Walk!OnTimeout, OnTimeout, Walk!Either, Either
<1>4. CASE MissionEventCallback
  <2>. DEFINE event == toPlanner[1]
  <2>1. /\ toPlanner # <<>> /\ toPlanner' = Tail(toPlanner) /\ Head(toPlanner) = event
    BY <1>4 DEF MissionEventCallback
  <2>2. /\ Len(toPlanner) \in Nat \ {0} /\ Len(toPlanner') = Len(toPlanner) - 1
        /\ \A i \in 1 .. Len(toPlanner') : toPlanner'[i] = toPlanner[i + 1]
    BY <2>1
  <2>3. event \in Event
    BY <2>2, EventFields
  <2>4. CASE Accepts(event)
    <3>1. WalkOutcome = "running" /\ waiting
      BY <2>4 DEF Accepts, StatusInv, WalkOutcome
    <3>2. event.entry = entry
      BY <2>2, <2>4 DEF Accepts, EventInv
    <3>3. EventsOf(entry) = {1}
      BY <2>2, <3>2 DEF EventsOf, EventInv
    <3>4. event.success \in BOOLEAN
      BY <2>3 DEF Event
    <3>5. WalkReport = IF event.success THEN "success" ELSE "failure"
      BY <3>1, <3>3 DEF WalkReport
    <3>6. Advance(OnReport(current, event.success), event.success)
      BY <1>4, <2>1, <2>4 DEF MissionEventCallback
    <3>7. \A i \in 1 .. Len(toPlanner') : toPlanner'[i].entry \in 1 .. entry
      BY <1>1, <2>2
    <3>8. Walk!Proceed(OnReport(current, event.success),
                       IF event.success THEN "complete" ELSE "failed")
      BY <3>4, <3>6, <3>7, AdvanceProceeds
    <3>9. Walk!Follow
      <4>1. CASE event.success
        BY <3>1, <3>5, <3>8, <4>1
           DEF Walk!Follow, OnReport, Walk!OnSuccess, OnSuccess, Walk!Either, Either
      <4>2. CASE ~event.success
        BY <3>1, <3>5, <3>8, <4>2
           DEF Walk!Follow, OnReport, Walk!OnFailure, OnFailure, Walk!Either, Either
      <4>. QED
        BY <4>1, <4>2
    <3>. QED
      BY <3>9 DEF Walk!WalkNext
  <2>5. CASE ~Accepts(event)
    <3>1. UNCHANGED <<current, entry, waiting, status>>
      BY <1>4, <2>1, <2>5 DEF MissionEventCallback
    <3>2. waiting => event.entry # entry
      BY <2>2, <2>5 DEF Accepts, PlannerInv, EventInv
    <3>3. \A i \in Int : i \in EventsOf(entry)' <=> i > 0 /\ i + 1 \in EventsOf(entry)
      BY <2>2, <3>1 DEF EventsOf
    <3>4. waiting => 1 \notin EventsOf(entry)
      BY <3>2 DEF EventsOf
    <3>5. \A i \in EventsOf(entry) : i \in Int /\ i > 0
      BY <2>2 DEF EventsOf
    <3>6. waiting => \A i \in EventsOf(entry) : i - 1 \in EventsOf(entry)'
      BY <3>3, <3>4, <3>5
    <3>7. \A i \in EventsOf(entry)' : toPlanner'[i] = toPlanner[i + 1]
                                      /\ i + 1 \in EventsOf(entry)
      BY <2>2, <3>3 DEF EventsOf
    <3>8. waiting => \A i \in EventsOf(entry) : toPlanner'[i - 1] = toPlanner[i]
      BY <3>5, <3>6, <3>7
    <3>. QED
      BY <3>1, <3>6, <3>7, <3>8, WalkStutters
  <2>. QED
    BY <2>4, <2>5
<1>. QED
  BY <1>2, <1>3, <1>4 DEF PlannerStep

(* A completing mission reports to the visit it was created for; the event *)
(* of any other mission is not a step of the walk.                         *)
LEMMA CompletionWalks ==
  ASSUME WellFormedPlan, IInv, StatusInv, UNCHANGED plannerVars,
         NEW ok \in BOOLEAN, MissionCompletes(ok)
  PROVE  Walk!WalkNext \/ UNCHANGED Walk!walk
<1>. USE DEF IInv, TypeOK, TopicsTypeOK, PlannerTypeOK, MasterTypeOK
<1>. DEFINE msg == [behavior |-> key, success |-> ok, entry |-> owner, age |-> 0]
            n == Len(toPlanner)
<1>1. UNCHANGED <<current, entry, waiting, status>>
  BY DEF plannerVars
<1>2. CASE joined["planner"]
  <2>1. msg \in Event
    BY PlanAssumption DEF Event, MissionCompletes
  <2>2. toPlanner' = Append(toPlanner, msg)
    BY <1>2 DEF MissionCompletes, Publish
  <2>3. /\ n \in Nat /\ Len(toPlanner') = n + 1 /\ toPlanner'[n + 1] = msg
        /\ \A i \in 1 .. n : toPlanner'[i] = toPlanner[i]
    BY <2>1, <2>2, LenProperties, AppendProperties
  <2>4. CASE waiting /\ owner = entry
    <3>1. EventsOf(entry) = {}
      BY <2>4 DEF EventsOf, EventInv, MissionCompletes
    <3>2. EventsOf(entry)' = {n + 1}
      <4>1. \A i \in 1 .. n : toPlanner[i].entry # entry
        BY <3>1 DEF EventsOf
      <4>2. \A i \in 1 .. n + 1 : toPlanner'[i].entry = entry <=> i = n + 1
        <5>. HIDE DEF IInv, TypeOK, TopicsTypeOK, PlannerTypeOK, MasterTypeOK
        <5>1. toPlanner'[n + 1].entry = entry
          BY <2>3, <2>4
        <5>2. \A i \in 1 .. n : toPlanner'[i].entry # entry
          BY <2>3, <4>1
        <5>3. n \in Nat
          BY <2>3
        <5>. HIDE DEF n
        <5>. QED
          BY <5>1, <5>2, <5>3
      <4>. QED
        BY <1>1, <2>3, <4>2 DEF EventsOf
    <3>3. WalkReport = "none"
      BY <3>1 DEF WalkReport
    <3>4. WalkReport' = IF ok THEN "success" ELSE "failure"
      BY <1>1, <2>3, <2>4, <3>2 DEF WalkReport
    <3>5. WalkOutcome = "running" /\ UNCHANGED <<current, WalkOutcome>>
      BY <1>1, <2>4 DEF StatusInv, WalkOutcome
    <3>. QED
      BY <3>3, <3>4, <3>5 DEF Walk!WalkNext, Walk!Report
  <2>5. CASE waiting /\ owner # entry
    <3>1. EventsOf(entry)' = EventsOf(entry)
      BY <1>1, <2>3, <2>5 DEF EventsOf
    <3>2. \A i \in EventsOf(entry) : toPlanner'[i] = toPlanner[i]
      BY <2>3 DEF EventsOf
    <3>. QED
      BY <1>1, <3>1, <3>2, WalkStutters
  <2>6. CASE ~waiting
    BY <1>1, <2>6, WalkStutters
  <2>. QED
    BY <2>4, <2>5, <2>6
<1>3. CASE ~joined["planner"]
  BY <1>1, <1>3, QuietTopic DEF MissionCompletes, Publish
<1>. QED
  BY <1>2, <1>3

LEMMA TimeWalks ==
  ASSUME TypeOK, TimePasses
  PROVE  UNCHANGED Walk!walk
<1>. USE DEF TypeOK, TopicsTypeOK
<1>1. UNCHANGED <<current, entry, waiting, status>> /\ toPlanner' = Older(toPlanner)
  BY DEF TimePasses, Clock, MessagesAge
<1>2. /\ Len(toPlanner') = Len(toPlanner)
      /\ \A i \in 1 .. Len(toPlanner) :
           toPlanner'[i] = [toPlanner[i] EXCEPT !.age = toPlanner[i].age + 1]
  BY <1>1, OlderEvents
<1>3. \A i \in 1 .. Len(toPlanner) : /\ toPlanner'[i].entry = toPlanner[i].entry
                                     /\ toPlanner'[i].success = toPlanner[i].success
  <2>. SUFFICES ASSUME NEW i \in 1 .. Len(toPlanner)
                PROVE  /\ toPlanner'[i].entry = toPlanner[i].entry
                       /\ toPlanner'[i].success = toPlanner[i].success
    OBVIOUS
  <2>1. toPlanner[i] \in Event
    BY EventFields
  <2>. QED
    BY <1>2, <2>1, Zenon DEF Event
<1>4. EventsOf(entry)' = EventsOf(entry)
  BY <1>1, <1>2, <1>3 DEF EventsOf
<1>5. \A i \in EventsOf(entry) : toPlanner'[i].success = toPlanner[i].success
  BY <1>3 DEF EventsOf
<1>. QED
  BY <1>1, <1>4, <1>5, WalkStutters

LEMMA StepWalks ==
  ASSUME WellFormedPlan, IInv, StatusInv, [Next]_vars
  PROVE  [Walk!WalkNext]_(Walk!walk)
<1>1. CASE PlannerStep
  BY <1>1, PlannerWalks
<1>2. CASE MasterStep
  <2>1. CASE SetBehaviorCallback
    BY <1>2, <2>1, QuietTopic DEF MasterStep, SetBehaviorCallback, plannerVars
  <2>2. CASE \E ok \in BOOLEAN : MissionCompletes(ok)
    BY <1>2, <2>2, CompletionWalks DEF MasterStep
  <2>3. CASE Restart
    BY <1>2, <2>3, QuietTopic DEF MasterStep, Restart, plannerVars
  <2>. QED
    BY <1>2, <2>1, <2>2, <2>3 DEF MasterStep
<1>3. CASE Discovery
  BY <1>3, QuietTopic DEF Discovery, Discover, plannerVars
<1>4. CASE TimePasses
  BY <1>4, TimeWalks DEF IInv
<1>5. CASE UNCHANGED vars
  BY <1>5, QuietTopic DEF vars
<1>. QED
  BY <1>1, <1>2, <1>3, <1>4, <1>5 DEF Next

(* The vehicle walks the plan: the planner leaves a node along its success *)
(* or failure edge only after the mission of that very visit reported that *)
(* outcome, along its timeout edge only if the node has a timeout, and an  *)
(* ended plan stays ended - under every delay, loss and restart that       *)
(* MissionStack allows, for every well-formed plan.                        *)
THEOREM StackWalksThePlan ==
  ASSUME WellFormedPlan
  PROVE  Spec => WalksThePlan
<1>1. Init => Walk!WalkInit
  BY DEF Init, PlannerInit, Walk!WalkInit, WalkReport, WalkOutcome
<1>2. StatusInv /\ IInv /\ [Next]_vars => StatusInv'
  BY StatusStep
<1>3. IInv /\ StatusInv /\ [Next]_vars => [Walk!WalkNext]_(Walk!walk)
  BY StepWalks
<1>. QED
  BY <1>1, <1>2, <1>3, StatusInit, InvariantHolds, PTL
     DEF Spec, WalksThePlan, Walk!WalkSpec
=============================================================================
