---------------------------- MODULE MissionTopics ----------------------------
(***************************************************************************)
(* The two topics between mission_planner_node and master_control_node and *)
(* the time that passes while a message is on its way.  A topic has rclpy's *)
(* default profile: reliable and in order once publisher and subscriber    *)
(* have discovered each other, and volatile, so that what was published    *)
(* before is lost.                                                         *)
(***************************************************************************)
EXTENDS MissionPlan, Sequences

CONSTANTS
  Latency     \* watchdog periods within which a message is delivered

ASSUME LatencyAssumption == Latency \in Nat

VARIABLES
  toMaster,   \* mission_planner/set_behavior
  toPlanner,  \* mission_planner/mission_event
  joined      \* which subscriptions have been discovered: [master, planner]

topicVars == <<toMaster, toPlanner, joined>>

(* "entry" and "age" are not in the messages.  The entry counts the node   *)
(* entries of the planner: a command carries the one it was published by,  *)
(* an event the one whose command created the reporting mission (0: none). *)
Command == [behavior : Behaviors, entry : Nat, age : Nat]
Event == [behavior : Behaviors, success : BOOLEAN, entry : Nat, age : Nat]

TopicsTypeOK ==
  /\ toMaster \in Seq(Command)
  /\ toPlanner \in Seq(Event)
  /\ joined \in [{"master", "planner"} -> BOOLEAN]

TopicsInit ==
  /\ toMaster = <<>>
  /\ toPlanner = <<>>
  /\ joined = [subscriber \in {"master", "planner"} |-> FALSE]

(* Publisher.publish() towards a subscriber that may not be known yet. *)
Publish(topic, msg, subscriber) ==
  IF joined[subscriber] THEN Append(topic, msg) ELSE topic

(* DDS discovery matches a publisher and a subscription. *)
Discover(subscriber) ==
  /\ ~joined[subscriber]
  /\ joined' = [joined EXCEPT ![subscriber] = TRUE]
  /\ UNCHANGED <<toMaster, toPlanner>>

Older(topic) == [i \in 1 .. Len(topic) |-> [topic[i] EXCEPT !.age = @ + 1]]

(* Time may pass only while no message has used up the delivery latency. *)
Prompt(topic) == \A i \in 1 .. Len(topic) : topic[i].age < Latency

MessagesAge ==
  /\ Prompt(toMaster)
  /\ Prompt(toPlanner)
  /\ toMaster' = Older(toMaster)
  /\ toPlanner' = Older(toPlanner)
  /\ UNCHANGED joined
=============================================================================
