----------------------------- MODULE UnityCalls ------------------------------
(***************************************************************************)
(* What the endpoint promises ROS nodes that call a service of Unity,      *)
(* without threads, queues, connections or messages on their way: a call   *)
(* is refused, or it is given a number above all that were given before;   *)
(* it is answered at most once, and returns with an answer only.  The      *)
(* answer is the one to its number, unless there is a second connection.   *)
(***************************************************************************)
EXTENDS Naturals

CONSTANTS
  Calls,      \* calls of a Unity service by ROS nodes
  Answers,    \* what a call may be answered
  Own,        \* of each number, the answer that Unity gives to it
  None

VARIABLES
  number,     \* of a call, None before it has one
  answer,     \* to a call, None before it has one
  outcome,    \* of a call: "open", "refused", "raised" or "returned"
  alone       \* there has not been a second connection

calls == <<number, answer, outcome, alone>>

CallsInit ==
  /\ number = [k \in Calls |-> None]
  /\ answer = [k \in Calls |-> None]
  /\ outcome = [k \in Calls |-> "open"]
  /\ alone = TRUE

Becomes(k, end) == outcome' = [outcome EXCEPT ![k] = end]

(* A call that was not asked is refused, it never gets a number.           *)
Refuse(k) ==
  /\ outcome[k] = "open" /\ number[k] = None
  /\ Becomes(k, "refused")
  /\ UNCHANGED <<number, answer, alone>>

Ask(k) ==
  /\ outcome[k] = "open" /\ number[k] = None
  /\ number'[k] \in Nat
  /\ \A j \in Calls : number[j] # None => number[j] < number'[k]
  /\ number' = [number EXCEPT ![k] = number'[k]]
  /\ UNCHANGED <<answer, outcome, alone>>

(* The connection is lost before the request is in its queue.              *)
Fail(k) ==
  /\ outcome[k] = "open" /\ number[k] # None
  /\ Becomes(k, "raised")
  /\ UNCHANGED <<number, answer, alone>>

(* A call that has failed, or does not sleep yet, is not woken.            *)
Answer(k) ==
  /\ number[k] # None /\ answer[k] = None
  /\ answer'[k] \in IF alone THEN {Own[number[k]]} ELSE Answers
  /\ answer' = [answer EXCEPT ![k] = answer'[k]]
  /\ \/ UNCHANGED outcome
     \/ outcome[k] = "open" /\ Becomes(k, "returned")
  /\ UNCHANGED <<number, alone>>

SecondConnection == alone /\ alone' = FALSE /\ UNCHANGED <<number, answer, outcome>>

CallsNext ==
  \/ \E k \in Calls : Refuse(k) \/ Ask(k) \/ Fail(k) \/ Answer(k)
  \/ SecondConnection

CallsSpec == CallsInit /\ [][CallsNext]_calls
=============================================================================
