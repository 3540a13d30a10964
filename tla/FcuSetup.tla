------------------------------ MODULE FcuSetup -------------------------------
(***************************************************************************)
(* fcu_setup_node.py: once a second it looks at the cached State message   *)
(* and asks MAVROS to set the flight mode and then to arm, one service     *)
(* call at a time, until a deadline.  MAVROS and the FCU are external: a   *)
(* call may be refused, and the State message tells what was true when it  *)
(* was sent.                                                               *)
(***************************************************************************)
CONSTANTS
  Modes,     \* the flight modes of the FCU
  Wanted,    \* fcu_mode
  NoMode,    \* the mode of a State without a connection
  AutoArm,   \* auto_arm
  ArmForce,  \* arm_force
  Obeys      \* the FCU changes to every mode MAVROS has accepted

ASSUME FcuAssumption ==
  /\ Wanted \in Modes
  /\ NoMode \notin Modes
  /\ AutoArm \in BOOLEAN /\ ArmForce \in BOOLEAN /\ Obeys \in BOOLEAN

VARIABLES
  mode, armed,  \* of the FCU itself
  state,        \* _state
  imuRx,        \* _imu_rx
  modeSent,     \* _mode_sent
  pending,      \* the service of _pending, "none"
  answer,       \* what its future holds: "none" yet, "yes", "no"
  done,         \* _done
  late          \* time.time() > _deadline

fcu == <<mode, armed>>
node == <<modeSent, pending, answer, done>>
fcuVars == <<fcu, state, imuRx, node, late>>

NoState == [connected |-> FALSE, mode |-> NoMode, armed |-> FALSE]

FcuTypeOK ==
  /\ mode \in Modes
  /\ armed \in BOOLEAN
  /\ state \in [connected : BOOLEAN, mode : Modes \cup {NoMode}, armed : BOOLEAN]
  /\ imuRx \in BOOLEAN
  /\ modeSent \in BOOLEAN
  /\ pending \in {"none", "set_mode", "arm"}
  /\ answer \in {"none", "yes", "no"}
  /\ done \in BOOLEAN
  /\ late \in BOOLEAN

FcuInit ==
  /\ mode \in Modes
  /\ armed = FALSE
  /\ state = NoState
  /\ imuRx = FALSE
  /\ modeSent = FALSE
  /\ pending = "none"
  /\ answer = "none"
  /\ done = FALSE
  /\ late = FALSE

(* _state_cb: MAVROS reports the FCU, or that it has lost it.              *)
StateCallback ==
  /\ state' \in {[connected |-> TRUE, mode |-> mode, armed |-> armed], NoState}
  /\ UNCHANGED <<fcu, imuRx, node, late>>

(* _imu_cb *)
ImuCallback ==
  /\ imuRx' = TRUE
  /\ UNCHANGED <<fcu, state, node, late>>

LinkUp == state.connected \/ imuRx \/ state.mode # NoMode
-----------------------------------------------------------------------------
(* _tick past its first guard, one action per way out that changes state.  *)
Free == ~done /\ pending = "none"
ModeAsked == state.mode = Wanted \/ modeSent

GiveUp ==
  /\ Free
  /\ late
  /\ done' = TRUE
  /\ UNCHANGED <<fcu, modeSent, pending, answer>>

AskMode ==
  /\ Free /\ ~late /\ LinkUp /\ ~ModeAsked
  /\ pending' = "set_mode"
  /\ answer' = "none"
  /\ UNCHANGED <<fcu, modeSent, done>>

(* _force_arm_mavlink goes past MAVROS and may arm the FCU by itself,      *)
(* before the arming service is found to be ready, or not.                 *)
AskArm ==
  /\ Free /\ ~late /\ LinkUp /\ ModeAsked
  /\ AutoArm /\ ~state.armed
  /\ armed' \in IF ArmForce THEN {armed, TRUE} ELSE {armed}
  /\ pending' \in {"arm", "none"}
  /\ answer' = "none"
  /\ UNCHANGED <<mode, modeSent, done>>

Ready ==
  /\ Free /\ ~late /\ LinkUp /\ ModeAsked
  /\ ~AutoArm \/ state.armed
  /\ done' = TRUE
  /\ UNCHANGED <<fcu, modeSent, pending, answer>>

Tick ==
  /\ GiveUp \/ AskMode \/ AskArm \/ Ready
  /\ UNCHANGED <<state, imuRx, late>>

(* Mutant: the call was answered, so the mode was sent. *)
OnSetModeAnswered ==
  /\ pending = "set_mode" /\ answer # "none"
  /\ pending' = "none"
  /\ answer' = "none"
  /\ modeSent' = TRUE
  /\ UNCHANGED <<fcu, state, imuRx, done, late>>

(* _on_set_mode *)
OnSetMode ==
  /\ pending = "set_mode" /\ answer # "none"
  /\ pending' = "none"
  /\ answer' = "none"
  /\ modeSent' = (modeSent \/ answer = "yes")
  /\ UNCHANGED <<fcu, state, imuRx, done, late>>

(* Mutants: an accepted arm command ends the setup; the answer to an arm   *)
(* command is kept as if it were still due.                                *)
OnArmAccepted ==
  /\ pending = "arm" /\ answer # "none"
  /\ pending' = "none"
  /\ answer' = "none"
  /\ done' = (done \/ state.armed \/ answer = "yes")
  /\ UNCHANGED <<fcu, state, imuRx, modeSent, late>>

OnArmKeepsPending ==
  /\ pending = "arm" /\ answer # "none"
  /\ answer' = "none"
  /\ done' = (done \/ state.armed)
  /\ UNCHANGED <<fcu, state, imuRx, modeSent, pending, late>>

(* _on_arm: an accepted command is not yet an armed vehicle. *)
OnArm ==
  /\ pending = "arm" /\ answer # "none"
  /\ pending' = "none"
  /\ answer' = "none"
  /\ done' = (done \/ state.armed)
  /\ UNCHANGED <<fcu, state, imuRx, modeSent, late>>
-----------------------------------------------------------------------------
(* MAVROS and the FCU.                                                     *)

FcuAnswers ==
  /\ pending # "none" /\ answer = "none"
  /\ \/ answer' = "no" /\ UNCHANGED fcu
     \/ /\ answer' = "yes" /\ pending = "set_mode"
        /\ mode' \in IF Obeys THEN {Wanted} ELSE {mode, Wanted}
        /\ UNCHANGED armed
     \/ /\ answer' = "yes" /\ pending = "arm"
        /\ armed' = TRUE
        /\ UNCHANGED mode
  /\ UNCHANGED <<state, imuRx, modeSent, pending, done, late>>

FcuDisarms ==
  /\ armed' = FALSE
  /\ UNCHANGED <<mode, state, imuRx, node, late>>

DeadlinePasses ==
  /\ late' = TRUE
  /\ UNCHANGED <<fcu, state, imuRx, node>>

FcuNext ==
  \/ StateCallback \/ ImuCallback
  \/ Tick \/ OnSetMode \/ OnArm
  \/ FcuAnswers \/ FcuDisarms \/ DeadlinePasses

FcuSpec == FcuInit /\ [][FcuNext]_fcuVars

(* The timer runs, time passes, and MAVROS answers every call.             *)
FcuFairSpec ==
  /\ FcuSpec
  /\ WF_fcuVars(Tick) /\ WF_fcuVars(OnSetMode) /\ WF_fcuVars(OnArm)
  /\ WF_fcuVars(FcuAnswers) /\ WF_fcuVars(DeadlinePasses)
-----------------------------------------------------------------------------
(* With an FCU that obeys, the vehicle is never armed in another mode than *)
(* the wanted one, although _tick decides on a cached State, a refused     *)
(* call is followed by another one and force-arm goes past MAVROS.         *)
ArmsInMode ==
  [][Obeys /\ ~armed /\ armed' => mode' = Wanted]_fcuVars

(* Before the deadline the setup ends with auto_arm only when a State      *)
(* message said armed: not because a command was accepted.                 *)
ReadyIsArmed ==
  [][AutoArm /\ ~late /\ ~done /\ done' => state.armed]_fcuVars

(* What the operator relies on: the setup arms in the mode it was told to  *)
(* set, and its success means that the vehicle is armed.                   *)
ArmsAsTold == ArmsInMode /\ ReadyIsArmed

(* A setup that has ended leaves the FCU alone: no call is on its way that *)
(* would still arm it, and none is made.                                   *)
QuietWhenDone == done => pending = "none"

(* If MAVROS answers, the setup ends: refusals are retried until the       *)
(* deadline and no longer.                                                 *)
SetupEnds == <>done
-----------------------------------------------------------------------------
(* Why ArmsInMode holds: whatever makes _tick believe in the mode is       *)
(* evidence of it, since nobody else changes the mode.                     *)
ModeInv ==
  /\ Obeys
  /\ \/ modeSent
     \/ state.mode = Wanted
     \/ pending = "arm"
     \/ pending = "set_mode" /\ answer = "yes"
  => mode = Wanted

FcuInv == FcuTypeOK /\ ModeInv
=============================================================================
