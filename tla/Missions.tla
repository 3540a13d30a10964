------------------------------ MODULE Missions -------------------------------
(***************************************************************************)
(* marv_control/missions: the step functions the master calls once in a     *)
(* control cycle, on what its sensor callbacks have cached, with the frame  *)
(* counters, start stamps and start poses they keep.  What becomes of a     *)
(* result is the subject of MasterControl, what becomes of a command that   *)
(* of CmdVelPath; this module shows what those two take for granted.        *)
(*                                                                          *)
(* Times count control periods.  Of a detection the model keeps whether its *)
(* confidence reaches conf_min, its distance from the centre and its area;  *)
(* of a pose a position on a line through home and the heading, of which    *)
(* Circle units are 2*pi.  A command is the name of what it does.           *)
(***************************************************************************)
EXTENDS Integers, Sequences

CONSTANTS
  SubmergeTime, PassTime,            \* duration_s of wait_submerged, pass_gate
  ClearAfter,                        \* min_elapsed_s of is_gate_cleared
  MinTransit, MaxTransit,            \* min_transit_s, max_transit_s
  TransitDistance,                   \* target_distance_m
  ArriveRadius,                      \* ARRIVE_RADIUS_M; arrive_radius_m is not used
  SideStep, SidePass, CrossBehind,   \* the phases of circle_marker
  OrbitTime,                         \* orbit_duration_s
  MinPathTime, LostLimit,            \* min_runtime_s, lost_frames_limit
  AlignedRequired,                   \* aligned_frames_required
  CenterDeadband, CommitDeadband,    \* center_deadband, commit_deadband
  FullArea,                          \* commit_area, close_area
  Circle, Target, Tolerance,         \* target_delta_rad, tolerance_rad
  Sightings,                         \* detections of the class looked for
  Positions,                         \* where the vehicle may be
  None,                              \* Python's None
  Horizon,                           \* bound: later than this is as late
  MaxTurn,                           \* bound: net turn between two control cycles
  MaxDelay                           \* bound: periods between two control cycles

Times == {SubmergeTime, PassTime, ClearAfter, MinTransit, MaxTransit, SideStep,
          SidePass, CrossBehind, OrbitTime, MinPathTime}

ASSUME MissionsAssumption ==
  /\ Horizon \in Nat
  /\ Times \subseteq 0 .. Horizon
  /\ LostLimit \in Nat \ {0}
  /\ AlignedRequired \in Nat
  /\ Sightings \subseteq [sure : BOOLEAN, x : Nat, area : Nat]
  /\ Positions \subseteq Int
  /\ None \notin Sightings \cup Int \cup [x : Int, yaw : Int]
  /\ MaxDelay \in Nat \ {0}

(* The window in which turn_around sees that it has turned is passed in     *)
(* more than one control cycle.                                             *)
ASSUME TurnAssumption ==
  /\ Circle \in Nat /\ Target \in Nat /\ Tolerance \in Nat /\ MaxTurn \in Nat
  /\ 0 < Target - Tolerance
  /\ Target - Tolerance + MaxTurn <= Circle - (Target - Tolerance) + 1

Behaviors ==
  {"hold", "depth_hold", "wait_submerged", "find_gate", "find_return_gate",
   "find_marker", "traverse_gate", "pass_gate", "pass_gate_clear", "transit_forward",
   "approach_marker", "circle_marker", "turn_around", "detect_path", "return_home"}

VARIABLES
  timed,     \* use_timed_transit
  key,       \* the behavior whose mission runs
  status,    \* "running", or how the mission was reported
  elapsed,   \* elapsed_s of the last step
  fields,    \* the fields of the mission object
  cmd,       \* what the last step's command does
  vision,    \* the cached detection of the class looked for, None: there is none
  clear,     \* the cached range is valid and at least gate_clear_m
  pose,      \* latest_pose
  turned,    \* turn since turn_around has its _start_yaw (not in the code)
  swing,     \* the part of it since the last control cycle (not in the code)
  lately,    \* what the frame counters counted, newest last (not in the code)
  sightedAt  \* when transit_forward last saw the marker (not in the code)

ghosts == <<turned, swing, lately, sightedAt>>
vars == <<timed, key, status, elapsed, fields, cmd, vision, clear, pose, ghosts>>

(* __init__ and cleanup agree on the fields.                               *)
Blank == [aligned |-> 0, lost |-> 0, startYaw |-> None, startX |-> None]

Init ==
  /\ timed \in BOOLEAN
  /\ key = "depth_hold"
  /\ status = "running"
  /\ elapsed = 0
  /\ fields = Blank
  /\ cmd = "none"
  /\ vision = None
  /\ clear = FALSE
  /\ pose = None
  /\ turned = 0
  /\ swing = 0
  /\ lately = <<>>
  /\ sightedAt = None
-----------------------------------------------------------------------------
(* What a step returns.  The master cleans up a mission that completes.    *)
Completes(outcome, c) ==
  /\ status' = outcome
  /\ cmd' = c
  /\ fields' = Blank

Goes(c, f) ==
  /\ status' = "running"
  /\ cmd' = c
  /\ fields' = f

Sure == vision # None /\ vision.sure

HoldStep ==
  /\ key \in {"hold", "depth_hold"}
  /\ Goes(IF key = "hold" THEN "stop" ELSE "none", fields)

WaitSubmergedStep(t) ==
  /\ key = "wait_submerged"
  /\ IF t >= SubmergeTime THEN Completes("succeeded", "stop") ELSE Goes("stop", fields)

FindStep ==
  /\ key \in {"find_gate", "find_return_gate", "find_marker"}
  /\ IF Sure THEN Completes("succeeded", "stop") ELSE Goes("search", fields)

ApproachMarkerStep ==
  /\ key = "approach_marker"
  /\ \/ /\ ~Sure
        /\ Goes("search", fields)
     \/ /\ Sure
        /\ vision.area >= FullArea /\ vision.x <= CenterDeadband
        /\ Completes("succeeded", "stop")
     \/ /\ Sure
        /\ vision.x > CenterDeadband
        /\ Goes("turn", fields)
     \/ /\ Sure
        /\ vision.area < FullArea /\ vision.x <= CenterDeadband
        /\ Goes("approach", fields)

(* gate_ready_to_commit                                                    *)
GateReadyToCommit == Sure /\ vision.area >= FullArea /\ vision.x <= CommitDeadband

(* _aligned_frames: a cycle without any gate neither counts nor resets.    *)
AlignedFrames ==
  IF vision = None THEN fields.aligned
  ELSE IF vision.sure /\ vision.x <= CenterDeadband THEN fields.aligned + 1 ELSE 0

TraverseGateStep ==
  LET c == IF Sure THEN "approach" ELSE "search"
      counts == AlignedRequired > 0 /\ vision # None
  IN  /\ key = "traverse_gate"
      /\ IF GateReadyToCommit \/ (counts /\ AlignedFrames >= AlignedRequired)
         THEN Completes("succeeded", c)
         ELSE Goes(c, [fields EXCEPT !.aligned = IF counts THEN AlignedFrames ELSE @])

(* is_gate_cleared is asked by pass_gate only (use_ping_complete).         *)
GateCleared(t) == key = "pass_gate" /\ clear /\ t >= ClearAfter

PassGateStep(t) ==
  /\ key \in {"pass_gate", "pass_gate_clear"}
  /\ IF GateCleared(t) \/ t >= PassTime
     THEN Completes("succeeded", "stop") ELSE Goes("ahead", fields)

(* Mutants: there is no end without the marker; time is up first.          *)
TimedTransitPatient(t) ==
  IF Sure /\ t >= MinTransit THEN Completes("succeeded", "stop") ELSE Goes("ahead", fields)

TimedTransitStrict(t) ==
  IF t >= MaxTransit THEN Completes("failed", "stop")
  ELSE IF Sure /\ t >= MinTransit THEN Completes("succeeded", "stop")
  ELSE Goes("ahead", fields)

TimedTransitStep(t) ==
  IF Sure /\ t >= MinTransit THEN Completes("succeeded", "stop")
  ELSE IF t >= MaxTransit THEN Completes("failed", "stop")
  ELSE Goes("ahead", fields)

Between(a, b) == IF a <= b THEN b - a ELSE a - b

(* With the pose the start is where the first step with a pose found it.   *)
PoseTransitStep ==
  LET start == IF fields.startX = None THEN pose.x ELSE fields.startX
  IN  IF pose = None THEN Goes("ahead", fields)
      ELSE IF Between(start, pose.x) >= TransitDistance THEN Completes("succeeded", "stop")
      ELSE Goes("ahead", [fields EXCEPT !.startX = start])

TransitForwardStep(t) ==
  /\ key = "transit_forward"
  /\ IF timed THEN TimedTransitStep(t) ELSE PoseTransitStep

(* The phases of the inverted U follow the clock alone.                    *)
CircleMarkerStep(t) ==
  /\ key = "circle_marker"
  /\ \/ /\ t >= OrbitTime
        /\ Completes("succeeded", "stop")
     \/ /\ t < OrbitTime /\ t < SideStep
        /\ Goes("side step", fields)
     \/ /\ t < OrbitTime /\ t >= SideStep /\ t < SideStep + SidePass
        /\ Goes("side pass", fields)
     \/ /\ t < OrbitTime /\ t >= SideStep + SidePass
        /\ t < SideStep + SidePass + CrossBehind
        /\ Goes("cross", fields)
     \/ /\ t < OrbitTime /\ t >= SideStep + SidePass + CrossBehind
        /\ Goes("ahead", fields)

(* abs(normalize_angle(a)), with headings in 0 .. Circle - 1.              *)
Normalized(a) ==
  LET b == a % Circle IN IF 2 * b <= Circle THEN b ELSE Circle - b

(* Mutant: the start is where the last step was.                           *)
StartYawLast == pose.yaw

StartYaw == IF fields.startYaw = None THEN pose.yaw ELSE fields.startYaw

TurnAroundStep ==
  /\ key = "turn_around"
  /\ \/ /\ pose = None
        /\ Goes("turn", fields)
     \/ /\ pose # None
        /\ Normalized(pose.yaw - StartYaw) >= Target - Tolerance
        /\ Completes("succeeded", "stop")
     \/ /\ pose # None
        /\ Normalized(pose.yaw - StartYaw) < Target - Tolerance
        /\ Goes("turn", [fields EXCEPT !.startYaw = StartYaw])

(* Mutant: the counter is not reset by a detection.                        *)
LostFramesTotal ==
  IF Sure \/ fields.lost = LostLimit THEN fields.lost ELSE fields.lost + 1

(* _lost_frames; more than the limit is as much.                           *)
LostFrames ==
  IF Sure THEN 0 ELSE IF fields.lost = LostLimit THEN LostLimit ELSE fields.lost + 1

(* The command has a class and a threshold of its own (PATH_CLASSES,       *)
(* CONF_MIN), which are those of marv.yaml.                                *)
DetectPathStep(t) ==
  LET c == IF Sure THEN "approach" ELSE "none"
  IN  /\ key = "detect_path"
      /\ IF t >= MinPathTime /\ LostFrames >= LostLimit
         THEN Completes("succeeded", c)
         ELSE Goes(c, [fields EXCEPT !.lost = LostFrames])

ReturnHomeStep ==
  /\ key = "return_home"
  /\ IF pose = None THEN Goes("none", fields)
     ELSE IF Between(0, pose.x) < ArriveRadius THEN Completes("succeeded", "stop")
     ELSE Goes("return", fields)

Step(t) ==
  \/ HoldStep
  \/ WaitSubmergedStep(t)
  \/ FindStep
  \/ ApproachMarkerStep
  \/ TraverseGateStep
  \/ PassGateStep(t)
  \/ TransitForwardStep(t)
  \/ CircleMarkerStep(t)
  \/ TurnAroundStep
  \/ DetectPathStep(t)
  \/ ReturnHomeStep

(* What the frame counters count.  A gate is not counted in cycles without *)
(* one.                                                                    *)
Centred == Sure /\ vision.x <= CenterDeadband

(* The last n of what was remembered and b.                                *)
Remember(n, b) ==
  IF Len(lately) < n THEN Append(lately, b) ELSE Append(Tail(lately), b)

LatelyAfter ==
  IF key = "detect_path" THEN Remember(LostLimit, ~Sure)
  ELSE IF key = "traverse_gate" /\ AlignedRequired > 0 /\ vision # None
  THEN Remember(AlignedRequired, Centred)
  ELSE lately
-----------------------------------------------------------------------------
Later(dt) == IF elapsed + dt <= Horizon THEN elapsed + dt ELSE Horizon

(* control_loop: dt control periods after the last one.  A mission that is *)
(* done is not stepped.                                                    *)
ControlCycle ==
  /\ status = "running"
  /\ \E dt \in 1 .. MaxDelay :
       /\ elapsed' = Later(dt)
       /\ Step(Later(dt))
       /\ sightedAt' = IF key = "transit_forward" /\ Sure THEN Later(dt) ELSE sightedAt
  /\ lately' = LatelyAfter
  /\ swing' = 0
  /\ UNCHANGED <<timed, key, vision, clear, pose, turned>>

NewFields == Blank

(* _activate_behavior for another behavior: a new mission object.          *)
(* That its classes may find something else in the cached message is a     *)
(* VisionCallback of its own, which may come at once.                      *)
NewMission(k) ==
  /\ k # key
  /\ key' = k
  /\ status' = "running"
  /\ elapsed' = 0
  /\ fields' = NewFields
  /\ turned' = 0
  /\ lately' = <<>>
  /\ swing' = 0
  /\ sightedAt' = None
  /\ UNCHANGED <<timed, cmd, vision, clear, pose>>

(* _activate_behavior for a behavior that does not exist: the mission has  *)
(* been cleaned up when this is found out, and goes on.                    *)
UnknownBehavior ==
  /\ fields' = Blank
  /\ turned' = IF status = "running" THEN 0 ELSE turned
  /\ swing' = 0
  /\ lately' = <<>>
  /\ UNCHANGED <<timed, key, status, elapsed, cmd, vision, clear, pose, sightedAt>>

VisionCallback(v) ==
  /\ vision' = v
  /\ UNCHANGED <<timed, key, status, elapsed, fields, cmd, clear, pose, ghosts>>

RangeCallback(far) ==
  /\ clear' = far
  /\ UNCHANGED <<timed, key, status, elapsed, fields, cmd, vision, pose, ghosts>>

(* A pose is here or there on the line, and the vehicle may have turned    *)
(* either way since the last one.                                          *)
PoseCallback(x, turn) ==
  /\ \/ /\ pose = None
        /\ pose' = [x |-> x, yaw |-> turn % Circle]
        /\ UNCHANGED <<swing, turned>>
     \/ /\ pose # None
        /\ pose' = [x |-> x, yaw |-> (pose.yaw + turn) % Circle]
        /\ \/ /\ fields.startYaw = None
              /\ UNCHANGED <<swing, turned>>
           \/ /\ fields.startYaw # None
              /\ swing + turn \in -MaxTurn .. MaxTurn
              /\ swing' = swing + turn
              /\ turned' = turned + turn
  /\ UNCHANGED <<timed, key, status, elapsed, fields, cmd, vision, clear, lately, sightedAt>>

Next ==
  \/ ControlCycle
  \/ \E k \in Behaviors : NewMission(k)
  \/ UnknownBehavior
  \/ \E v \in Sightings \cup {None} : VisionCallback(v)
  \/ \E far \in BOOLEAN : RangeCallback(far)
  \/ \E x \in Positions, turn \in -MaxTurn .. MaxTurn : PoseCallback(x, turn)

Spec == Init /\ [][Next]_vars

(* The control timer goes on firing.                                       *)
FairSpec == Spec /\ WF_vars(ControlCycle)
-----------------------------------------------------------------------------
Poses == [x : Positions, yaw : 0 .. Circle - 1]

(* Types, and that a mission's fields are used by that mission only.       *)
MissionsTypeOK ==
  /\ timed \in BOOLEAN
  /\ key \in Behaviors
  /\ status \in {"running", "succeeded", "failed"}
  /\ elapsed \in 0 .. Horizon
  /\ fields \in [aligned : Nat, lost : Nat, startYaw : 0 .. Circle - 1 \cup {None},
                 startX : Positions \cup {None}]
  /\ vision \in Sightings \cup {None}
  /\ clear \in BOOLEAN
  /\ pose \in Poses \cup {None}
  /\ fields.aligned # 0 => key = "traverse_gate"
  /\ fields.lost # 0 => key = "detect_path"
  /\ fields.startYaw # None => key = "turn_around"
  /\ fields.startX # None => key = "transit_forward"

(* turn_around ends when the vehicle has turned by the target, less the    *)
(* tolerance, and no further than it turns in a control period, to either  *)
(* side and over the seam of the headings; it does not run on past that.   *)
TurnExact ==
  key = "turn_around" =>
    /\ turned \in -(Target - Tolerance + MaxTurn - 1) .. Target - Tolerance + MaxTurn - 1
    /\ status = "succeeded" =>
         turned \notin -(Target - Tolerance - 1) .. Target - Tolerance - 1

(* A transit fails only if no step from min_transit_s on saw the marker,   *)
(* the last one, at which the time is up, included.                        *)
TransitFailsUnseen ==
  status = "failed" =>
    /\ key = "transit_forward" /\ timed /\ elapsed >= MaxTransit
    /\ sightedAt # None => sightedAt < MinTransit

(* detect_path ends on lost_frames_limit cycles in a row without a path,   *)
(* traverse_gate on a commit or on aligned_frames_required centred gates   *)
(* in a row, whatever was counted by a mission before.                     *)
FramesInARow ==
  [][status = "running" /\ status' = "succeeded" =>
       /\ key = "detect_path" =>
            /\ elapsed' >= MinPathTime
            /\ Len(lately') = LostLimit
            /\ \A i \in DOMAIN lately' : lately'[i]
       /\ key = "traverse_gate" /\ ~GateReadyToCommit =>
            /\ Len(lately') = AlignedRequired
            /\ \A i \in DOMAIN lately' : lately'[i]]_vars

(* Missions with a time of their own end by themselves.                    *)
TimedMissionsEnd ==
  \A k \in {"wait_submerged", "pass_gate", "pass_gate_clear", "circle_marker",
            "transit_forward"} :
    key = k /\ status = "running" /\ (k = "transit_forward" => timed)
      ~> status # "running" \/ key # k
==============================================================================
