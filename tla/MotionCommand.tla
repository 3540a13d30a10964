---------------------------- MODULE MotionCommand ----------------------------
(***************************************************************************)
(* The motion commands of marv_control/lib and how they are limited,       *)
(* merged, overlaid and turned into RC channels.  Speeds are integers, Unit *)
(* of them make the full scale 1.0.                                        *)
(***************************************************************************)
EXTENDS Integers

CONSTANTS
  Unit,      \* the integer that stands for 1.0
  Step,      \* command_smooth_step
  StopM,     \* obstacle_stop_m
  Backup,    \* -DEFAULT_BACKUP_SURGE
  SwayGain,  \* SWAY_GAIN
  NoCmd,     \* None for a command
  NoRange    \* None for a range

ASSUME MotionAssumption ==
  /\ Unit \in Nat \ {0}
  /\ Step \in Nat
  /\ StopM \in Int
  /\ Backup \in Nat \ {0}
  /\ SwayGain \in Nat \ {0}
  /\ NoRange \notin Int

Axes == {"surge", "sway", "heave", "yaw"}
Motion == Axes \ {"heave"}
Command == [Axes -> Int]
Zero == [axis \in Axes |-> 0]

ASSUME NoCmdAssumption == NoCmd \notin Command

Abs(v) == IF v < 0 THEN -v ELSE v
Clamp(low, v, high) == IF v < low THEN low ELSE IF v > high THEN high ELSE v

(* limit_command_step, smooth_command *)
LimitStep(last, target) ==
  IF Abs(target - last) <= Step THEN target
  ELSE IF target > last THEN last + Step ELSE last - Step

Smooth(last, cmd) == [axis \in Axes |-> LimitStep(last[axis], cmd[axis])]

(* merge_twists: a primary value of 0 does not count as a value. *)
Merge(primary, secondary) ==
  [axis \in Axes |-> IF primary[axis] # 0 THEN primary[axis] ELSE secondary[axis]]

(* behavior_to_twist *)
Twist(cmd) == IF cmd = NoCmd THEN Zero ELSE cmd

(* avoid_obstacles, for a valid range or NoRange and the side on which the *)
(* camera sees an obstacle.                                                *)
AvoidObstacles(range, obstacle) ==
  IF range # NoRange /\ range < StopM THEN [Zero EXCEPT !["surge"] = -Backup]
  ELSE CASE obstacle = "right" -> [Zero EXCEPT !["sway"] = -SwayGain]
         [] obstacle = "left"  -> [Zero EXCEPT !["sway"] = SwayGain]
         [] obstacle = "none"  -> NoCmd

(* _velocity_to_pwm with the default pulse widths. *)
Pwm(v) == Clamp(1100, 1500 + (Clamp(-Unit, v, Unit) * 550) \div Unit, 1900)
Neutral == 1500
=============================================================================
