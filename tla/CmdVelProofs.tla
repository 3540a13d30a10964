---------------------------- MODULE CmdVelProofs -----------------------------
(***************************************************************************)
(* Theorems of CmdVelPath for every set of missions, speeds and limits.    *)
(***************************************************************************)
EXTENDS CmdVelPath, TLAPS

(* Smoothing keeps commands commands and moves an axis by at most Step.    *)
LEMMA LimitStepProperty ==
  ASSUME NEW last \in Int, NEW target \in Int
  PROVE  /\ LimitStep(last, target) \in Int
         /\ Abs(LimitStep(last, target) - last) <= Step
  BY MotionAssumption DEF LimitStep, Abs

LEMMA SmoothProperty ==
  ASSUME NEW last \in Command, NEW cmd \in Command
  PROVE  /\ Smooth(last, cmd) \in Command
         /\ \A axis \in Axes : Abs(Smooth(last, cmd)[axis] - last[axis]) <= Step
<1>1. \A axis \in Axes : last[axis] \in Int /\ cmd[axis] \in Int
  BY DEF Command
<1>. QED
  BY <1>1, LimitStepProperty DEF Smooth, Command

LEMMA MergeType ==
  ASSUME NEW p \in Command, NEW s \in Command
  PROVE  Merge(p, s) \in Command
  BY DEF Merge, Command

LEMMA ZeroType == Zero \in Command
  BY DEF Zero, Command

LEMMA AxisType ==
  ASSUME NEW axis \in Axes, NEW v \in Int
  PROVE  [Zero EXCEPT ![axis] = v] \in Command
<1>1. [Zero EXCEPT ![axis] = v] = [a \in Axes |-> IF a = axis THEN v ELSE 0]
  BY DEF Zero
<1>2. \A a \in Axes : (IF a = axis THEN v ELSE 0) \in Int
  OBVIOUS
<1>. QED
  BY <1>1, <1>2, Zenon DEF Command

LEMMA AvoidType ==
  ASSUME NEW r \in Int \cup {NoRange}, NEW side \in {"none", "left", "right"}
  PROVE  AvoidObstacles(r, side) \in Command \cup {NoCmd}
<1>1. /\ [Zero EXCEPT !["surge"] = -Backup] \in Command
      /\ [Zero EXCEPT !["sway"] = -SwayGain] \in Command
      /\ [Zero EXCEPT !["sway"] = SwayGain] \in Command
  <2>1. /\ "surge" \in Axes /\ "sway" \in Axes
        /\ -Backup \in Int /\ SwayGain \in Int /\ -SwayGain \in Int
    BY MotionAssumption DEF Axes
  <2>. QED
    BY <2>1, AxisType
<1>. QED
  BY <1>1 DEF AvoidObstacles

(* A mission gives a command or none, and none only when it is silent or   *)
(* intermittent.                                                           *)
LEMMA OutputType ==
  ASSUME TypeOK, NEW cmd \in Outputs
  PROVE  /\ cmd \in Command \cup {NoCmd}
         /\ cmd = NoCmd => SilentMission \/ key \in Intermittent
  BY PathAssumption, NoCmdAssumption DEF Outputs, SilentMission, Intermittent, TypeOK

LEMMA SmoothedType ==
  ASSUME TypeOK, NEW cmd \in Command \cup {NoCmd}
  PROVE  /\ Smoothed(cmd) \in Command \cup {NoCmd}
         /\ cmd # NoCmd => Smoothed(cmd) \in Command
         /\ cmd = NoCmd => Smoothed(cmd) = NoCmd
  BY SmoothProperty DEF Smoothed, TypeOK

LEMMA PublishedType ==
  ASSUME TypeOK, NEW cmd \in Command \cup {NoCmd}
  PROVE  CmdToPublish(cmd) \in Command
<1>1. DepthTwist \in Command
  BY AxisType DEF DepthTwist, TypeOK, Axes
<1>2. Twist(Smoothed(cmd)) \in Command
  BY SmoothedType, ZeroType DEF Twist
<1>3. AvoidObstacles(range, obstacle) \in Command \cup {NoCmd}
  BY AvoidType DEF TypeOK
<1>. QED
  BY <1>1, <1>2, <1>3, MergeType DEF CmdToPublish

(* Without an overlay the axes other than heave are the mission's.         *)
LEMMA PublishedMotion ==
  ASSUME TypeOK, NEW cmd \in Command \cup {NoCmd},
         ~(key \in Overlaid /\ AvoidObstacles(range, obstacle) # NoCmd),
         NEW axis \in Motion
  PROVE  CmdToPublish(cmd)[axis] = Twist(Smoothed(cmd))[axis]
<1>1. CmdToPublish(cmd) = Merge(Twist(Smoothed(cmd)), DepthTwist)
  BY DEF CmdToPublish
<1>2. axis \in Axes /\ axis # "heave" /\ DepthTwist[axis] = 0
  BY DEF Motion, Axes, DepthTwist, Zero
<1>. QED
  BY <1>1, <1>2 DEF Merge

LEMMA PwmType ==
  ASSUME NEW v \in Int
  PROVE  Pwm(v) \in 1100 .. 1900
<1>1. Clamp(-Unit, v, Unit) \in Int
  BY MotionAssumption DEF Clamp
<1>2. 1500 + (Clamp(-Unit, v, Unit) * 550) \div Unit \in Int
  BY <1>1, MotionAssumption
<1>. QED
  BY <1>2 DEF Pwm, Clamp
-----------------------------------------------------------------------------
LEMMA PathInit == Init => PathInv
<1>. SUFFICES ASSUME Init PROVE PathInv
  OBVIOUS
<1>1. TypeOK
  <2>1. /\ key \in Missions /\ lastCmd \in Command /\ latched \in Command
        /\ range \in Int \cup {NoRange} /\ heave \in Int
        /\ cmdVel \in Command \cup {NoCmd} /\ ping \in Int \cup {NoRange}
        /\ obstacle \in {"none", "left", "right"}
    BY PathAssumption, ZeroType DEF Init
  <2>2. override \in [Axes -> 1100 .. 1900]
    BY DEF Init, Neutral
  <2>3. /\ done \in BOOLEAN /\ enabled \in BOOLEAN /\ posed \in BOOLEAN
        /\ overlaid \in BOOLEAN /\ fresh \in BOOLEAN /\ armed \in BOOLEAN
    BY DEF Init
  <2>. QED
    BY <2>1, <2>2, <2>3 DEF TypeOK
<1>2. SmoothInv
  BY NoCmdAssumption DEF Init, SmoothInv
<1>. QED
  BY <1>1, <1>2 DEF PathInv

(* One control cycle keeps the types.                                      *)
LEMMA RememberType ==
  ASSUME TypeOK, NEW cmd \in Outputs \cup {Zero}, RememberSmoothed(cmd)
  PROVE  lastCmd' \in Command
  BY OutputType, ZeroType, SmoothedType DEF RememberSmoothed, TypeOK

LEMMA ControlType ==
  ASSUME TypeOK, NEW cmd \in Outputs, ControlCycle(cmd)
  PROVE  TypeOK'
<1>1. lastCmd' \in Command
  BY RememberType DEF ControlCycle
<1>2. CASE enabled /\ Publish(CmdToPublish(cmd),
                    key \in Overlaid /\ AvoidObstacles(range, obstacle) # NoCmd)
  <2>1. cmdVel' \in Command /\ fresh' /\ overlaid' \in BOOLEAN
    BY <1>2, OutputType, PublishedType DEF Publish
  <2>. QED
    BY <1>1, <2>1 DEF ControlCycle, TypeOK
<1>3. CASE ~enabled /\ UNCHANGED <<cmdVel, overlaid, fresh>>
  BY <1>1, <1>3 DEF ControlCycle, TypeOK
<1>. QED
  BY <1>2, <1>3 DEF ControlCycle

LEMMA EnvironmentType ==
  ASSUME TypeOK, Environment
  PROVE  TypeOK'
<1>1. CASE \E m \in Missions : SetBehavior(m)
  <2>. PICK m \in Missions : SetBehavior(m)
    BY <1>1
  <2>1. key' \in Missions /\ lastCmd' \in Command /\ done' \in BOOLEAN
    BY ZeroType DEF SetBehavior
  <2>2. UNCHANGED <<enabled, range, obstacle, posed, heave, cmdVel, overlaid, fresh,
                    latched, ping, armed, override>>
    BY DEF SetBehavior
  <2>. QED
    BY <2>1, <2>2 DEF TypeOK
<1>2. CASE \E side \in {"none", "left", "right"} : VisionCallback(side)
  BY <1>2 DEF VisionCallback, TypeOK
<1>3. CASE \E h \in Heaves : PoseCallback(h)
  BY <1>3, PathAssumption DEF PoseCallback, TypeOK
<1>4. CASE SetEnableControl
  BY <1>4 DEF SetEnableControl, TypeOK
<1>5. CASE \E reading \in Ranges : PingMessage(reading)
  BY <1>5, PathAssumption DEF PingMessage, masterVars, TypeOK
<1>6. CASE StateMessage
  BY <1>6 DEF StateMessage, masterVars, TypeOK
<1>. QED
  BY <1>1, <1>2, <1>3, <1>4, <1>5, <1>6 DEF Environment

LEMMA PathTypeStep ==
  ASSUME PathInv, [Next]_vars
  PROVE  TypeOK'
<1>0. TypeOK
  BY DEF PathInv
<1>1. CASE IdleCycle
  <2>1. DepthTwist \in Command
    BY <1>0, AxisType DEF DepthTwist, TypeOK, Axes
  <2>. QED
    <3>1. cmdVel' \in Command \cup {NoCmd} /\ overlaid' \in BOOLEAN
          /\ fresh' \in BOOLEAN
      <4>1. CASE enabled /\ Publish(DepthTwist, FALSE)
        BY <2>1, <4>1 DEF Publish
      <4>2. CASE UNCHANGED <<cmdVel, overlaid, fresh>>
        BY <1>0, <4>2 DEF TypeOK
      <4>. QED
        BY <1>1, <4>1, <4>2 DEF IdleCycle
    <3>2. UNCHANGED <<masterVars, latched, ping, armed, override>>
      BY <1>1 DEF IdleCycle
    <3>. QED
      BY <1>0, <3>1, <3>2 DEF masterVars, TypeOK
<1>2. CASE \E cmd \in Outputs : ControlCycle(cmd)
  BY <1>0, <1>2, ControlType
<1>3. CASE \E cmd \in Outputs \cup {Zero} : LastCycle(cmd)
  <2>. PICK cmd \in Outputs \cup {Zero} : LastCycle(cmd)
    BY <1>3
  <2>1. lastCmd' \in Command
    BY <1>0, RememberType DEF LastCycle
  <2>. QED
    BY <1>0, <2>1 DEF LastCycle, TypeOK
<1>4. CASE RangeCallback
  BY <1>0, <1>4 DEF RangeCallback, TypeOK
<1>5. CASE CmdVelCallback
  <2>1. cmdVel \in Command \/ cmdVel = NoCmd
    BY <1>0 DEF TypeOK
  <2>. QED
    <3>1. latched' \in Command /\ fresh' \in BOOLEAN
      BY <1>5, <2>1 DEF CmdVelCallback, PathInv, SmoothInv
    <3>2. UNCHANGED <<masterVars, cmdVel, overlaid, ping, armed, override>>
      BY <1>5 DEF CmdVelCallback
    <3>. QED
      BY <1>0, <3>1, <3>2 DEF masterVars, TypeOK
<1>6. CASE ForwardCmdVel
  <2>1. \A axis \in Axes : latched[axis] \in Int
    BY <1>0 DEF TypeOK, Command
  <2>2. override' \in [Axes -> 1100 .. 1900]
    BY <1>6, <2>1, PwmType DEF ForwardCmdVel
  <2>. QED
    BY <1>0, <1>6, <2>2 DEF ForwardCmdVel, masterVars, TypeOK
<1>7. CASE Environment
  BY <1>0, <1>7, EnvironmentType
<1>8. CASE UNCHANGED vars
  BY <1>0, <1>8 DEF vars, masterVars, TypeOK
<1>. QED
  BY <1>1, <1>2, <1>3, <1>4, <1>5, <1>6, <1>7, <1>8 DEF Next, ControlLoop

-----------------------------------------------------------------------------
(* The cycle of a running mission: what it publishes without an overlay is *)
(* what it remembers, or nothing on any axis.                              *)
LEMMA ControlKeeps ==
  ASSUME PathInv, NEW cmd \in Outputs, ControlCycle(cmd)
  PROVE  SmoothInv'
<1>1. /\ TypeOK /\ cmd \in Command \cup {NoCmd}
      /\ cmd = NoCmd => SilentMission \/ key \in Intermittent
  BY OutputType DEF PathInv
<1>2. /\ ~done /\ UNCHANGED <<key, done, posed>>
      /\ SilentMission' = SilentMission
  BY DEF ControlCycle, SilentMission
<1>3. SilentMission => cmd = NoCmd
  BY DEF SilentMission, Outputs
<1>4. SilentMission => lastCmd' = Zero
  BY <1>2, <1>3 DEF ControlCycle, RememberSmoothed, PathInv, SmoothInv
<1>5. CASE enabled /\ Publish(CmdToPublish(cmd),
                    key \in Overlaid /\ AvoidObstacles(range, obstacle) # NoCmd)
  <2>1. cmdVel' = CmdToPublish(cmd) /\ cmdVel' # NoCmd
    BY <1>1, <1>5, PublishedType, NoCmdAssumption DEF Publish
  <2>2. ASSUME ~overlaid', key \notin Intermittent, NEW axis \in Motion
        PROVE  lastCmd'[axis] \in {0, cmdVel'[axis]}
    <3>1. cmdVel'[axis] = Twist(Smoothed(cmd))[axis]
      BY <1>1, <1>5, <2>1, <2>2, PublishedMotion DEF Publish
    <3>2. CASE cmd = NoCmd
      <4>1. lastCmd' = Zero
        BY <1>1, <1>4, <2>2, <3>2
      <4>. QED
        BY <4>1 DEF Zero, Motion
    <3>3. CASE cmd # NoCmd
      <4>1. lastCmd' = Smoothed(cmd)
        BY <1>5, <3>3 DEF ControlCycle, RememberSmoothed
      <4>2. Twist(Smoothed(cmd)) = Smoothed(cmd)
        BY <1>1, <3>3, SmoothedType, NoCmdAssumption DEF Twist
      <4>. QED
        BY <3>1, <4>1, <4>2
    <3>. QED
      BY <3>2, <3>3
  <2>. QED
    BY <1>2, <1>4, <2>1, <2>2 DEF SmoothInv
<1>6. CASE ~enabled /\ UNCHANGED <<cmdVel, overlaid, fresh>>
  <2>1. lastCmd' = lastCmd
    BY <1>6 DEF ControlCycle, RememberSmoothed
  <2>. QED
    BY <1>2, <1>6, <2>1 DEF PathInv, SmoothInv
<1>. QED
  BY <1>5, <1>6 DEF ControlCycle

LEMMA SmoothStep ==
  ASSUME PathInv, [Next]_vars
  PROVE  SmoothInv'
<1>1. CASE IdleCycle
  <2>1. DepthTwist # NoCmd
    BY AxisType, NoCmdAssumption DEF DepthTwist, PathInv, TypeOK, Axes
  <2>. QED
    BY <1>1, <2>1 DEF IdleCycle, Publish, masterVars, PathInv, SmoothInv
<1>2. CASE \E cmd \in Outputs : ControlCycle(cmd)
  BY <1>2, ControlKeeps
<1>3. CASE \E cmd \in Outputs \cup {Zero} : LastCycle(cmd)
  BY <1>3 DEF LastCycle, PathInv, SmoothInv
<1>4. CASE \E m \in Missions : SetBehavior(m)
  BY <1>4 DEF SetBehavior, PathInv, SmoothInv, Zero, Motion
<1>5. CASE \E h \in Heaves : PoseCallback(h)
  BY <1>5 DEF PoseCallback, PathInv, SmoothInv, SilentMission
<1>6. CASE CmdVelCallback
  BY <1>6 DEF CmdVelCallback, masterVars, PathInv, SmoothInv, SilentMission
<1>7. CASE UNCHANGED <<key, done, lastCmd, posed, cmdVel, overlaid, fresh>>
  BY <1>7 DEF PathInv, SmoothInv, SilentMission
<1>. QED
  BY <1>1, <1>2, <1>3, <1>4, <1>5, <1>6, <1>7
     DEF Next, ControlLoop, Environment, RangeCallback, ForwardCmdVel,
         VisionCallback, SetEnableControl, PingMessage, StateMessage, vars,
         masterVars

(* The invariant of the command path, for all missions, speeds and ranges. *)
THEOREM PathInvariant == Spec => []PathInv
<1>1. PathInv /\ [Next]_vars => PathInv'
  BY PathTypeStep, SmoothStep DEF PathInv
<1>. QED
  BY PathInit, <1>1, PTL DEF Spec

(* control_loop never drives an axis harder by more than                   *)
(* command_smooth_step from one /cmd_vel message to the next, except when  *)
(* an obstacle command was merged into one of the two and in detect_path,  *)
(* whose command may come and go.                                          *)
THEOREM CommandsRiseGradually == Spec => SpeedsUpGradually
<1>1. PathInv /\ PathInv' /\ [Next]_vars
      => [cmdVel # NoCmd /\ ~overlaid /\ ~overlaid' /\ key \notin Intermittent
            => Gradual(cmdVel, cmdVel')]_cmdVel
  <2>. SUFFICES ASSUME PathInv, Next, cmdVel # NoCmd, ~overlaid, ~overlaid',
                       key \notin Intermittent, cmdVel' # cmdVel, NEW axis \in Motion
                PROVE  \/ Abs(cmdVel'[axis]) <= Step
                       \/ Abs(cmdVel'[axis] - cmdVel[axis]) <= Step
    BY DEF Gradual, vars
  <2>0. TypeOK /\ axis \in Axes /\ axis # "heave"
    BY DEF PathInv, Motion, Axes
  <2>1. Abs(0) <= Step
    BY MotionAssumption DEF Abs
  <2>2. CASE IdleCycle
    <3>1. cmdVel' = DepthTwist
      BY <2>2 DEF IdleCycle, Publish
    <3>2. DepthTwist[axis] = 0
      BY <2>0 DEF DepthTwist, Zero
    <3>. QED
      BY <2>1, <3>1, <3>2
  <2>3. CASE \E cmd \in Outputs : ControlCycle(cmd)
    <3>. PICK cmd \in Outputs : ControlCycle(cmd)
      BY <2>3
    <3>1. /\ cmd \in Command \cup {NoCmd} /\ ~done
      BY <2>0, OutputType DEF ControlCycle
    <3>2. /\ enabled /\ cmdVel' = CmdToPublish(cmd)
          /\ ~(key \in Overlaid /\ AvoidObstacles(range, obstacle) # NoCmd)
      BY DEF ControlCycle, Publish
    <3>3. cmdVel'[axis] = Twist(Smoothed(cmd))[axis]
      BY <2>0, <3>1, <3>2, PublishedMotion
    <3>4. CASE cmd = NoCmd
      BY <2>0, <2>1, <3>3, <3>4 DEF Smoothed, Twist, Zero
    <3>5. CASE cmd # NoCmd
      <4>1. Twist(Smoothed(cmd)) = Smooth(lastCmd, cmd)
        BY <2>0, <3>1, <3>2, <3>5, SmoothedType, NoCmdAssumption DEF Twist, Smoothed
      <4>2. Abs(Smooth(lastCmd, cmd)[axis] - lastCmd[axis]) <= Step
        BY <2>0, <3>1, <3>5, SmoothProperty DEF TypeOK
      <4>3. lastCmd[axis] = 0 \/ lastCmd[axis] = cmdVel[axis]
        BY <3>1 DEF PathInv, SmoothInv
      <4>4. Smooth(lastCmd, cmd)[axis] \in Int
        BY <2>0, <3>1, <3>5, SmoothProperty DEF TypeOK, Command
      <4>5. CASE lastCmd[axis] = 0
        BY <3>3, <4>1, <4>2, <4>4, <4>5
      <4>6. CASE lastCmd[axis] = cmdVel[axis]
        BY <3>3, <4>1, <4>2, <4>6
      <4>. QED
        BY <4>3, <4>5, <4>6
    <3>. QED
      BY <3>4, <3>5
  <2>. QED
    BY <2>2, <2>3
       DEF Next, ControlLoop, Environment, LastCycle, SetBehavior, RangeCallback,
           VisionCallback, PoseCallback, SetEnableControl, CmdVelCallback,
           ForwardCmdVel, PingMessage, StateMessage
<1>. QED
  BY <1>1, PathInvariant, PTL DEF Spec, SpeedsUpGradually
=============================================================================
