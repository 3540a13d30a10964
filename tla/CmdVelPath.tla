----------------------------- MODULE CmdVelPath ------------------------------
(***************************************************************************)
(* From a mission's command to the thrusters: control_loop of              *)
(* master_control_node.py computes and publishes /cmd_vel, ardusub_node.py *)
(* keeps the last one and forwards it to the FCU at its own pace, and feeds *)
(* the cached Ping range back to the master.  The mission's outputs, the   *)
(* sensors, the parameter enable_control and the FCU are the environment.  *)
(***************************************************************************)
EXTENDS MotionCommand

CONSTANTS
  Missions,     \* the behavior keys
  Wanted,       \* what the step() of each mission may return: commands, NoCmd
  NeedsPose,    \* missions that return no command before the first pose
  CanComplete,  \* missions whose step() may complete
  Overlaid,     \* the behaviors on which control_loop overlays avoid_obstacles
  BootMission,  \* the active_behavior parameter
  Ranges,       \* what the Ping may measure
  MinRange, MaxRange,  \* of the Range message
  Heaves        \* what depth hold may ask for

ASSUME PathAssumption ==
  /\ Wanted \in [Missions -> SUBSET (Command \cup {NoCmd})]
  /\ Overlaid \subseteq Missions
  /\ BootMission \in Missions
  /\ Ranges \subseteq Int
  /\ MinRange \in Int /\ MaxRange \in Int
  /\ Heaves \subseteq Int

VARIABLES
  key,       \* _mission_key
  done,      \* _mission_done
  lastCmd,   \* _last_cmd
  enabled,   \* the parameter enable_control
  range,     \* _forward_range_m, NoRange when not valid
  obstacle,  \* where vision_data shows an obstacle
  posed,     \* latest_pose is not None
  heave,     \* the depth-hold command of latest_pose
  cmdVel,    \* the last message on /cmd_vel, NoCmd: none yet
  overlaid,  \* an obstacle command was merged into it (not in the message)
  fresh,     \* ardusub_node has not received it yet
  latched,   \* ardusub_node: _last_cmd_vel
  ping,      \* ardusub_node: the cached Range message, NoRange: none yet
  armed,     \* the cached State says connected and armed
  override   \* the last RC override sent to the FCU

masterVars == <<key, done, lastCmd, enabled, range, obstacle, posed, heave>>
vars == <<masterVars, cmdVel, overlaid, fresh, latched, ping, armed, override>>

TypeOK ==
  /\ key \in Missions
  /\ done \in BOOLEAN
  /\ lastCmd \in Command
  /\ enabled \in BOOLEAN
  /\ range \in Int \cup {NoRange}
  /\ obstacle \in {"none", "left", "right"}
  /\ posed \in BOOLEAN
  /\ heave \in Int
  /\ cmdVel \in Command \cup {NoCmd}
  /\ overlaid \in BOOLEAN
  /\ fresh \in BOOLEAN
  /\ latched \in Command
  /\ ping \in Int \cup {NoRange}
  /\ armed \in BOOLEAN
  /\ override \in [Axes -> 1100 .. 1900]

Init ==
  /\ key = BootMission
  /\ done = FALSE
  /\ lastCmd = Zero
  /\ enabled \in BOOLEAN
  /\ range = NoRange
  /\ obstacle = "none"
  /\ posed = FALSE
  /\ heave = 0
  /\ cmdVel = NoCmd
  /\ overlaid = FALSE
  /\ fresh = FALSE
  /\ latched = Zero
  /\ ping = NoRange
  /\ armed = FALSE
  /\ override = [axis \in Axes |-> Neutral]

(* cmd_vel_pub.publish *)
Publish(cmd, withObstacle) ==
  /\ cmdVel' = cmd
  /\ overlaid' = withObstacle
  /\ fresh' = TRUE

(* compute_depth_hold_cmd as a Twist. *)
DepthTwist == [Zero EXCEPT !["heave"] = heave]

Outputs == IF key \in NeedsPose /\ ~posed THEN {NoCmd} ELSE Wanted[key]

(* The mission's command after smooth_command, which needs enable_control. *)
Smoothed(cmd) ==
  IF cmd # NoCmd /\ enabled THEN Smooth(lastCmd, cmd) ELSE cmd

RememberSmoothed(cmd) ==
  lastCmd' = IF cmd # NoCmd /\ enabled THEN Smoothed(cmd) ELSE lastCmd

(* control_loop when there is no running mission: depth hold only. *)
IdleCycle ==
  /\ done
  /\ \/ enabled /\ Publish(DepthTwist, FALSE)
     \/ ~enabled /\ UNCHANGED <<cmdVel, overlaid, fresh>>
  /\ UNCHANGED <<masterVars, latched, ping, armed, override>>

(* control_loop in the cycle in which step() completes, often with a stop: *)
(* nothing is published.                                                   *)
LastCycle(cmd) ==
  /\ ~done
  /\ key \in CanComplete
  /\ RememberSmoothed(cmd)
  /\ done' = TRUE
  /\ UNCHANGED <<key, enabled, range, obstacle, posed, heave, cmdVel, overlaid,
                 fresh, latched, ping, armed, override>>

(* Mutant: the obstacle command is merged the other way round. *)
CmdToPublishLate(cmd) ==
  LET twist == Merge(Twist(Smoothed(cmd)), DepthTwist)
      obstacleCmd == AvoidObstacles(range, obstacle)
  IN  IF key \in Overlaid /\ obstacleCmd # NoCmd
      THEN Merge(twist, obstacleCmd) ELSE twist

(* _compute_cmd_vel and the overlay of avoid_obstacles. *)
CmdToPublish(cmd) ==
  LET twist == Merge(Twist(Smoothed(cmd)), DepthTwist)
      obstacleCmd == AvoidObstacles(range, obstacle)
  IN  IF key \in Overlaid /\ obstacleCmd # NoCmd
      THEN Merge(obstacleCmd, twist) ELSE twist

(* control_loop in any other cycle. *)
ControlCycle(cmd) ==
  /\ ~done
  /\ RememberSmoothed(cmd)
  /\ \/ enabled /\ Publish(CmdToPublish(cmd),
                           key \in Overlaid /\ AvoidObstacles(range, obstacle) # NoCmd)
     \/ ~enabled /\ UNCHANGED <<cmdVel, overlaid, fresh>>
  /\ UNCHANGED <<key, done, enabled, range, obstacle, posed, heave, latched, ping,
                 armed, override>>

(* Mutant: _last_cmd survives the change of mission. *)
SetBehaviorKeepsCmd(behavior) ==
  /\ behavior # key
  /\ key' = behavior
  /\ done' = FALSE
  /\ UNCHANGED <<lastCmd, enabled, range, obstacle, posed, heave, cmdVel, overlaid,
                 fresh, latched, ping, armed, override>>

(* set_behavior_callback and _activate_behavior, for a known behavior. *)
SetBehavior(behavior) ==
  /\ behavior # key
  /\ key' = behavior
  /\ done' = FALSE
  /\ lastCmd' = Zero
  /\ UNCHANGED <<enabled, range, obstacle, posed, heave, cmdVel, overlaid, fresh,
                 latched, ping, armed, override>>

(* range_callback, with the message ardusub_node republishes every cycle. *)
RangeCallback ==
  /\ ping # NoRange
  /\ range' = IF ping < MinRange \/ ping > MaxRange THEN NoRange ELSE ping
  /\ UNCHANGED <<key, done, lastCmd, enabled, obstacle, posed, heave, cmdVel,
                 overlaid, fresh, latched, ping, armed, override>>

VisionCallback(side) ==
  /\ obstacle' = side
  /\ UNCHANGED <<key, done, lastCmd, enabled, range, posed, heave, cmdVel,
                 overlaid, fresh, latched, ping, armed, override>>

PoseCallback(h) ==
  /\ posed' = TRUE
  /\ heave' = h
  /\ UNCHANGED <<key, done, lastCmd, enabled, range, obstacle, cmdVel, overlaid,
                 fresh, latched, ping, armed, override>>

(* enable_control is an ordinary parameter, read anew in every cycle. *)
SetEnableControl ==
  /\ enabled' = ~enabled
  /\ UNCHANGED <<key, done, lastCmd, range, obstacle, posed, heave, cmdVel,
                 overlaid, fresh, latched, ping, armed, override>>
-----------------------------------------------------------------------------
(* ardusub_node.                                                           *)

CmdVelCallback ==
  /\ fresh
  /\ fresh' = FALSE
  /\ latched' = cmdVel
  /\ UNCHANGED <<masterVars, cmdVel, overlaid, ping, armed, override>>

(* Mutant: a neutral command is not worth an override. *)
ForwardNonZero ==
  /\ armed
  /\ latched # Zero
  /\ override' = [axis \in Axes |-> Pwm(latched[axis])]
  /\ UNCHANGED <<masterVars, cmdVel, overlaid, fresh, latched, ping, armed>>

(* timer_callback: forward_cmd_vel with the back end mavros_rc. *)
ForwardCmdVel ==
  /\ armed
  /\ override' = [axis \in Axes |-> Pwm(latched[axis])]
  /\ UNCHANGED <<masterVars, cmdVel, overlaid, fresh, latched, ping, armed>>

(* range_cb of ping_io: kept, and republished for ever. *)
PingMessage(reading) ==
  /\ ping' = reading
  /\ UNCHANGED <<masterVars, cmdVel, overlaid, fresh, latched, armed, override>>

StateMessage ==
  /\ armed' = ~armed
  /\ UNCHANGED <<masterVars, cmdVel, overlaid, fresh, latched, ping, override>>
-----------------------------------------------------------------------------
ControlLoop ==
  \/ IdleCycle
  \/ \E cmd \in Outputs : ControlCycle(cmd)
  \/ \E cmd \in Outputs \cup {Zero} : LastCycle(cmd)

Environment ==
  \/ \E m \in Missions : SetBehavior(m)
  \/ \E side \in {"none", "left", "right"} : VisionCallback(side)
  \/ \E h \in Heaves : PoseCallback(h)
  \/ SetEnableControl
  \/ \E reading \in Ranges : PingMessage(reading)
  \/ StateMessage

Next ==
  \/ ControlLoop
  \/ RangeCallback
  \/ CmdVelCallback
  \/ ForwardCmdVel
  \/ Environment

Spec == Init /\ [][Next]_vars

(* Both nodes' timers run for ever and delivered messages are handled.     *)
Fairness ==
  /\ WF_vars(ControlLoop)
  /\ WF_vars(RangeCallback)
  /\ WF_vars(CmdVelCallback)
  /\ WF_vars(ForwardCmdVel)

FairSpec == Spec /\ Fairness
-----------------------------------------------------------------------------
(* The missions that give a command in some cycles and none in others.     *)
Intermittent == {m \in Missions : NoCmd \in Wanted[m] /\ Wanted[m] # {NoCmd}}

Near(r) == r # NoRange /\ r < StopM

(* From one message on /cmd_vel to the next, an axis is not driven harder  *)
(* by more than Step: not across a change of mission, a pause of           *)
(* enable_control or a completed mission.  Depth hold and the obstacle     *)
(* overlay are not rate-limited, and neither is detect_path when it sees   *)
(* the path again: while the path is lost a stop is published, but the     *)
(* smoothing goes on from the last command.                                *)
Gradual(old, new) ==
  \A axis \in Motion : Abs(new[axis]) <= Step \/ Abs(new[axis] - old[axis]) <= Step

SpeedsUpGradually ==
  [][cmdVel # NoCmd /\ ~overlaid /\ ~overlaid' /\ key \notin Intermittent
       => Gradual(cmdVel, cmdVel')]_cmdVel

(* An overlaid mission in front of something nearer than obstacle_stop_m   *)
(* ends up driving the thrusters backwards, through both nodes' caches.    *)
BacksUp ==
  <>[](Near(ping) /\ ping >= MinRange /\ ping <= MaxRange /\ enabled /\ armed
       /\ key \in Overlaid /\ ~done)
    => <>[](override["surge"] < Neutral)

(* After its last cycle a mission, which does not command a stop, comes to *)
(* rest: the following cycles do.                                          *)
DoneSettles ==
  <>[](done /\ enabled /\ armed)
    => <>[](\A axis \in Motion : override[axis] = Neutral)
-----------------------------------------------------------------------------
(* Why SpeedsUpGradually holds: what was last published is where the       *)
(* smoothing continues, or the smoothing starts from rest.                 *)
SilentMission == (key \in NeedsPose /\ ~posed) \/ Wanted[key] = {NoCmd}

SmoothInv ==
  /\ fresh => cmdVel # NoCmd
  /\ ~done =>
       /\ SilentMission => lastCmd = Zero
       /\ cmdVel # NoCmd /\ ~overlaid /\ key \notin Intermittent =>
            \A axis \in Motion : lastCmd[axis] \in {0, cmdVel[axis]}

PathInv == TypeOK /\ SmoothInv
=============================================================================
