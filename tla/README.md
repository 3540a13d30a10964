# Verification of marv_ws

TLA+ modules, TLC runs and TLAPS proofs for the ROS 2 workspace of the Marv AUV
(`src/`). Paths below are relative to `src/src/`, the colcon source space.

The vehicle's software is a handful of Python nodes, each a single-threaded
`rclpy.spin` loop: callbacks of one node never interleave, callbacks of different
nodes interleave freely, and nodes share nothing but topics and services. Nearly
everything that can go wrong is in what a node has cached, what is still on its
way, and which timer comes first.

## 1. Inventory

| Component | State | Operations | Talks to | What makes it correct |
|---|---|---|---|---|
| **mission planner** (`marv_control/mission_planner_node.py`) | `_started`, current node, `_mission_start`, `_timeout_s`, `_waiting_event`, `_finished` | delayed start, watchdog (0.5 s), event callback | `set_behavior` to the master, `mission_event` from it, `status` | walks the plan graph along the edge that belongs to what happened in *this* visit of the node; a plan that ended stays ended; timed nodes are left |
| **mission plans** (`marv_bringup/config/plans/*.yaml`) | constant graph | – | read by the planner | every outcome of a node has the edge its author meant |
| **master control** (`marv_control/master_control_node.py`) | mission object and key, `_mission_done`, `_last_cmd`, cached range, pose, vision | 10 Hz control loop, sensor callbacks, `set_behavior` | planner, `/cmd_vel`, missions | runs the planner's behavior, reports each mission once, rate-limits what it publishes, stops or backs up before an obstacle |
| **missions** (`marv_control/missions/*`) | counters of frames, phases, start times | `step`, `cleanup`, `stop` | called by the master | each phase ends; a completion is real |
| **motion helpers** (`marv_control/lib/*`) | none | rate limit, merge, obstacle overlay, controllers | called by the master and the missions | bounds and priorities of the command |
| **ardusub node** (`marv_ardusub/*`) | last `/cmd_vel`, last range, State, depth, pose | timer forwards everything cached | MAVROS, master | what reaches the thrusters is the current command |
| **prequal node** (`marv_prequal/prequal_node.py`) | six-state machine, cached sensors, two start stamps, orbit accumulator | 20 Hz control loop, camera, Ping, IMU callbacks | `/cmd_vel` | finishes or surfaces, never drives into what it sees ahead |
| **FCU setup** (`marv_bringup/fcu_setup_node.py`) | cached State, `_mode_sent`, `_pending`, `_done`, deadline | 1 Hz tick, two service callbacks | MAVROS services | arms only in the mode it was told to set, ends |
| **position estimate and sensors** (`marv_ardusub/lib/pos_est.py`, `sensor_io.py`, `depth.py`) | last messages | copy into a pose | – | – |
| **Unity HIL bridge** (`marv_ardusub/unity_hil_bridge.py`) | – | republishes | – | – |
| **mapping** (`marv_mapping/*`) | sensor buffer, maps | callbacks write, a timer integrates | `/vision_data` … | each distance is integrated once |
| **vision** (`marv_vision/*`) | smoothed detections, last frame, camera handle, models | camera or image topic in, detections out | `f_cam/detections` | the boat is steered between the legs of the gate, also with other red things in the picture; what is smoothed is still a detection |
| **teleop, demo recorder and replay** (`marv_control/*`) | recorded steps, index | keys, timers | `/cmd_vel` | a replay is the recording |
| **Ping bridge, bench range simulator, bench session** (`marv_bringup/mavlink_ping_bridge.py`, `bench_range_sim.py`, `scripts/run_bench_tv.sh`, `launch/prequal_bringup.launch.py`) | last reading, area of the gate, current behavior and its age | a thread reads, timers republish | ardusub node, planner | the simulated pass ends by its range, in time, and not by what is left of an earlier one |
| **Ping sonar driver** (`ping_sonar_ros/*` with its vendored `brping`) | parser, attributes of the last answers | request/answer with a timeout | the device, ardusub node | what is published was measured; the parser finds the next frame; no callback hangs |
| **Unity TCP endpoint** (`ros_tcp_endpoint/*`) | sockets, a queue per sender and the current one, `pending_srv_id`, waiting calls, tables of nodes | a reader and a sender thread per connection, a thread per call | Unity, ROS | a call gets its own answer; a lost connection is given up; a registered node is spun |
| **Gazebo bridges and world scripts** (`marv_worlds/scripts/*`) | image queue, spawn attempts | callbacks, drain timer, subprocess | Gazebo, vision | the newest image gets through; one vehicle |
| **launch files, shell scripts** | – | start processes | – | – |

Hard behaviour, component by component, is listed with its line under `hazards` in
`PROJECT.json`. The groups are: (a) planner and master matching commands and events
by behavior *name* over topics that lose what is published before discovery;
(b) restarts of the master; (c) caches without an age (`/cmd_vel`, range, State);
(d) timers racing late answers (watchdog against event, deadline against service);
(e) numeric edges (0.0 as "absent", angle wrap-around); (f) threads and queues of
the TCP endpoint and the image bridge.

## 2. Modules

| Module | Models | Correspondence |
|---|---|---|
| `MissionPlan` | the plan and the mission registry as constants | `OnSuccess`, `OnFailure`, `OnTimeout` are the `a or b` chains of `_mission_event_callback` and `_watchdog_tick` |
| `MissionTopics` | the two topics between planner and master | sequences; `Discover` is DDS matching, before which a message is lost; messages age and are delivered within `Latency` |
| `MissionPlanner` | `mission_planner_node.py` | one action per callback; `_enter_node` and `_advance` are operators of the same names; `elapsed` is `time.monotonic() - _mission_start` |
| `MasterControl` | the mission life cycle of `master_control_node.py` | `SetBehaviorCallback`, `ActivateBehavior`, the completing control cycle (`MissionCompletes`), and a crash with relaunch (`Restart`); `missionTime` is `ctx.elapsed_s`, and no time passes over a mission that its duration has to complete first (`Overdue`, `MissionClock`) |
| `MissionStack` | both nodes and the topics together | properties, `FairSpec`, the inductive invariant `IInv`, the refinement `Walk` |
| `PlanWalk` | abstract specification: a walk of the plan graph | `MissionStack` implements it (`WalksThePlan`) |
| `MCPlans` | `prequal_plan`, `bench_tv_plan` and the latter with two misspelt names, for TLC | node for node; timeouts scaled to watchdog periods |
| `MotionCommand` | `marv_control/lib`: rate limit, merge, overlay; velocity to PWM | pure operators on integer vectors |
| `CmdVelPath` | `control_loop` → `/cmd_vel` → `ardusub_node` → RC override, and the range back | one action per callback and per way out of `control_loop` |
| `MCCmdVel` | three missions for TLC | |
| `Prequal` | `prequal_node.py` | one action per state of `control_loop`, one per sensor callback |
| `FcuSetup` | `fcu_setup_node.py` with MAVROS and the FCU around it | one action per way out of `_tick`, one per callback |
| `Missions` | `missions/*.py` and the helpers they call | one operator per step function, `ControlCycle` is the master's call of it; `fields` are the counters and start values of the mission object |
| `MCMissions` | four detections for TLC | |
| `Mapping` | `mapping_node.py` with `auv_mapping` | one action per callback; `EngineUpdate` is `MappingEngine.update` with one disjunct per early return |
| `UnityEndpoint` | `ros_tcp_endpoint`: `server.py`, `client.py`, `tcp_sender.py`, `thread_pauser.py`, `service.py`, `subscriber.py` | one action per step of a thread between two uses of what it shares; `reader`, `sender`, `caller`, `service`, `forward` are the threads' places; Unity and the network are external |
| `UnityCalls` | abstract specification: what a call of a Unity service is promised | `UnityEndpoint` implements it (`CallsAsPromised`) |
| `PingProtocol` | `brping`: frames (`pingmessage.py`, `definitions.py`) and `PingParser` | `Pack`, `Unpack`, `Checksum` on bytes; one operator per parser state |
| `Ping1D` | `ping1d_component.py`, `device.py`, `ping1d.py`, and the simulation of the device and proxy | a callback is the list of exchanges it has left (`todo`); `Read` is a round of `wait_message`, `TimesOut` its end |
| `GateVision` | `prequal_cv.py` | an image is a row of painted columns; one operator per detector and helper |
| `FrontCamera` | `gz_image_bridge.py`, `f_cam_node.py`, `target_tracker.py` | the bridge's thread is `Render`, `DropOldest`, `PutAgain`, its timer `Drain`; `TimerCallback` is `f_cam_node`'s |
| `MCFrontCamera` | the pictures and profiles for TLC | |
| `BenchTv` | `bench_range_sim.py`, `mavlink_ping_bridge.py`, the two bench scripts, `prequal_bringup.launch.py`, and the way of a range through `ardusub_node` to `pass_gate` | one action per callback, timer and script step; `Launched` is the launch file's conditions |
| `MCBenchTv` | arguments and pictures for TLC | |
| `MissionStackProofs`, `CmdVelProofs`, `PrequalProofs`, `MissionsProofs`, `MappingProofs`, `UnityProofs`, `BenchTvProofs` | theorems of the module of that name | section 5 |
| `DriverProofs` | theorems of `FcuSetup`, `FrontCamera`, `PingProtocol` and `Ping1D` | section 5 |

How they compose: `MissionStack` EXTENDS `MissionPlanner` and `MasterControl`, which
share `MissionTopics` and nothing else, as the processes do. `CmdVelPath` takes the
other half of `master_control_node.py`, what a control cycle publishes, with the
mission's output as an input; the two halves meet in `_mission_key` and
`_mission_done`. `Missions` takes the third part, what the mission makes of the cached
sensors, and bears out what the other two assume of it: `hold` and `depth_hold` never
end (`Endless`), only a timed transit fails (`CanFail`), only `return_home`,
`depth_hold` and `detect_path` may give no command (`MissionsAsAssumed`, proved), and the
missions with a duration end by it (`TimedMissionsEnd`, checked). `FrontCamera` EXTENDS
`GateVision`, `Ping1D` EXTENDS `PingProtocol`: a node over the library it calls.
`BenchTv` composes four processes on one topic chain: two publishers of ranges,
`ardusub_node`'s cache, and the master and planner cut down to `pass_gate` and the
nodes around it. `Prequal`, `FcuSetup`, `Mapping` and `UnityEndpoint` stand alone, as
their processes do.
`FcuSetup`, `FrontCamera` and `Ping1D` have their names prefixed (`FcuInit`, `CameraNext`,
`PingSpec`), as `DriverProofs` extends all three.

Variables that are not in the code are marked so where they are declared. They only
record history: `entry` (node entries) and the `entry`/`age` fields of messages,
`owner` (whose command created the mission), `heard` (the last command since launch),
`cleaned`, `restarts`; `overlaid` in
`CmdVelPath`; `turned` and `passed` in `Prequal`; the FCU's own `mode` and `armed`;
`turned`, `swing`, `lately`, `sightedAt` in `Missions`; `moved`, `pinged`, `seen`,
`updates` in `Mapping`; `fired` and the `fresh` and `source` of a range in `BenchTv`;
the numbers of the images in `FrontCamera`; `faults` in `Ping1D`.

Abstractions worth knowing:

- `/cmd_vel` is "the last message, and whether ardusub has received it":
  `ardusub_node` keeps only the last, so older ones in the queue cannot matter.
- `CmdVelPath` takes the back end `mavros_rc`, `depth_hold_enabled` true,
  `heave_pwm_invert` and `hold_depth_with_autopilot` false (the defaults of the
  bring-up); depth hold's output is any value of `Heaves`. Speeds are integers,
  `Unit` of them are 1.0.
- A mission is, in `MasterControl`, what it may report (`Endless`, `CanFail`) and, if it
  has one, the time after which it completes at the latest (`Duration`; it may complete
  earlier, `pass_gate` does on a range); in `CmdVelPath` what it may return (`Wanted`, `NeedsPose`, `CanComplete`).
- In `Prequal` headings are integers modulo `Circle`; one clock stands for
  `_blow_through_start` and `_sprint_start`, of which one is read in each state;
  the vehicle turns by at most one heading unit between two control periods.
- In `Missions` a detection is whether it is sure, how far from the centre and how
  big it is; a position lies on a line through home, so that distances are
  differences; `use_timed_transit` is either from the start. Frame counters are capped
  at their limit, above which no comparison can tell.
- In `Mapping` coordinates are integers, a mean is rounded down, headings are quarter
  turns, and distances are compared by their squares. Depth, the landmark's height and
  the confidences are left out: they are stored and published, nothing depends on them.
- In `UnityEndpoint` a message is its kind and its id; whether it parses, and whether a
  topic is registered, is open. A test of `self.queue` and the use of it are two steps,
  so are the uses of `pending_srv_id` and clearing it; a block under a lock is one.
  Errors sent to Unity and published messages need no answer and are not items of the
  queue. `Pool` is what `setup_executor` makes the executor's threads: one more than the
  nodes there are by then, of which there are none.
- In `Ping1D` of a message's fields the distance and the scan length are told apart;
  the device answers as `tools/ping1d-simulation.py` does. The line carries real frames
  (checksum, lengths), and a fault changes or loses one byte of them.
- In `GateVision` the masks and contours OpenCV finds are read off columns that are
  painted above and below; morphology, sizes in pixels and the aspect of a single leg's
  noise are left out. `default` (YOLO) detections are an input.
- In `FrontCamera` and `BenchTv` topics between two processes are their last message,
  as the receiver keeps no more; commands to the simulator and the master are queues.
- In `FcuSetup` a call's future is `answer`; force-arm is an arm command that may or
  may not work. Nobody else changes the mode (no pilot); `Obeys` says whether the
  FCU carries out every mode command MAVROS has accepted.

## 3. Runs

| Run | Question | Bounds |
|---|---|---|
| `mission_prequal` | Does the stack walk the prequalification plan, whatever is late, lost or restarted? | all 14 nodes once (`MaxEntries` 14 = the longest path), 2 restarts, `Latency` 1, timeouts 3–4 > 2·`Latency`; `wait_submerged`, `pass_gate`, `pass_gate_clear` and `circle_marker` complete after 1 period (`OwnTime`: 5, 7, 7 and 24 s in `marv.yaml` against timeouts of 20 to 60 s) |
| `mission_bench_tv` | A cyclic plan, where the same behaviors come back and an old completion could be mistaken for a new one, with a detour to a behavior and to a node that do not exist: is every completion credited to its visit, is every timed node left? | 8 entries (over two rounds of 3), 2 restarts, `Latency` 2, timeouts 5–6; every mission may take for ever (`AnyTime`) |
| `mission_timeout_cleanup` | *violation*: is a mission that was given up cleaned up? | the same plan and `OwnTime`, no restarts, from the node `turn` |
| `cmd_vel` | Rate limit, obstacle and rest from mission to thruster | full scale 2 with step 1 (a ramp of two steps); range 1 is near, 3 out of limits; three missions, one of them silent until the first pose and not overlaid, one (`detect_path`) with a command in some cycles only |
| `prequal` | The prequalification state machine | circle of 6 units, gate pass 2 and sprint 3 periods, timer late by up to 2, pings below, at and above both thresholds |
| `fcu_setup` | Setting the mode and arming with refused calls, lost links, stale States | 3 modes |
| `missions` | Do turns, transits, frame counters and clocks end the missions where they should? | all 15 behaviors in any order; durations of 1 to 4 periods, timer late by up to 2; counters of 2; a circle of 6 units of which 2 may be turned in a period to either side; `Horizon` 4 is the longest duration |
| `mapping` | Is everything the sensors report mapped once, and how far can a landmark move the vehicle? | 8 × 8 cells, two classes, echoes at two distances, two headings, two poses of one unit between updates (`MaxMoved`), three updates |
| `unity` | Threads of two connections and of calls in both directions: is every call numbered, found and resumed under its id, is a lost connection given up? | two connections that may be up together, two calls (two ids), one call of Unity, one topic, one thread of the executor as in the code; `MaxSent` 1 message of Unity's own on each connection, `MaxUnread` 2 on their way |
| `ping` | Does the driver publish what was measured, over a faulty line and with late answers? | frames of 10 to 20 bytes, one faulty byte (in length, id, payload or sum; `Noise` 66 is `B`) or one request of another client; reads cut the stream after 5 bytes or at its end; two measurements |
| `front_camera` | Every picture that can be painted in five columns of 32, the camera's and the simulator's way of images, smoothing | columns near each other (one cluster, one panel) and far apart (a pair); six paints: both legs, red, marker, twin halves, none; queue of 2, four images |
| `bench` | A television session from the scripts to the third and later passes | delay 3, ramp 2 and pass 9 periods stand for 2.5, 2 and 7 s of ten periods each, `ClearAfter` 3 for 1 s (the assumptions on their order, `TimingAssumption`, hold of both); ranges 1 to 5, `GateClear` 3; three modes, four sets of launch arguments |

The properties, by what they are about:

- **Pairing of commands and events.** `EventCredit`: an event the planner would
  accept comes from the mission created for this very visit. `MasterFollows`: once
  the command has arrived the master runs this visit's behavior; it idles in its launch
  behavior only when it has heard no command since its launch. `ReportedOnce`. None of these is enforced
  anywhere in the code; they follow from the plan (`WellFormedPlan`): a node and its
  followers run different behaviors, and timeouts outlast two deliveries. The first
  condition is needed because the master ignores a command for the behavior it
  already has, the second because events carry no visit.
- **The walk.** `WalksThePlan` (refinement of `PlanWalk`, which never leaves its end).
- **Progress.** `TimedNodesEnd`, `ComesToRest`.
- **The command path.** `SpeedsUpGradually`: from one message to the next no axis is
  driven harder by more than `command_smooth_step`, across missions, pauses and
  completions, with the obstacle overlay and `detect_path` excepted, where the code
  does not limit it (section 6); `BacksUp`; `DoneSettles`.
- **Prequalification.** `CrashSurfaces`, `NoSecondLap`, `SearchTimed`, `SearchEnds`.
- **FCU setup.** `ArmsAsTold`: an obedient FCU is armed in the wanted mode only
  (`ArmsInMode`), and success is reported on a State that says armed (`ReadyIsArmed`).
  `SetupEnds`.
- **Missions.** `TurnExact`: `turn_around` ends within one control period's turn of its
  target, to either side, over the seam at pi, and does not run on past it.
  `TransitFailsUnseen`: a transit fails only if no step from `min_transit_s` on saw the
  marker. `FramesInARow`: `detect_path` and `traverse_gate` end on frames in a row,
  although a gate out of sight neither counts nor resets. `TimedMissionsEnd`.
- **Mapping.** `NeverOvercounts`, `ObservedOnce`: a distance, an echo and a detection
  enter the map at most once. `CorrectionSmall`: a landmark without a rival of its
  label moves the vehicle by less than the distance up to which echoes are taken for
  the same landmark, and what it has travelled.
- **Unity endpoint.** `WaitsUnderItsId`: from its number to its answer a call is in
  `services_waiting`, under a number of its own. `QueueIsServed`: what is current has a
  sender that has not ended, whatever the order in which senders of two connections
  start and stop. `RegistryInv`: the node in the table is the one that is spun, when
  registrations overlap. `ExactOnOneConnection`: with one connection a call gets the
  contents sent for it, no node is left over, the queue is the connection's; with two
  none of this holds (section 6). `CallsAsPromised` (refinement of `UnityCalls`): to its
  callers the endpoint is a counter and at most one answer to each number, their own one
  until there is a second connection; only an answer makes a call return.
  `LostIsReleased`.
- **Ping driver.** `PingInv` (the parser's buffer fits its state after any bytes),
  `OnlyWhatWasMeasured`: one byte's fault never becomes a distance or a scan length,
  wherever the parser comes back into step. `CallbackEnds`.
- **Vision.** `AimsAtTheOpening`: a gate found by its legs is steered for between two
  legs, and two complementary legs are found as the gate among poles of other colours.
  `StaysConfident`: smoothing never brings a detection below the threshold. `BridgeInv`:
  images stay in order, the newest is never the one dropped, the second `put_nowait`
  never raises. `LastImageSeen`.
- **Bench.** `ClearsByItself`: if the simulator heard the command and is alone on its
  topic, `pass_gate` ends by its range, not by its time. `ClearedAnew`: not by a range
  of before.

Every name a bound has: `MaxEntries`, `Horizon` (beyond every timeout, so no
comparison can tell), `Latency`, `MaxRestarts`, `MaxDelay`, `MaxMoved`, `MaxSent`,
`MaxUnread`, `Optional`, `Cuts`, `Noise`, `FaultAt`, `MaxFaults`, `MaxPings`, `MaxLate`,
`MaxWire`, `MaxFrames`, `MaxTopic`. Deadlock is checked except in `mission_bench_tv`,
where `MaxEntries` cuts a plan that never ends, in `unity`, where all connections may be
closed and all callers asleep (one of the observations), and in `ping`, where the node
exits if the device does not answer its initialization.

## 4. Fairness

Weak fairness is assumed for what `rclpy.spin` and wall time guarantee: timers that
are due run, messages that have arrived are handled, time passes. The control
timer completes a mission whose duration is over (`Overdue`); in `MissionStack` nothing else
is assumed of missions (those without a duration need not complete), nor of discovery, restarts, sensors, the camera or
the operator. `SetupEnds` also assumes that MAVROS answers every call: without it
`_pending` keeps `_tick` from its own deadline for ever, which the code does not
handle.

In `UnityEndpoint` the two threads of each connection go on (`get()` has a timeout, `recv`
of a lost connection returns); of Unity, the callers and the executor nothing is assumed,
so `LostIsReleased` does not need them. In `Ping1D` time passes during a request
(`TimesOut`), and `CallbackEnds` needs nothing of the line or the device. In `FrontCamera`
the bridge's thread and timer and `f_cam_node`'s subscription go on. `BenchTv` states
safety only; that its timers fire is built into `TimePasses`, which waits for them.

`ComesToRest` is claimed for plans whose timed nodes are not on a cycle, and is
checked on such plans only. `TimedMissionsEnd` assumes that the control timer goes on
firing, nothing else.

## 5. Proofs

All theorems hold for every value of the constants that satisfies the named
assumptions (`PlanAssumption`, `LatencyAssumption`, `HorizonAssumption`,
`MasterAssumption`, `MotionAssumption`, `NoCmdAssumption`, `PathAssumption`,
`PrequalAssumption`, `FcuAssumption`, `MissionsAssumption`, `TurnAssumption`,
`MappingAssumption`, `NumberedAssumption`, `TopicsAssumption`, `BoundsAssumption`,
`NoneAssumption`, `GateVisionAssumption`, `FrontCameraAssumption`, `YoloAssumption`,
`PingAssumption`, `BenchAssumption`, `TimingAssumption`), which TLC evaluates in the runs.

**Mission stack** (`MissionStackProofs`). `TypeCorrect`, `EndHolds` and
`StandaloneIgnoresPlanner` hold for every plan. `CreditIsDue`,
`MasterFollowsPlanner`, `CommandsNeverPileUp` and `VisitReportedOnce` hold for every
well-formed plan, whatever the durations of its missions (`AnyTime` included), and rest
on `InvariantHolds`: `IInv` is inductive. Why it has the
parts it has:

- `EventCredit` alone is not inductive: a node could be entered while an event of the
  same behavior is on its way. `EventInv` says that an event of an earlier visit
  names another behavior than the current node's, *and* is bounded in time: such an
  event left the master at most `Latency` into this visit (`elapsed <= Latency +
  age`), so when the watchdog, at more than `2 * Latency`, moves to the next node, no
  event of an earlier visit is left, and the master can no longer produce one.
- That in turn needs `CommandInv`: a command on its way is as old as the visit, so no
  timeout expires before it has arrived.
- `MissionInv` says whose mission the master runs while the command is on its way,
  `HeardInv` that what the master has heard last is the current command or that one is
  on its way.

**The walk** (`MissionStackProofs`). `StackWalksThePlan`: every initial state maps to
an initial state, every step to a step of `PlanWalk` or to a stutter. The report of
the abstract walk is the event on its way; that it is the right visit's is `EventInv`.

**Command path** (`CmdVelProofs`). `PathInvariant` and `CommandsRiseGradually`, for
all missions, commands, speeds and steps. `SmoothInv` is the strengthening: on each
axis the reference `_last_cmd` equals what was last published or is 0. It needs
`SilentMission`: a mission that has returned no command has not moved the reference.
That fails for an `Intermittent` mission, which `detect_path` is: both speak of it no
further, and its commands are in the model all the same.

**Prequalification** (`PrequalProofs`). `CrashAborts`, and `SearchTakesItsTime` from
`SearchInv`, which relates the model's one clock to the time since the gate was lost.
`OneLapOnly`: `NoSecondLap` is not inductive, as it does not say which part of the turn
is in `_orbit_yaw_accum` already. `LapInv` does: the turn since the last run of
`control_loop` is the normalised difference of the headings (`NormalizeClose`), the rest
is at most the accumulated one. Two differences of one unit tell the turn between them
only if a circle is longer than their sum, hence `Circle > 3`; one unit is what the
vehicle turns at most in a control period, 0.05 s in the code. `PrequalTypes` is the
type invariant.

**FCU setup** (`DriverProofs`). `ModeEvidence`: everything `_tick` takes for
evidence of the mode is evidence, if the FCU obeys; from it `ArmedOnlyInMode`, which
with `SuccessIsArmed` gives `ArmedAsTold`; `EndsQuietly`.

**Image bridge** (`DriverProofs`). `ImagesPassInOrder`, for every queue size. `CameraInv`
strengthens `BridgeInv`: no image has a number above the last (or the next one could be out
of order), and after `get_nowait` the queue is shorter than its size: the timer only
shortens it, so the second `put_nowait` cannot be refused. The rest is about sequences:
one that is in order stays so when its first, last or some middle element leaves, unless
the middle one is its last, which it never is.

**Ping parser and driver** (`DriverProofs`). `ParserInStep`, for all streams of bytes,
faults and cuts: the bytes in the buffer, those the payload lacks and the length that the
header has declared are as many as the state says (`Parsers`). `ParserShape` alone is not
inductive: until the payload begins `left` must be what the length bytes say.
`PingTypes` adds that requests in hand are the ones a callback makes, in their order.
`FramesAreRead`: packing, parsing and unpacking agree on every message of up to 65535
bytes, byte by byte (`FrameStep`). `OneFaultIsNoticed`: a frame with any one byte behind the
length changed gives no message of a known id. A sum of two bytes suffices, as one byte
changes it by less than 256 (`OtherByteOtherSum`). The id cannot be left out of the
statement: of an unknown id the checksum is not read and stays 0, which may be the right
sum; `handle_message` sets nothing from such a message. Nor can the length be included: with a wrong length the
parser looks for `BR` anywhere, and a payload may contain a whole frame.

`MeasuredOnCleanLine` states `OnlyWhatWasMeasured` for every history in which the line
loses and changes no byte (`[][~LineFault]`), however late, cut or doubled answers are and
whatever other clients ask. `StreamInv` says that what the host has not yet made a message
of is the rest of one frame and then whole frames (`InFrame`, `Streams`), all of which tell
what the device has measured and was set to (`FramesOf`); so the parser yields such messages
only.

**Vision** (`DriverProofs`), for all images, widths and thresholds. `StaysAboveThreshold`
states `StaysConfident`: whatever OpenCV's detectors find of an image is as sure as it must
be (`CvIsSure`), YOLO is asked for nothing less (`YoloAssumption`, `conf_threshold` is the
`conf` of its call), and the weighted mean of two values of at least the threshold, rounded
down, is not below it (`SmoothingKeepsConfidence`). The marker's confidence is 0.99 whatever
the threshold is, so a threshold of 1 is excluded.

`AimsBetweenTheLegs` states `AimsAtTheOpening` for images on which every leg is at most 12 %
of the frame wide (`NarrowLegs`) and no two painted runs are so near that they are clustered
(`StandApart`); `MCImagesAssumption` has TLC check that all images of the run are such. The
first half (`CvAims`) needs the narrow legs only: a target found by legs stands on two that
are 18 % of the frame apart (`LegTarget`); each spans whole runs (`LegsSpan`), so the middle
is behind the end of the left one's first run and before the right one's last. With a wider
leg it may lie within the leg. The second half (`GateIsFound`) needs both: where runs stand
apart a cluster is of one run (`NearIsSameRun`, `ClustersByRun`), so the legs are the tall
runs, one each (`LegsByRun`); those of one colour are not split legs (`ColoursOfSolid`), so
the two that complement each other are the outermost (`GateIsOutermost`), and the area of
two legs of the frame's height is enough for the threshold (`QuotientAtLeast`). Next to
other things a leg may be clustered with them, and the detectors promise nothing.

Parsing, checksums, smoothing, merging and clustering are folds, of which the provers know
the definition only: a recursive function on sets, of indices or of boxes. `FoldExists` and
`ClustersExist` show that such a function exists, `ParseRuns`, `SumRuns`, `SmoothRuns` and
`ClustersGrow` that it goes element by element; a least counterexample stands for the
induction (`LeastOf`, `CountedTo`).

**Missions** (`MissionsProofs`). `TurnsAsFarAsItShould` and `TransitOverlooksNothing`,
from `MissionsCorrect`. Its part `TurnInv` says that the current heading and the start
heading differ by the turn made, up to one circle, and that the turn was not enough at
the last control cycle. `YawTurns` and `NormalizedTells` are the arithmetic: as long as
the turn cannot have passed the far side, the wrapped difference tells whether it is
enough. `TurnAssumption` is what this needs: the window behind the target is not
jumped over in one period. With the default target of pi and tolerance of 0.25 rad that
is 0.5 rad per 0.1 s, against a commanded 0.3 rad/s. `EndsOnARun` states `FramesInARow`. It
rests on `CountersCountRuns` (`CountInv`): what is remembered of the last cycles ends with as
many that counted as the counter says. That is inductive only with the bound on what is
remembered, and because a new mission forgets both together. `MissionsAsAssumed` ties the
step functions to the modules that leave them open: a mission that has completed stays so and
is blank until another takes its place (`CleanedUp`, `LivesOn`), which behaviors never end or
may fail is as in `MasterControl` (`Endless`, `CanFail`), and which return no command, and
when, as in `CmdVelPath` (`Commands`, `PoseStays`).

**Mapping** (`MappingProofs`). `MappingCorrect`: types, and the buffer holds nothing
from before the last update. `DistanceOnce` (with `PolarMoves`: a polar step moves no
axis by more than its length) and `EchoesCountOnce` follow from it. `CorrectsALittle` states
`CorrectionSmall`: the mean of a landmark moves towards the new echo and not past it, rounding
included (`MeanBetween`), so that the only landmark of a label is within `Match` of the echo
just entered (`SoleLandmark`), and on each axis the vehicle is taken back by less than that.

**Bench** (`BenchTvProofs`). `EndsByRange` and `EndsByItsOwnRange` state `ClearsByItself` and
`ClearedAnew` for all detections, ranges and times that satisfy `TimingAssumption`. Both
rest on `BenchInv` (`CachesKeepTime`). `FreshInv`: a simulated range of before is replaced
in `ardusub_node`'s cache in the first period of a pass and at the master in the second.
`BoostInv`: from the end of the ramp on the range shows the gate behind the vehicle, first in
the cache, a period later at the master, and a period later the pass has ended. Timers of one
period run in any order, so each says which of them have run in this period (`fired`).

**Unity endpoint** (`UnityProofs`). For any number of connections, calls, topics and
threads. `RegisteredNodesAreSpun` (with the types) rests on `NodeInv`: two topics never
share a node and nodes are numbered upwards, so what a registration retires is nobody
else's. `CallsWaitUnderTheirIds` rests on `CallInv`: every id is below `next_srv_id`, so
a new one is unused. `CurrentQueueIsServed` needs that a connection has no thread before
it is accepted (`Unaccepted`). `OneConnectionIsExact` is about what Unity has sent and
nobody has read: `InboxOne` says that announcements and contents alternate in it, starting
with the contents of what `pending_srv_id` holds; so whatever is paired is paired rightly,
and the id found in `services_waiting` is the one the contents answer. `LiveOne` and
`SenderOne` are its other parts. `CallsKeepThePromise`: under the mapping `Promise` every
step of the endpoint is one of `UnityCalls` or a stutter. A call is numbered by `Call`,
which refuses it without a queue; `Enqueue` may fail it; the reader's `Answer` is its
answer, by `CallInv` the first and by `InboxOne` its own; `Accept` of a second connection
ends the promise of the own answer, which by `SingleBefore` held until then. No conjunct
of `ExactOnOneConnection` holds with a second connection.

Only model-checked:

- all liveness (`TimedNodesEnd`, `ComesToRest`, `BacksUp`, `DoneSettles`, `SearchEnds`,
  `SetupEnds`, `TimedMissionsEnd`, `LostIsReleased`, `CallbackEnds`, `LastImageSeen`):
  fairness and ENABLED are out of the prover's reach;
- `OnlyWhatWasMeasured` on a line with faults: that it holds for one fault, wherever the run
  has it, is what the run shows. Of arbitrary bytes it is false, a 16 bit sum may fit by
  chance; after a fault in the length it depends on what the payloads contain.
  `OneFaultIsNoticed` is the part that holds of every message, `MeasuredOnCleanLine` the
  one without faults;
- the violation.

## 6. Findings and observations

The finding has a run that shows it (`findings` in `PROJECT.json`): a plan that ends by a
timeout leaves its mission running and uncleaned. It takes a mission that outlasts the
timeout of a node without a timeout edge. In `prequal_plan` that is `turn` alone: the other
nodes without such an edge run missions that complete by their own time, which the master
cleans up, but `turn_around` without a pose turns on for ever (`turn_around.py:21`). The
run starts in `turn` to show it shortly; from `wait`, the plan's start, TLC finds it in the
same node, and without that node the property holds.

Observations without a run:

- *Planner.* `default` is not looked at on a timeout (`mission_planner_node.py:110`), so
  the default edges of `bench_plan.yaml:12`, `:19`, `:26` and `competition_plan.yaml:19`,
  of behaviors that do not fail, can never be taken.
- *Command path.* `return_home`, `wait_submerged` and `turn_around` have no obstacle
  overlay (`INSTRUCTIONS.md:237` promises an emergency stop). Without `enable_control`
  nothing is published, so the last command stays on the thrusters
  (`INSTRUCTIONS.md:366` expects zeros). The overlay is merged after the rate limit, so
  the command jumps when the overlay begins and ends. It also jumps in `detect_path`:
  while no path is seen zero is published but `_last_cmd` stays
  (`master_control_node.py:161`), so that a path seen again is followed at the former
  speed at once.
- *Master.* `_activate_behavior` cleans up the running mission before it knows that the
  new behavior exists, and goes on with the cleaned-up mission (`UnknownBehavior`). Without planner mode a
  completed mission is replaced by `hold` in the same cycle, and commands on the topic are
  ignored (`StandaloneIgnoresPlanner`, proved; no run has planner mode off).
- *Missions.* They step on the last detection however old: a gate seen before a turn
  completes `find_return_gate` after it. Frame counters count control cycles, not
  camera frames. A cycle without a gate leaves `traverse_gate`'s counter as it was.
  `pass_gate` ends after one second if the Ping looks through the gate.
  `arrive_radius_m` is read and not used: `return_home` compares with a constant. With
  `use_timed_transit` false, as in `marv.yaml`, a transit never fails and without a pose
  never ends.
- *Mapping.* `nearest_landmark` looks for the landmark nearest to the *vehicle*, not for
  the one the echo was entered under: with two of a label within 1.5 m of the vehicle
  the pose is corrected from the wrong one (hence the condition of `CorrectionSmall`).
  Of several poses between two updates only the last distance is integrated
  (`sensor_buffer.py:61` overwrites; `:54` says "since previous update"). The distance is
  integrated unsigned, along the heading at update time; what was
  buffered before the reference heading is integrated at the first update. `int()`
  rounds towards zero, so echoes up to a cell behind the origin fall into cell 0.
  Means of landmarks may drift together without being merged.
- *Prequal, FCU.* `APPROACH_GATE` and `APPROACH_MARKER` of `prequal_node` have no
  timeout; its heading error is not wrapped (`prequal_node.py:257`). The orbit sums
  absolute changes of heading (`:336`): swinging to and fro counts as one. The FCU setup trusts `_mode_sent` and may
  report ready in another mode, if the FCU does not carry out what MAVROS accepted.
- *Bench.* `run_bench_range_sim.sh:15` kills the bridge since "bench sim replaces it", and
  `run_bench_tv.sh` starts it again two seconds later on the same topic (or, if sourcing
  takes longer, has it killed): real and simulated ranges then alternate. Without a gate
  in the picture the simulated range is 3.0 m, more than `gate_clear_m`, so `pass_gate`
  ends after a second; YOLO's detections have no area and give the far range. The
  simulator misses a command sent before discovery. `use_ping_driver:=true` with the
  default `ping_range_topic` leaves `ardusub_node` with a topic nobody publishes. Bridge
  and simulator give old values new stamps. A `wait_heartbeat` that ran into its timeout
  is taken for a heartbeat.
- *Unity endpoint.* `pending_srv_id` belongs to the server: with two connections the
  contents of one may be taken for the other's. A wake-up before the wait is lost and the
  caller sleeps for ever; with the executor's one thread (its tables are empty when it is
  set up) that stops every callback, although `tcp_sender.py:108` says other threads go
  on. When a newer connection ends, the queue is `None` while the older one is up. An
  unknown id is a `KeyError` and leaves `pending_srv_id` set. Overlapping registrations of
  a topic leave a node behind. A second call of a ROS service overwrites the future of
  the first (`service.py:63`); the model has one call of each service at a time.
- *Ping driver.* An answer that comes after its request timed out is taken for the
  next one's. `set_param_callback` reports success whatever the device says.
  `update_input_buffer` (`device.py:92`) does not exist. `_input_buffer` belongs to the
  class. After `B B` the parser drops both, and a corrupted length swallows up to 65535
  bytes.
- *Vision.* Smoothing of x and y has no effect: `f_cam_node` overwrites them from the
  box (`target_tracker.py:5`: "Smooth x, y, area, and confidence"). The tracker never
  forgets. Raising `conf_threshold` at run time leaves smoothed values below it. When
  simulated images stop, the last one is looked at for ever. The marker is red to the red
  mask, so a pole and a leg, or two red poles, may be taken for the gate
  (`prequal_cv.py:466`); in the blue-screen scene the middle may lie within a wide leg.
- *Operator tools.* `demo_replay`, teleop, the master and `prequal_node` may all publish
  `/cmd_vel`; nothing arbitrates. `gz_spawn_with_retry.py:105` asks again for a vehicle
  that is slow to appear.

## 7. Not modelled, and why

Masks, morphology and contours of OpenCV, neural networks, controllers' gains and the
vehicle's dynamics: not discrete, given as inputs. Launch files but
`prequal_bringup`, shell scripts but the bench's, world generation and data set tools:
text and process start-up. The position estimate and the HIL bridge: they copy messages.
`setpoint_velocity` and `log_only` back ends. `bench_plan` and `competition_plan`: chains
of nodes and edges of the kinds that the other plans have. Ping360: vendored, used by no
node. Saving and loading maps (`map_io.py`) and the engine's operations that nothing
calls. Unity's discovery of topics and the serialization of messages. The downward camera
(`d_cam_node`), YOLO only. Teleop, recorder and replay: next in the plan.

## 8. Plan

1. Core (done): mission stack, command path, prequalification, FCU setup; their
   invariants and the refinement proved.
2. Missions (done): all step functions, their frame counters and times; all safety
   properties proved, and that they are missions as `MasterControl` and `CmdVelPath`
   assume them.
3. Mapping (done): buffer, dead reckoning, grid, landmarks, correction; all properties
   proved.
4. Unity TCP endpoint (done): readers, senders, calls both ways, registrations, and the
   abstract specification of what callers see; all its safety properties and the
   refinement are proved.
5. Ping driver and parser, front camera and image bridge, television bench (done). Left:
   demo recorder and replay, spawn retry, map files, downward camera.
6. Proofs (done): every safety property is proved, with the hypotheses of section 5.
