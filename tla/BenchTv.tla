------------------------------- MODULE BenchTv --------------------------------
(***************************************************************************)
(* A session before a television (scripts/run_bench_tv.sh): the gate is a   *)
(* video, and bench_range_sim.py makes a range of how big it looks, which   *)
(* ends pass_gate in place of the Ping.  prequal_bringup.launch.py starts   *)
(* the rest of the stack, among it the node that publishes the real Ping,   *)
(* on the same topic by default.  A range goes from its publisher through   *)
(* ardusub_node's cache to the master; a command of the planner goes to the *)
(* master and to the simulator, each in its own time.                       *)
(*                                                                          *)
(* Time passes in periods in which every 10 Hz timer fires at least once.   *)
(* Ranges are integers; one outside its message's own limits is NoRange.    *)
(***************************************************************************)
EXTENDS Integers, Sequences, FiniteSets, FiniteSetsExt

CONSTANTS
  Arguments,            \* the launch arguments of the sessions
  Modes,                \* the simulator's modes in the sessions
  Sightings,            \* what /f_cam/detections may carry
  Readings,             \* what a real Ping may report
  NoRange, None,        \* no usable range; Python's None
  FarRange, CloseRange, \* far_range_m, close_range_m
  AreaFar, AreaClose,   \* area_far, area_close
  NoDetection,          \* no_detection_range_m
  FixedRange,           \* fixed_range_m
  RampStart, RampEnd,   \* ramp_start_m, ramp_end_m
  Cleared,              \* pass_gate_cleared_range_m
  ClearDelay, ClearRamp,\* pass_gate_clear_delay_s, pass_gate_clear_ramp_s
  Low, High,            \* the limits of _clamp
  GateClear,            \* gate_clear_m of pass_gate
  ClearAfter,           \* min_elapsed_s of is_gate_cleared
  PassTime,             \* duration_s of pass_gate
  Horizon               \* bound: a clock beyond this tells nothing more

Lidar == "/mavros/distance_sensor/lidar"
Ping1d == "/ping1d/range"

(* What parse_detection_string makes of an entry: whether its class is one  *)
(* of gate_classes, whether its confidence reaches conf_min, and its area,  *)
(* 0 if it has none, as YOLO's detections have not.                         *)
Detection == [gate : BOOLEAN, sure : BOOLEAN, area : Nat]

(* The launch arguments that choose processes and topics.                   *)
DefaultArguments ==
  [use_mavros |-> TRUE, use_ardusub |-> TRUE, use_vision |-> TRUE, use_mapping |-> TRUE,
   use_ping_driver |-> FALSE, ping_range_topic |-> Lidar]

ASSUME BenchAssumption ==
  /\ \A v \in Sightings : v \subseteq Detection /\ IsFiniteSet(v)
  /\ Arguments \subseteq [use_mavros : BOOLEAN, use_ardusub : BOOLEAN,
                          use_vision : BOOLEAN, use_mapping : BOOLEAN,
                          use_ping_driver : BOOLEAN, ping_range_topic : {Lidar, Ping1d}]
  /\ Modes \subseteq {"vision", "ramp", "fixed"}
  /\ {FarRange, CloseRange, AreaFar, AreaClose, NoDetection, FixedRange, RampStart, RampEnd,
      Cleared, Low, High, GateClear} \subseteq Int
  /\ {ClearDelay, ClearRamp, ClearAfter, PassTime, Horizon} \subseteq Nat
  /\ Low <= CloseRange /\ CloseRange < GateClear /\ GateClear < Cleared
  /\ CloseRange < FarRange /\ Cleared <= High
  /\ AreaFar < AreaClose
  /\ NoRange \notin Int
  /\ None \notin Int \cup {NoRange, "find_gate", "gate_approach"}
  /\ ClearRamp > 0

(* A stale range has left the caches when pass_gate begins to look at it,   *)
(* and the simulated one is there before pass_gate's time is up.            *)
ASSUME TimingAssumption ==
  /\ ClearAfter >= 3 /\ ClearAfter < PassTime
  /\ ClearDelay + ClearRamp + 4 <= PassTime
  /\ PassTime <= Horizon

VARIABLES
  args,         \* of prequal_bringup.launch.py
  launched,     \* it has been launched
  sim,          \* run_bench_range_sim.sh: "script", then the node: "up", "matched"
  mode,         \* _mode
  vision,       \* _vision_data
  simBehavior,  \* _behavior
  simSince,     \* periods since _behavior_since
  bridge,       \* mavlink_ping_bridge: "off", or its thread "connecting", "reading"
  latest,       \* _latest of the bridge
  cache,        \* _forward_range of ardusub_node
  range,        \* the last message of /sensors/range_forward at the master
  node,         \* the planner's node; None before the launch
  toMaster,     \* set_behavior on its way to the master
  toSim,        \* set_behavior on its way to the simulator
  mission,      \* the behavior of the master's mission, "done" when it has ended
  elapsed,      \* elapsed_s of pass_gate
  fired         \* the timers that have fired in this period (not in the code)

setup == <<args, launched, mode>>
simulator == <<vision, simBehavior, simSince>>
ping == <<bridge, latest>>
planner == <<node, toMaster, toSim>>
master == <<mission, elapsed>>
vars == <<setup, sim, simulator, ping, cache, range, planner, master, fired>>

(* Which processes prequal_bringup.launch.py starts.                        *)
Launched(a) ==
  {"master_control_node", "mission_planner_node"}
  \cup (IF a.use_ping_driver THEN {"ping1d_node"} ELSE {"mavlink_ping_bridge"})
  \cup (IF a.use_mavros THEN {"mavros", "fcu_setup_node"} ELSE {})
  \cup (IF a.use_ardusub THEN {"ardusub_node"} ELSE {})
  \cup (IF a.use_vision THEN {"f_cam_node"} ELSE {})
  \cup (IF a.use_mapping THEN {"mapping_node"} ELSE {})

Runs(process) == launched /\ process \in Launched(args)

(* A range message; fresh: published since the master's mission began       *)
(* (not in the code).                                                       *)
Message(r, source) == [range |-> r, source |-> source, fresh |-> TRUE]
NoMessage == [range |-> NoRange, source |-> "none", fresh |-> FALSE]

Init ==
  /\ args \in Arguments
  /\ launched = FALSE
  /\ sim = "script"
  /\ mode \in Modes
  /\ vision = {}
  /\ simBehavior = ""
  /\ simSince = 0
  /\ bridge = "off"
  /\ latest = None
  /\ cache = NoMessage
  /\ range = NoMessage
  /\ node = None
  /\ toMaster = <<>>
  /\ toSim = <<>>
  /\ mission = "hold"
  /\ elapsed = 0
  /\ fired = {}
-----------------------------------------------------------------------------
(* The scripts.  run_bench_tv.sh starts run_bench_range_sim.sh and, two     *)
(* seconds later, the launch; nothing makes the one wait for the other.     *)

(* run_bench_range_sim.sh: a bridge that runs by now is killed.             *)
SimStarts ==
  /\ sim = "script"
  /\ sim' = "up"
  /\ bridge' = "off"
  /\ UNCHANGED <<setup, simulator, latest, cache, range, planner, master, fired>>

Behavior(n) ==
  CASE n = "find_gate" -> "find_gate"
    [] n = "gate_approach" -> "traverse_gate"
    [] n = "gate_pass" -> "pass_gate"

(* _enter_node; a simulator that is not yet matched misses the command.     *)
EnterNode(n) ==
  /\ node' = n
  /\ toMaster' = Append(toMaster, Behavior(n))
  /\ toSim' = IF sim = "matched" THEN Append(toSim, Behavior(n)) ELSE toSim

Launch ==
  /\ ~launched
  /\ launched' = TRUE
  /\ bridge' = IF "mavlink_ping_bridge" \in Launched(args) THEN "connecting" ELSE "off"
  /\ EnterNode("find_gate")
  /\ UNCHANGED <<args, mode, sim, simulator, latest, cache, range, master, fired>>

SimDiscovered ==
  /\ sim = "up" /\ launched
  /\ sim' = "matched"
  /\ UNCHANGED <<setup, simulator, ping, cache, range, planner, master, fired>>
-----------------------------------------------------------------------------
(* bench_range_sim.py                                                       *)

VisionCallback(v) ==
  /\ sim # "script" /\ Runs("f_cam_node")
  /\ vision' = v
  /\ UNCHANGED <<setup, sim, simBehavior, simSince, ping, cache, range, planner,
                 master, fired>>

BehaviorCallback ==
  /\ toSim # <<>>
  /\ toSim' = Tail(toSim)
  /\ simBehavior' = Head(toSim)
  /\ simSince' = IF Head(toSim) # simBehavior THEN 0 ELSE simSince
  /\ UNCHANGED <<setup, sim, vision, ping, cache, range, node, toMaster, master, fired>>

(* area_to_range, rounded up.                                               *)
AreaToRange(area) ==
  IF area <= AreaFar THEN FarRange
  ELSE IF area >= AreaClose THEN CloseRange
  ELSE FarRange - ((area - AreaFar) * (FarRange - CloseRange)) \div (AreaClose - AreaFar)

BestGateArea ==
  LET gates == {d \in vision : d.gate /\ d.sure}
  IN  IF gates = {} THEN None ELSE Max({d.area : d \in gates})

VisionRange == IF BestGateArea = None THEN NoDetection ELSE AreaToRange(BestGateArea)

(* The triangle from far to close and back takes every value between.       *)
RampRange == RampEnd .. RampStart

(* Mutant: the behavior's name is not among those listed. *)
PassGateBoostUnlisted(base) ==
  IF simBehavior # "pass_gate_clear" \/ simSince < ClearDelay THEN base
  ELSE base + (Min({ClearRamp, simSince - ClearDelay}) * Max({Cleared - base, 0}))
                \div ClearRamp

PassGateBoost(base) ==
  IF simBehavior \notin {"pass_gate", "pass_gate_clear"} \/ simSince < ClearDelay THEN base
  ELSE base + (Min({ClearRamp, simSince - ClearDelay}) * Max({Cleared - base, 0}))
                \div ClearRamp

Clamp(r) == Max({Low, Min({High, r})})

ComputeRange ==
  CASE mode = "fixed" -> {Clamp(FixedRange)}
    [] mode = "ramp" -> {Clamp(r) : r \in RampRange}
    [] mode = "vision" -> {Clamp(PassGateBoost(VisionRange))}

(* What ardusub_node's range_cb makes of a message on a topic: it keeps the *)
(* last one of the topic it listens to.                                     *)
Receives(topic, message) ==
  cache' = IF Runs("ardusub_node") /\ topic = args.ping_range_topic THEN message ELSE cache

Publish ==
  /\ sim # "script"
  /\ \E r \in ComputeRange : Receives(Lidar, Message(r, "sim"))
  /\ fired' = fired \cup {"sim"}
  /\ UNCHANGED <<setup, sim, simulator, ping, range, planner, master>>
-----------------------------------------------------------------------------
(* mavlink_ping_bridge.py: a thread reads, a timer publishes.               *)

(* wait_heartbeat comes back without one after its timeout, and is not      *)
(* asked; an exception leads back to connecting.                            *)
BridgeConnects ==
  /\ bridge = "connecting"
  /\ bridge' = "reading"
  /\ UNCHANGED <<setup, sim, simulator, latest, cache, range, planner, master, fired>>

BridgeFails ==
  /\ bridge = "reading"
  /\ bridge' = "connecting"
  /\ UNCHANGED <<setup, sim, simulator, latest, cache, range, planner, master, fired>>

BridgeReads(r) ==
  /\ bridge = "reading"
  /\ latest' = r
  /\ UNCHANGED <<setup, sim, simulator, bridge, cache, range, planner, master, fired>>

PublishLatest ==
  /\ bridge # "off"
  /\ latest # None
  /\ Receives(args.ping_range_topic, Message(latest, "bridge"))
  /\ UNCHANGED <<setup, sim, simulator, ping, range, planner, master, fired>>

(* ping1d_node publishes on its own topic.                                  *)
DriverPublishes(r) ==
  /\ Runs("ping1d_node")
  /\ Receives(Ping1d, Message(r, "driver"))
  /\ UNCHANGED <<setup, sim, simulator, ping, range, planner, master, fired>>
-----------------------------------------------------------------------------
(* ardusub_node, the master and the planner.                                *)

(* publish_forward_range and the master's range_callback.                   *)
PublishForwardRange ==
  /\ Runs("ardusub_node")
  /\ range' = cache
  /\ fired' = fired \cup {"ardusub"}
  /\ UNCHANGED <<setup, sim, simulator, ping, cache, planner, master>>

(* A behavior is activated: what the caches hold now is from before.        *)
SetBehaviorCallback ==
  /\ toMaster # <<>>
  /\ toMaster' = Tail(toMaster)
  /\ mission' = Head(toMaster)
  /\ elapsed' = 0
  /\ cache' = [cache EXCEPT !.fresh = FALSE]
  /\ range' = [range EXCEPT !.fresh = FALSE]
  /\ UNCHANGED <<setup, sim, simulator, ping, node, toSim, fired>>

(* Mutant: a range is good from the start. *)
IsGateClearedAtOnce == range.range # NoRange /\ range.range >= GateClear

IsGateCleared ==
  range.range # NoRange /\ elapsed >= ClearAfter /\ range.range >= GateClear

(* control_loop with pass_gate: its event brings the planner to the next    *)
(* node.                                                                    *)
PassGateStep ==
  /\ mission = "pass_gate"
  /\ \/ /\ IsGateCleared \/ elapsed >= PassTime
        /\ mission' = "done"
        /\ elapsed' = 0
        /\ EnterNode("gate_approach")
     \/ /\ ~IsGateCleared /\ elapsed < PassTime
        /\ UNCHANGED <<master, planner>>
  /\ fired' = fired \cup {"master"}
  /\ UNCHANGED <<setup, sim, simulator, ping, cache, range>>

(* control_loop with another mission, or none: nothing is to be seen of it  *)
(* here but that it ends, for which see Advance.                            *)
OtherStep ==
  /\ launched /\ mission # "pass_gate"
  /\ fired' = fired \cup {"master"}
  /\ UNCHANGED <<setup, sim, simulator, ping, cache, range, planner, master>>

(* find_gate and traverse_gate end at any time, by their success or the     *)
(* node's timeout, which lead to the same node; so may, at once, the next.  *)
Advance ==
  /\ node \in {"find_gate", "gate_approach"}
  /\ toMaster = <<>>
  /\ EnterNode(IF node = "find_gate" THEN "gate_approach" ELSE "gate_pass")
  /\ UNCHANGED <<setup, sim, simulator, ping, cache, range, master, fired>>

Timers ==
  (IF sim = "script" THEN {} ELSE {"sim"})
  \cup (IF Runs("ardusub_node") THEN {"ardusub"} ELSE {})
  \cup (IF launched THEN {"master"} ELSE {})

Later(t) == IF t < Horizon THEN t + 1 ELSE t

TimePasses ==
  /\ Timers \subseteq fired
  /\ toMaster = <<>> /\ toSim = <<>>
  /\ fired' = {}
  /\ simSince' = IF simBehavior = "" THEN 0 ELSE Later(simSince)
  /\ elapsed' = IF mission = "pass_gate" THEN Later(elapsed) ELSE elapsed
  /\ UNCHANGED <<setup, sim, vision, simBehavior, ping, cache, range, planner, mission>>

Next ==
  \/ SimStarts \/ Launch \/ SimDiscovered
  \/ \E v \in Sightings : VisionCallback(v)
  \/ BehaviorCallback
  \/ Publish
  \/ BridgeConnects \/ BridgeFails \/ PublishLatest
  \/ \E r \in Readings : BridgeReads(r) \/ DriverPublishes(r)
  \/ PublishForwardRange
  \/ SetBehaviorCallback
  \/ PassGateStep \/ OtherStep \/ Advance
  \/ TimePasses

Spec == Init /\ [][Next]_vars
-----------------------------------------------------------------------------
(* The simulator "auto-clears after a short delay so the mission advances   *)
(* through the gate" (bench_range_sim.py:6), however near the television    *)
(* shows the gate: if it heard the command, and nobody else publishes where *)
(* it does, pass_gate ends by the range before its time is up.              *)
AloneInTime ==
  /\ sim = "matched" /\ mode = "vision"
  /\ Runs("ardusub_node") /\ args.ping_range_topic = Lidar
  /\ bridge = "off"
  /\ simBehavior = "pass_gate" /\ simSince + 1 >= elapsed

ClearsByItself ==
  mission = "pass_gate" /\ AloneInTime => elapsed < PassTime

(* A range that ends a pass is one of this pass: what the simulator showed  *)
(* at the end of the pass before, and what the caches of ardusub_node and   *)
(* the master still hold of it, does not end the next one, although the     *)
(* approach between the two may take no time.                               *)
ClearedAnew ==
  [][mission = "pass_gate" /\ mission' = "done" /\ elapsed < PassTime
       /\ range.source = "sim" => range.fresh]_vars
==============================================================================
