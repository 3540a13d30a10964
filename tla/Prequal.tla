------------------------------ MODULE Prequal --------------------------------
(***************************************************************************)
(* prequal_node.py: the state machine of control_loop (20 Hz) and the      *)
(* sensor callbacks that write what it reads, one at a time under          *)
(* rclpy.spin.  Headings are integers modulo Circle, times count control   *)
(* periods.                                                                *)
(***************************************************************************)
EXTENDS Integers

CONSTANTS
  Circle,         \* heading units in 2*pi; a unit is less than a third of it
  GateClearance,  \* gate_clearance_time
  MaxSprint,      \* max_sprint_time
  CrashDistance,  \* crash_distance
  OrbitRadius,    \* orbit_radius
  Pings,          \* the valid ranges the Ping may report
  NoPing,         \* ping_valid is still False
  MaxDelay        \* bound: control periods between two runs of control_loop

ASSUME PrequalAssumption ==
  /\ Circle \in Nat /\ Circle > 3
  /\ GateClearance \in Nat
  /\ MaxSprint \in Nat
  /\ CrashDistance \in Int
  /\ OrbitRadius \in Int
  /\ Pings \subseteq Int
  /\ NoPing \notin Int
  /\ MaxDelay \in Nat \ {0}

States == {"APPROACH_GATE", "BLOW_THROUGH", "SPRINT_AND_SEARCH",
           "APPROACH_MARKER", "ORBIT_MARKER", "SURFACE"}

VARIABLES
  state,           \* _state
  gateVisible,     \* gate_visible
  gateWasVisible,  \* _gate_was_visible
  markerVisible,   \* marker_visible
  ping,            \* ping_distance
  yaw,             \* current_yaw
  elapsed,         \* periods since _blow_through_start or _sprint_start
  orbitYaw,        \* _orbit_yaw_accum
  orbitPrev,       \* _orbit_prev_yaw
  turned,          \* net turn since the orbit began (not in the code)
  passed,          \* periods since the gate was lost (not in the code)
  drive            \* the last /cmd_vel: "ahead", "orbit", "up", "none" yet

sensors == <<gateVisible, markerVisible, ping, yaw, turned>>
vars == <<sensors, state, gateWasVisible, elapsed, passed, orbitYaw, orbitPrev,
          drive>>

Horizon == GateClearance + MaxSprint + MaxDelay

PrequalTypeOK ==
  /\ state \in States
  /\ gateVisible \in BOOLEAN
  /\ gateWasVisible \in BOOLEAN
  /\ markerVisible \in BOOLEAN
  /\ ping \in Pings \cup {NoPing}
  /\ yaw \in 0 .. Circle - 1
  /\ elapsed \in 0 .. Horizon
  /\ orbitYaw \in Nat
  /\ orbitPrev \in 0 .. Circle - 1
  /\ turned \in Int
  /\ passed \in 0 .. Horizon + 1
  /\ drive \in {"none", "ahead", "orbit", "up"}

Init ==
  /\ state = "APPROACH_GATE"
  /\ gateVisible = FALSE
  /\ gateWasVisible = FALSE
  /\ markerVisible = FALSE
  /\ ping = NoPing
  /\ yaw = 0
  /\ elapsed = 0
  /\ orbitYaw = 0
  /\ orbitPrev = 0
  /\ turned = 0
  /\ passed = 0
  /\ drive = "none"
-----------------------------------------------------------------------------
(* The sensor callbacks.                                                   *)

(* front_cam_callback looks for the gate or for the marker, by the state.  *)
FrontCamCallback ==
  /\ \/ /\ state = "APPROACH_GATE"
        /\ gateVisible' \in BOOLEAN
        /\ UNCHANGED markerVisible
     \/ /\ state \in {"SPRINT_AND_SEARCH", "APPROACH_MARKER", "ORBIT_MARKER"}
        /\ markerVisible' \in BOOLEAN
        /\ UNCHANGED gateVisible
  /\ UNCHANGED <<state, gateWasVisible, ping, yaw, elapsed, passed, orbitYaw,
                 orbitPrev, turned, drive>>

(* _update_ping_distance, for a range it does not drop. *)
PingCallback(range) ==
  /\ ping' = range
  /\ UNCHANGED <<state, gateVisible, gateWasVisible, markerVisible, yaw, elapsed,
                 passed, orbitYaw, orbitPrev, turned, drive>>

(* _normalize_angle *)
NormalizeAngle(angle) ==
  LET a == angle % Circle IN IF 2 * a > Circle THEN a - Circle ELSE a

(* imu_callback.  The vehicle turns slowly: between two control periods by *)
(* one unit either way.                                                    *)
ImuCallback(turn) ==
  LET heading == (yaw + turn) % Circle IN
  /\ state = "ORBIT_MARKER" => NormalizeAngle(heading - orbitPrev) \in -1 .. 1
  /\ yaw' = heading
  /\ turned' = IF state = "ORBIT_MARKER" THEN turned + turn ELSE turned
  /\ UNCHANGED <<state, gateVisible, gateWasVisible, markerVisible, ping, elapsed,
                 passed, orbitYaw, orbitPrev, drive>>
-----------------------------------------------------------------------------
(* control_loop, one action per state.                                     *)

Abs(v) == IF v < 0 THEN -v ELSE v

(* Bounds: neither clock counts on beyond the longest pass and search. *)
Longer(dt) == IF passed + dt > Horizon THEN Horizon + 1 ELSE passed + dt
Later(dt) == IF elapsed + dt > Horizon THEN Horizon ELSE elapsed + dt

(* Mutant: the failsafe forgets the approach to the marker. *)
CrashAheadEarly ==
  /\ state \notin {"APPROACH_MARKER", "ORBIT_MARKER", "SURFACE"}
  /\ ping # NoPing
  /\ ping < CrashDistance

(* _check_ping_failsafe *)
CrashAhead ==
  /\ state \notin {"ORBIT_MARKER", "SURFACE"}
  /\ ping # NoPing
  /\ ping < CrashDistance

Failsafe ==
  /\ CrashAhead
  /\ state' = "SURFACE"
  /\ drive' = "up"
  /\ UNCHANGED <<gateWasVisible, elapsed, passed, orbitYaw, orbitPrev, sensors>>

ApproachGate ==
  /\ state = "APPROACH_GATE"
  /\ drive' = "ahead"
  /\ gateWasVisible' = (gateVisible \/ gateWasVisible)
  /\ \/ /\ ~gateVisible /\ gateWasVisible
        /\ elapsed' = 0
        /\ passed' = 0
        /\ state' = "BLOW_THROUGH"
     \/ /\ gateVisible \/ ~gateWasVisible
        /\ UNCHANGED <<state, elapsed, passed>>
  /\ UNCHANGED <<orbitYaw, orbitPrev, sensors>>

(* Mutant: the sprint inherits the start of the pass. *)
BlowThroughKeepsStart(dt) ==
  /\ state = "BLOW_THROUGH"
  /\ drive' = "ahead"
  /\ elapsed' = Later(dt)
  /\ passed' = Longer(dt)
  /\ state' = IF Later(dt) >= GateClearance THEN "SPRINT_AND_SEARCH" ELSE state
  /\ UNCHANGED <<gateWasVisible, orbitYaw, orbitPrev, sensors>>

BlowThrough(dt) ==
  /\ state = "BLOW_THROUGH"
  /\ drive' = "ahead"
  /\ passed' = Longer(dt)
  /\ \/ /\ Later(dt) >= GateClearance
        /\ elapsed' = 0
        /\ state' = "SPRINT_AND_SEARCH"
     \/ /\ Later(dt) < GateClearance
        /\ elapsed' = Later(dt)
        /\ UNCHANGED state
  /\ UNCHANGED <<gateWasVisible, orbitYaw, orbitPrev, sensors>>

(* Mutant: the time-out is only looked at while the marker is in view. *)
SprintNoTimeout(dt) ==
  /\ state = "SPRINT_AND_SEARCH"
  /\ drive' = "ahead"
  /\ elapsed' = Later(dt)
  /\ passed' = Longer(dt)
  /\ state' = IF markerVisible THEN "APPROACH_MARKER" ELSE state
  /\ UNCHANGED <<gateWasVisible, orbitYaw, orbitPrev, sensors>>

SprintAndSearch(dt) ==
  /\ state = "SPRINT_AND_SEARCH"
  /\ drive' = "ahead"
  /\ elapsed' = Later(dt)
  /\ passed' = Longer(dt)
  /\ \/ markerVisible /\ state' = "APPROACH_MARKER"
     \/ ~markerVisible /\ Later(dt) >= MaxSprint /\ state' = "SURFACE"
     \/ ~markerVisible /\ Later(dt) < MaxSprint /\ UNCHANGED state
  /\ UNCHANGED <<gateWasVisible, orbitYaw, orbitPrev, sensors>>

MarkerInReach == ping # NoPing /\ ping <= OrbitRadius

(* The net turn is counted from here. *)
ApproachMarker ==
  /\ state = "APPROACH_MARKER"
  /\ drive' = "ahead"
  /\ \/ /\ MarkerInReach
        /\ orbitYaw' = 0
        /\ orbitPrev' = yaw
        /\ turned' = 0
        /\ state' = "ORBIT_MARKER"
     \/ /\ ~MarkerInReach
        /\ UNCHANGED <<orbitYaw, orbitPrev, turned, state>>
  /\ UNCHANGED <<gateVisible, gateWasVisible, markerVisible, ping, yaw, elapsed, passed>>

(* Mutant: turns of either sense cancel out. *)
OrbitMarkerSigned ==
  LET accum == orbitYaw + NormalizeAngle(yaw - orbitPrev) IN
  /\ state = "ORBIT_MARKER"
  /\ drive' = "orbit"
  /\ orbitYaw' = accum
  /\ orbitPrev' = yaw
  /\ state' = IF accum >= Circle THEN "SURFACE" ELSE state
  /\ UNCHANGED <<gateWasVisible, elapsed, passed, sensors>>

OrbitMarker ==
  LET accum == orbitYaw + Abs(NormalizeAngle(yaw - orbitPrev)) IN
  /\ state = "ORBIT_MARKER"
  /\ drive' = "orbit"
  /\ orbitYaw' = accum
  /\ orbitPrev' = yaw
  /\ state' = IF accum >= Circle THEN "SURFACE" ELSE state
  /\ UNCHANGED <<gateWasVisible, elapsed, passed, sensors>>

Surface ==
  /\ state = "SURFACE"
  /\ drive' = "up"
  /\ UNCHANGED <<state, gateWasVisible, elapsed, passed, orbitYaw, orbitPrev, sensors>>

ControlLoop ==
  \/ Failsafe
  \/ /\ ~CrashAhead
     /\ \/ ApproachGate
        \/ \E dt \in 1 .. MaxDelay : BlowThrough(dt) \/ SprintAndSearch(dt)
        \/ ApproachMarker
        \/ OrbitMarker
        \/ Surface

Next ==
  \/ ControlLoop
  \/ FrontCamCallback
  \/ \E range \in Pings : PingCallback(range)
  \/ \E turn \in {-1, 1} : ImuCallback(turn)

Spec == Init /\ [][Next]_vars

(* The timer of control_loop never stops; no sensor owes a message.        *)
FairSpec == Spec /\ WF_vars(ControlLoop)
-----------------------------------------------------------------------------
BeforeOrbit == States \ {"ORBIT_MARKER", "SURFACE"}

(* Before the orbit, whatever the state in which a reading within          *)
(* crash_distance arrived: as long as it stands, control_loop does nothing *)
(* but abort the run to the surface, and surfacing is final.               *)
CrashSurfaces ==
  [][/\ state \in BeforeOrbit /\ ping # NoPing /\ ping < CrashDistance =>
          \/ state' = "SURFACE" /\ drive' = "up"
          \/ UNCHANGED <<state, gateWasVisible, elapsed, drive>>
     /\ state = "SURFACE" => state' = "SURFACE" /\ drive' \in {drive, "up"}]_vars

(* The search is given up neither early nor late: the gate pass takes      *)
(* gate_clearance_time, the sprint max_sprint_time, each from its own      *)
(* beginning and each longer by at most one late timer.                    *)
SearchTimed ==
  [][/\ state' = "SPRINT_AND_SEARCH" => passed' <= GateClearance + MaxDelay + MaxSprint
     /\ state = "BLOW_THROUGH" /\ state' = "SPRINT_AND_SEARCH" => passed' >= GateClearance
     /\ state = "SPRINT_AND_SEARCH" /\ state' = "SURFACE" /\ ~CrashAhead =>
          passed' >= GateClearance + MaxSprint]_vars

(* The accumulated turn never lags behind the real one: the vehicle does   *)
(* not turn a full circle, in either sense, without surfacing.             *)
NoSecondLap ==
  state = "ORBIT_MARKER" =>
    /\ Abs(turned) <= orbitYaw + 1
    /\ Abs(turned) <= Circle

(* The gate pass and the search end by themselves.                         *)
SearchEnds ==
  state \in {"BLOW_THROUGH", "SPRINT_AND_SEARCH"}
    ~> state \in {"APPROACH_MARKER", "ORBIT_MARKER", "SURFACE"}
-----------------------------------------------------------------------------
(* Why SearchTimed holds: the one clock of the model stands for both start *)
(* stamps of the code, and never reaches its horizon.                      *)
SearchInv ==
  /\ state = "BLOW_THROUGH" =>
       /\ passed = elapsed
       /\ elapsed < GateClearance \/ elapsed = 0
  /\ state = "SPRINT_AND_SEARCH" =>
       /\ elapsed + GateClearance <= passed
       /\ passed <= elapsed + GateClearance + MaxDelay
       /\ elapsed < MaxSprint \/ elapsed = 0

(* Why NoSecondLap holds: what the vehicle has turned since the last run   *)
(* of control_loop is what the normalised difference of the headings says, *)
(* and the rest of the turn is in the accumulated one.                     *)
LapInv ==
  state = "ORBIT_MARKER" =>
    LET since == NormalizeAngle(yaw - orbitPrev) IN
    /\ since \in -1 .. 1
    /\ Abs(turned - since) <= orbitYaw
    /\ orbitYaw < Circle
=============================================================================
