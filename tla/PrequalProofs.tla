---------------------------- MODULE PrequalProofs ----------------------------
(***************************************************************************)
(* Theorems of Prequal for all times, distances and ranges.                *)
(***************************************************************************)
EXTENDS Prequal, TLAPS

(* control_loop does nothing but surface once something is nearer than     *)
(* crash_distance before the orbit, and never leaves SURFACE.              *)
THEOREM CrashAborts == Spec => CrashSurfaces
<1>1. [Next]_vars =>
        [/\ state \in BeforeOrbit /\ ping # NoPing /\ ping < CrashDistance =>
              \/ state' = "SURFACE" /\ drive' = "up"
              \/ UNCHANGED <<state, gateWasVisible, elapsed, drive>>
         /\ state = "SURFACE" => state' = "SURFACE" /\ drive' \in {drive, "up"}]_vars
  <2>. SUFFICES ASSUME Next
                PROVE  /\ state \in BeforeOrbit /\ ping # NoPing /\ ping < CrashDistance =>
                            \/ state' = "SURFACE" /\ drive' = "up"
                            \/ UNCHANGED <<state, gateWasVisible, elapsed, drive>>
                       /\ state = "SURFACE" => state' = "SURFACE" /\ drive' \in {drive, "up"}
    OBVIOUS
  <2>1. CASE ControlLoop
    <3>1. CASE Failsafe
      BY <3>1 DEF Failsafe
    <3>2. CASE ~CrashAhead
      BY <2>1, <3>2 DEF CrashAhead, BeforeOrbit, States, ControlLoop, Failsafe,
                        ApproachGate, BlowThrough, SprintAndSearch, ApproachMarker,
                        OrbitMarker, Surface
    <3>. QED
      BY <2>1, <3>1, <3>2 DEF ControlLoop
  <2>2. CASE UNCHANGED <<state, gateWasVisible, elapsed, drive>>
    BY <2>2
  <2>. QED
    BY <2>1, <2>2 DEF Next, FrontCamCallback, PingCallback, ImuCallback
<1>. QED
  BY <1>1, PTL DEF Spec, CrashSurfaces

-----------------------------------------------------------------------------
SearchTypeOK == elapsed \in Nat /\ passed \in Nat

LEMMA LaterInTime ==
  ASSUME SearchTypeOK, NEW dt \in 1 .. MaxDelay,
         elapsed < GateClearance \/ elapsed < MaxSprint \/ elapsed = 0
  PROVE  Later(dt) = elapsed + dt
  BY PrequalAssumption DEF SearchTypeOK, Later, Horizon

LEMMA LongerInTime ==
  ASSUME SearchTypeOK, NEW dt \in 1 .. MaxDelay
  PROVE  /\ Longer(dt) \in Nat
         /\ passed + dt <= Horizon => Longer(dt) = passed + dt
         /\ passed + dt > Horizon => Longer(dt) > Horizon
         /\ Horizon \in Nat
  BY PrequalAssumption DEF SearchTypeOK, Longer, Horizon

LEMMA SearchStep ==
  ASSUME SearchTypeOK, SearchInv, [Next]_vars
  PROVE  SearchTypeOK' /\ SearchInv'
<1>1. CASE UNCHANGED <<state, elapsed, passed>>
  BY <1>1 DEF SearchTypeOK, SearchInv
<1>2. CASE Failsafe
  BY <1>2 DEF Failsafe, SearchTypeOK, SearchInv
<1>3. CASE ApproachGate
  BY <1>3, PrequalAssumption DEF ApproachGate, SearchTypeOK, SearchInv
<1>4. CASE \E dt \in 1 .. MaxDelay : BlowThrough(dt)
  <2>. PICK dt \in 1 .. MaxDelay : BlowThrough(dt)
    BY <1>4
  <2>1. Later(dt) = elapsed + dt /\ passed = elapsed
    BY LaterInTime DEF BlowThrough, SearchInv
  <2>2. passed + dt <= Horizon
    BY <2>1, PrequalAssumption DEF BlowThrough, SearchTypeOK, SearchInv, Horizon
  <2>3. passed' = elapsed + dt
    BY <2>1, <2>2, LongerInTime DEF BlowThrough
  <2>. QED
    BY <2>1, <2>3, PrequalAssumption DEF BlowThrough, SearchTypeOK, SearchInv
<1>5. CASE \E dt \in 1 .. MaxDelay : SprintAndSearch(dt)
  <2>. PICK dt \in 1 .. MaxDelay : SprintAndSearch(dt)
    BY <1>5
  <2>1. Later(dt) = elapsed + dt
    BY LaterInTime DEF SprintAndSearch, SearchInv
  <2>2. elapsed' = elapsed + dt /\ passed' = Longer(dt) /\ passed' \in Nat
    BY <2>1, LongerInTime DEF SprintAndSearch
  <2>3. CASE state' = state
    <3>1. elapsed + dt < MaxSprint
      BY <2>1, <2>3 DEF SprintAndSearch
    <3>2. passed + dt <= Horizon
      BY <3>1, PrequalAssumption DEF SprintAndSearch, SearchTypeOK, SearchInv, Horizon
    <3>. QED
      BY <2>2, <2>3, <3>1, <3>2, LongerInTime, PrequalAssumption
         DEF SprintAndSearch, SearchTypeOK, SearchInv
  <2>4. CASE state' # state
    BY <2>2, <2>4 DEF SprintAndSearch, SearchTypeOK, SearchInv
  <2>. QED
    BY <2>3, <2>4
<1>6. CASE ApproachMarker
  BY <1>6 DEF ApproachMarker, SearchTypeOK, SearchInv
<1>7. CASE OrbitMarker
  BY <1>7 DEF OrbitMarker, SearchTypeOK, SearchInv
<1>. QED
  BY <1>1, <1>2, <1>3, <1>4, <1>5, <1>6, <1>7
     DEF Next, ControlLoop, Surface, FrontCamCallback, PingCallback, ImuCallback, vars

LEMMA SprintBounds ==
  ASSUME NEW e \in Nat, NEW p \in Nat,
         e + GateClearance <= p, p <= e + GateClearance + MaxDelay,
         e < MaxSprint \/ e = 0
  PROVE  /\ p <= GateClearance + MaxDelay + MaxSprint
         /\ p >= GateClearance
  BY PrequalAssumption

(* The gate pass and the sprint each take their own time, however late the *)
(* timer of control_loop runs: the sprint does not inherit the start of    *)
(* the pass.                                                               *)
THEOREM SearchTakesItsTime == Spec => SearchTimed
<1>1. Init => SearchTypeOK /\ SearchInv
  BY DEF Init, SearchTypeOK, SearchInv
<1>2. SearchTypeOK /\ SearchInv /\ [Next]_vars => SearchTypeOK' /\ SearchInv'
  BY SearchStep
<1>3. /\ SearchTypeOK /\ SearchInv /\ [Next]_vars
      /\ SearchTypeOK' /\ SearchInv'
      => [/\ state' = "SPRINT_AND_SEARCH" =>
                passed' <= GateClearance + MaxDelay + MaxSprint
          /\ state = "BLOW_THROUGH" /\ state' = "SPRINT_AND_SEARCH" =>
                passed' >= GateClearance
          /\ state = "SPRINT_AND_SEARCH" /\ state' = "SURFACE" /\ ~CrashAhead =>
                passed' >= GateClearance + MaxSprint]_vars
  <2>. SUFFICES ASSUME SearchTypeOK, SearchInv, Next, SearchTypeOK', SearchInv'
                PROVE  /\ state' = "SPRINT_AND_SEARCH" =>
                             passed' <= GateClearance + MaxDelay + MaxSprint
                       /\ state' = "SPRINT_AND_SEARCH" => passed' >= GateClearance
                       /\ state = "SPRINT_AND_SEARCH" /\ state' = "SURFACE" /\ ~CrashAhead =>
                             passed' >= GateClearance + MaxSprint
    OBVIOUS
  <2>1. state' = "SPRINT_AND_SEARCH" =>
          /\ passed' <= GateClearance + MaxDelay + MaxSprint
          /\ passed' >= GateClearance
    <3>. SUFFICES ASSUME state' = "SPRINT_AND_SEARCH"
                  PROVE  /\ passed' <= GateClearance + MaxDelay + MaxSprint
                         /\ passed' >= GateClearance
      OBVIOUS
    <3>1. /\ elapsed' + GateClearance <= passed'
          /\ passed' <= elapsed' + GateClearance + MaxDelay
          /\ elapsed' < MaxSprint \/ elapsed' = 0
      BY DEF SearchInv
    <3>2. elapsed' \in Nat /\ passed' \in Nat
      BY DEF SearchTypeOK
    <3>. QED
      BY <3>1, <3>2, SprintBounds
  <2>2. ASSUME state = "SPRINT_AND_SEARCH", state' = "SURFACE", ~CrashAhead
        PROVE  passed' >= GateClearance + MaxSprint
    <3>. PICK dt \in 1 .. MaxDelay : SprintAndSearch(dt)
      BY <2>2 DEF Next, ControlLoop, Failsafe, ApproachGate, BlowThrough,
                  ApproachMarker, OrbitMarker, Surface, FrontCamCallback,
                  PingCallback, ImuCallback
    <3>1. Later(dt) = elapsed + dt /\ Later(dt) >= MaxSprint
      BY <2>2, LaterInTime DEF SprintAndSearch, SearchInv
    <3>2. passed + dt >= GateClearance + MaxSprint
      BY <2>2, <3>1, PrequalAssumption DEF SearchInv, SearchTypeOK
    <3>3. passed' = Longer(dt)
      BY DEF SprintAndSearch
    <3>. QED
      BY <3>2, <3>3, LongerInTime, PrequalAssumption DEF Horizon, SearchTypeOK
  <2>. QED
    BY <2>1, <2>2
<1>. QED
  BY <1>1, <1>2, <1>3, PTL DEF Spec, SearchTimed

-----------------------------------------------------------------------------
LapTypeOK ==
  /\ yaw \in 0 .. Circle - 1
  /\ orbitPrev \in 0 .. Circle - 1
  /\ orbitYaw \in Nat
  /\ turned \in Int

LEMMA ModNear ==
  ASSUME NEW c \in Nat \ {0}, NEW a \in 0 .. c - 1
  PROVE  a % c = a /\ (a + c) % c = a /\ (a - c) % c = a
<1>1. a % c = a
  OBVIOUS
<1>2. (a + c) % c = a
  OBVIOUS
<1>3. (a - c) % c = a
  OBVIOUS
<1>. QED
  BY <1>1, <1>2, <1>3

(* Whatever is off a circle by at most one circle is brought back to it,   *)
(* by a whole circle or not at all.                                        *)
LEMMA ModClose ==
  ASSUME NEW a \in -Circle .. 2 * Circle - 1
  PROVE  /\ a % Circle \in 0 .. Circle - 1
         /\ (a % Circle) - a \in {0, Circle, -Circle}
<1>. USE PrequalAssumption
<1>1. CASE a \in 0 .. Circle - 1
  BY <1>1, ModNear
<1>2. CASE a < 0
  <2>1. a + Circle \in 0 .. Circle - 1 /\ (a + Circle) - Circle = a
    BY <1>2
  <2>2. ((a + Circle) - Circle) % Circle = a + Circle
    BY <2>1, ModNear
  <2>. QED
    BY <2>1, <2>2
<1>3. CASE a >= Circle
  <2>1. a - Circle \in 0 .. Circle - 1 /\ (a - Circle) + Circle = a
    BY <1>3
  <2>2. ((a - Circle) + Circle) % Circle = a - Circle
    BY <2>1, ModNear
  <2>. QED
    BY <2>1, <2>2
<1>. QED
  BY <1>1, <1>2, <1>3

LEMMA NormalizeClose ==
  ASSUME NEW x \in 0 .. Circle - 1, NEW y \in 0 .. Circle - 1
  PROVE  /\ NormalizeAngle(x - y) \in Int
         /\ NormalizeAngle(x - y) - (x - y) \in {0, Circle, -Circle}
         /\ x = y => NormalizeAngle(x - y) = 0
<1>. DEFINE d == x - y
<1>. USE PrequalAssumption
<1>1. CASE d >= 0
  <2>1. d % Circle = d
    BY <1>1, ModNear
  <2>. QED
    BY <1>1, <2>1 DEF NormalizeAngle
<1>2. CASE d < 0
  <2>1. d + Circle \in 0 .. Circle - 1 /\ (d + Circle) - Circle = d
    BY <1>2
  <2>2. ((d + Circle) - Circle) % Circle = d + Circle
    BY <2>1, ModNear
  <2>. QED
    BY <1>2, <2>1, <2>2 DEF NormalizeAngle
<1>. QED
  BY <1>1, <1>2

(* Two normalised differences that are both small tell the turn between    *)
(* them: a circle is too long to hide in it.                               *)
LEMMA ImuKeepsLap ==
  ASSUME LapTypeOK, LapInv, NEW turn \in {-1, 1}, ImuCallback(turn)
  PROVE  LapTypeOK' /\ LapInv'
<1>. USE PrequalAssumption
<1>. DEFINE heading == (yaw + turn) % Circle
<1>1. heading \in 0 .. Circle - 1 /\ heading - (yaw + turn) \in {0, Circle, -Circle}
  <2>1. yaw + turn \in -Circle .. 2 * Circle - 1
    BY DEF LapTypeOK
  <2>. QED
    BY <2>1, ModClose
<1>2. yaw' = heading /\ UNCHANGED <<state, orbitYaw, orbitPrev>>
  BY DEF ImuCallback
<1>3. LapTypeOK'
  BY <1>1, <1>2 DEF LapTypeOK, ImuCallback
<1>4. CASE state = "ORBIT_MARKER"
  <2>. DEFINE before == NormalizeAngle(yaw - orbitPrev)
              after == NormalizeAngle(heading - orbitPrev)
  <2>1. after \in -1 .. 1 /\ before \in -1 .. 1 /\ turned' = turned + turn
    BY <1>4 DEF ImuCallback, LapInv
  <2>2. /\ before - (yaw - orbitPrev) \in {0, Circle, -Circle}
        /\ after - (heading - orbitPrev) \in {0, Circle, -Circle}
    BY <1>1, NormalizeClose DEF LapTypeOK
  <2>3. after = before + turn
    <3>. HIDE DEF before, after, heading
    <3>. QED
      BY <1>1, <2>1, <2>2 DEF LapTypeOK
  <2>4. turned' - after = turned - before
    <3>. HIDE DEF before, after
    <3>. QED
      BY <2>1, <2>3 DEF LapTypeOK
  <2>. QED
    BY <1>2, <1>3, <1>4, <2>1, <2>4 DEF LapInv
<1>5. CASE state # "ORBIT_MARKER"
  BY <1>2, <1>3, <1>5 DEF LapInv
<1>. QED
  BY <1>4, <1>5

LEMMA OrbitKeepsLap ==
  ASSUME LapTypeOK, LapInv, OrbitMarker
  PROVE  LapTypeOK' /\ LapInv'
<1>. USE PrequalAssumption
<1>. DEFINE since == NormalizeAngle(yaw - orbitPrev)
            accum == orbitYaw + Abs(since)
<1>1. since \in -1 .. 1 /\ Abs(turned - since) <= orbitYaw
  BY DEF OrbitMarker, LapInv
<1>2. accum \in Nat /\ Abs(turned - 0) <= accum
  <2>. HIDE DEF since
  <2>. QED
    BY <1>1 DEF LapTypeOK, Abs
<1>3. /\ UNCHANGED <<yaw, turned>> /\ orbitPrev' = yaw /\ orbitYaw' = accum
      /\ state' = "ORBIT_MARKER" => accum < Circle
  BY <1>2 DEF OrbitMarker, sensors
<1>4. NormalizeAngle(yaw - yaw) = 0
  BY NormalizeClose DEF LapTypeOK
<1>. QED
  BY <1>2, <1>3, <1>4 DEF LapTypeOK, LapInv

LEMMA LapStep ==
  ASSUME LapTypeOK, LapInv, [Next]_vars
  PROVE  LapTypeOK' /\ LapInv'
<1>1. CASE /\ UNCHANGED <<yaw, orbitPrev, orbitYaw, turned>>
           /\ state' = state \/ state' # "ORBIT_MARKER"
  BY <1>1 DEF LapTypeOK, LapInv
<1>2. CASE ApproachMarker /\ MarkerInReach
  <2>1. /\ UNCHANGED yaw /\ orbitPrev' = yaw /\ orbitYaw' = 0 /\ turned' = 0
    BY <1>2 DEF ApproachMarker
  <2>2. NormalizeAngle(yaw - yaw) = 0
    BY NormalizeClose DEF LapTypeOK
  <2>. QED
    BY <2>1, <2>2, PrequalAssumption DEF LapTypeOK, LapInv, Abs
<1>. QED
  BY <1>1, <1>2, ImuKeepsLap, OrbitKeepsLap
     DEF Next, ControlLoop, Failsafe, ApproachGate, BlowThrough, SprintAndSearch, ApproachMarker,
         Surface, FrontCamCallback, PingCallback, sensors, vars

(* The vehicle does not turn a full circle around the marker, in either    *)
(* sense, without surfacing: control_loop's accumulated turn is never      *)
(* behind the real one by more than the turn of one period.                *)
THEOREM OneLapOnly == Spec => []NoSecondLap
<1>1. Init => LapTypeOK /\ LapInv
  BY PrequalAssumption DEF Init, LapTypeOK, LapInv
<1>2. LapTypeOK /\ LapInv /\ [Next]_vars => LapTypeOK' /\ LapInv'
  BY LapStep
<1>3. LapTypeOK /\ LapInv => NoSecondLap
  <2>. SUFFICES ASSUME LapTypeOK, LapInv, state = "ORBIT_MARKER"
                PROVE  Abs(turned) <= orbitYaw + 1 /\ Abs(turned) <= Circle
    BY DEF NoSecondLap
  <2>. DEFINE since == NormalizeAngle(yaw - orbitPrev)
  <2>1. since \in -1 .. 1 /\ Abs(turned - since) <= orbitYaw /\ orbitYaw < Circle
    BY DEF LapInv
  <2>. HIDE DEF since
  <2>. QED
    BY <2>1, PrequalAssumption DEF LapTypeOK, Abs
<1>. QED
  BY <1>1, <1>2, <1>3, PTL DEF Spec

-----------------------------------------------------------------------------
LEMMA TurnTypes ==
  ASSUME PrequalTypeOK
  PROVE  /\ Abs(NormalizeAngle(yaw - orbitPrev)) \in Nat
         /\ \A turn \in {-1, 1} : (yaw + turn) % Circle \in 0 .. Circle - 1
<1>1. NormalizeAngle(yaw - orbitPrev) \in Int
  BY NormalizeClose DEF PrequalTypeOK
<1>2. Abs(NormalizeAngle(yaw - orbitPrev)) \in Nat
  BY <1>1 DEF Abs
<1>3. ASSUME NEW turn \in {-1, 1} PROVE (yaw + turn) % Circle \in 0 .. Circle - 1
  <2>1. yaw + turn \in -Circle .. 2 * Circle - 1
    BY PrequalAssumption DEF PrequalTypeOK
  <2>. QED
    BY <2>1, ModClose
<1>. QED
  BY <1>2, <1>3

LEMMA ClockTypes ==
  ASSUME PrequalTypeOK, NEW dt \in 1 .. MaxDelay
  PROVE  Later(dt) \in 0 .. Horizon /\ Longer(dt) \in 0 .. Horizon + 1
  BY PrequalAssumption DEF PrequalTypeOK, Later, Longer, Horizon

(* The variables keep their types in every state of control_loop, for all  *)
(* times, distances and ranges; the clocks stay within their bound.        *)
THEOREM PrequalTypes == Spec => []PrequalTypeOK
<1>1. Init => PrequalTypeOK
  <2>1. 0 \in 0 .. Circle - 1 /\ 0 \in 0 .. Horizon /\ 0 \in 0 .. Horizon + 1
    BY PrequalAssumption DEF Horizon
  <2>2. ASSUME Init
        PROVE  /\ state \in States /\ gateVisible \in BOOLEAN /\ gateWasVisible \in BOOLEAN
               /\ markerVisible \in BOOLEAN /\ ping \in Pings \cup {NoPing}
    BY <2>2 DEF Init, States
  <2>3. ASSUME Init
        PROVE  /\ orbitYaw \in Nat /\ turned \in Int
               /\ drive \in {"none", "ahead", "orbit", "up"}
    BY <2>3 DEF Init
  <2>4. ASSUME Init
        PROVE  /\ yaw \in 0 .. Circle - 1 /\ orbitPrev \in 0 .. Circle - 1
               /\ elapsed \in 0 .. Horizon /\ passed \in 0 .. Horizon + 1
    BY <2>1, <2>4, Zenon DEF Init
  <2>. QED
    BY <2>2, <2>3, <2>4, Zenon DEF PrequalTypeOK
<1>2. PrequalTypeOK /\ [Next]_vars => PrequalTypeOK'
  <2>. SUFFICES ASSUME PrequalTypeOK, [Next]_vars PROVE PrequalTypeOK'
    OBVIOUS
  <2>. USE PrequalAssumption DEF PrequalTypeOK, States, sensors
  <2>1. CASE Failsafe
    BY <2>1 DEF Failsafe
  <2>2. CASE ApproachGate
    BY <2>2 DEF ApproachGate, Horizon
  <2>3. ASSUME NEW dt \in 1 .. MaxDelay, BlowThrough(dt) PROVE PrequalTypeOK'
    BY <2>3, ClockTypes DEF BlowThrough, Horizon
  <2>4. ASSUME NEW dt \in 1 .. MaxDelay, SprintAndSearch(dt) PROVE PrequalTypeOK'
    BY <2>4, ClockTypes DEF SprintAndSearch
  <2>5. CASE ApproachMarker
    BY <2>5 DEF ApproachMarker
  <2>6. CASE OrbitMarker
    <3>1. orbitYaw' \in Nat
      BY <2>6, TurnTypes DEF OrbitMarker
    <3>. QED
      BY <2>6, <3>1 DEF OrbitMarker
  <2>7. CASE Surface
    BY <2>7 DEF Surface
  <2>8. CASE FrontCamCallback \/ \E range \in Pings : PingCallback(range)
    BY <2>8 DEF FrontCamCallback, PingCallback
  <2>9. ASSUME NEW turn \in {-1, 1}, ImuCallback(turn) PROVE PrequalTypeOK'
    <3>1. yaw' \in 0 .. Circle - 1 /\ turned' \in Int
      BY <2>9, TurnTypes DEF ImuCallback
    <3>. QED
      BY <2>9, <3>1 DEF ImuCallback
  <2>10. CASE UNCHANGED vars
    BY <2>10 DEF vars
  <2>. QED
    BY <2>1, <2>2, <2>3, <2>4, <2>5, <2>6, <2>7, <2>8, <2>9, <2>10 DEF Next, ControlLoop
<1>. QED
  BY <1>1, <1>2, PTL DEF Spec
=============================================================================
