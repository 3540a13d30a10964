---------------------------- MODULE BenchTvProofs -----------------------------
(***************************************************************************)
(* Theorems of BenchTv for all sessions, detections, ranges and times.     *)
(***************************************************************************)
EXTENDS BenchTv, FiniteSetTheorems, TLAPS

(* The boost of the simulated range has come to its end.                   *)
Ramped == ClearDelay + ClearRamp

(* A message of the simulator; one that shows the gate behind the vehicle. *)
FromSim(m) == m.source = "sim"
Shows(m) == m.range # NoRange /\ m.range >= GateClear

(* What has been started, and that a mission ends when its time is up.     *)
SessionInv ==
  /\ sim \in {"script", "up", "matched"}
  /\ simSince \in 0 .. Horizon /\ elapsed \in 0 .. PassTime
  /\ vision = {} \/ vision \in Sightings
  /\ simBehavior # "" \/ toSim # <<>> => sim = "matched"
  /\ toMaster # <<>> \/ mission # "hold" \/ node \in {"find_gate", "gate_approach"} => launched
  /\ sim = "matched" => launched
  /\ mission = "pass_gate" /\ elapsed >= PassTime => "master" \notin fired

(* Of the commands on their way none is the master's own "done".           *)
CommandInv == toMaster \in Seq({"find_gate", "traverse_gate", "pass_gate"})

(* A simulated range of before is replaced in ardusub_node's cache in the  *)
(* first period of a pass, and at the master in the second.                *)
FreshInv ==
  /\ FromSim(cache) \/ FromSim(range) =>
       sim # "script" /\ Runs("ardusub_node") /\ args.ping_range_topic = Lidar
  /\ mission = "pass_gate" /\ FromSim(cache)
       /\ (elapsed >= 2 \/ (elapsed = 1 /\ "sim" \in fired)) => cache.fresh
  /\ mission = "pass_gate" /\ FromSim(range)
       /\ (elapsed >= 3 \/ (elapsed = 2 /\ "ardusub" \in fired)) => range.fresh

Alone ==
  /\ sim = "matched" /\ mode = "vision"
  /\ Runs("ardusub_node") /\ args.ping_range_topic = Lidar
  /\ bridge = "off"
  /\ simBehavior = "pass_gate"

(* Once the boost has come to its end, the range passes through the cache  *)
(* to the master in a period each, and ends the pass in the next.          *)
BoostInv ==
  /\ Alone =>
       /\ simSince > Ramped \/ (simSince = Ramped /\ "sim" \in fired) => Shows(cache)
       /\ simSince > Ramped + 1 \/ (simSince = Ramped + 1 /\ "ardusub" \in fired) =>
            Shows(range)
  /\ mission = "pass_gate" /\ Alone /\ elapsed >= ClearAfter /\ simSince >= Ramped + 2 =>
       "master" \notin fired
  /\ mission = "pass_gate" /\ Alone /\ simSince + 1 >= elapsed =>
       elapsed <= Ramped + 3 \/ elapsed <= ClearAfter

BenchInv == SessionInv /\ CommandInv /\ FreshInv /\ BoostInv

LEMMA TimesType ==
  /\ ClearDelay \in Nat /\ ClearRamp \in Nat \ {0} /\ ClearAfter \in Nat
  /\ PassTime \in Nat /\ Horizon \in Nat /\ Ramped \in Nat
  /\ 3 <= ClearAfter /\ ClearAfter < PassTime /\ PassTime <= Horizon
  /\ Ramped + 4 <= PassTime
<1>1. /\ ClearDelay \in Nat /\ ClearRamp \in Nat /\ ClearAfter \in Nat
      /\ PassTime \in Nat /\ Horizon \in Nat /\ ClearRamp > 0
  BY BenchAssumption
<1>. QED
  BY <1>1, TimingAssumption DEF Ramped
-----------------------------------------------------------------------------
(* What the simulator computes.                                            *)

LEMMA MinOfTwo ==
  ASSUME NEW a \in Int, NEW b \in Int
  PROVE  Min({a, b}) = IF a <= b THEN a ELSE b
<1>1. \E x \in {a, b} : \A y \in {a, b} : x =< y
  OBVIOUS
<1>2. Min({a, b}) \in {a, b} /\ \A y \in {a, b} : Min({a, b}) =< y
  BY <1>1 DEF Min
<1>. QED
  BY <1>2

LEMMA MaxOfTwo ==
  ASSUME NEW a \in Int, NEW b \in Int
  PROVE  Max({a, b}) = IF a >= b THEN a ELSE b
<1>1. \E x \in {a, b} : \A y \in {a, b} : x >= y
  OBVIOUS
<1>2. Max({a, b}) \in {a, b} /\ \A y \in {a, b} : Max({a, b}) >= y
  BY <1>1 DEF Max
<1>. QED
  BY <1>2

LEMMA DividesExactly ==
  ASSUME NEW n \in Nat \ {0}, NEW k \in Int
  PROVE  (n * k) \div n = k
<1>. DEFINE q == (n * k) \div n
            r == (n * k) % n
<1>1. q \in Int /\ r \in 0 .. n - 1 /\ n * k = n * q + r
  OBVIOUS
<1>. HIDE DEF q, r
<1>2. n * (k - q) = r
  BY <1>1
<1>3. ~(k - q >= 1)
  <2>. SUFFICES ASSUME k - q >= 1 PROVE FALSE
    OBVIOUS
  <2>1. n * (k - q) >= n
    BY <1>1
  <2>. QED
    BY <1>1, <1>2, <2>1
<1>4. ~(k - q <= -1)
  <2>. SUFFICES ASSUME k - q <= -1 PROVE FALSE
    OBVIOUS
  <2>1. n * (k - q) <= -n
    BY <1>1
  <2>. QED
    BY <1>1, <1>2, <2>1
<1>5. q = k
  BY <1>1, <1>3, <1>4
<1>. QED
  BY <1>5 DEF q

LEMMA LeastOf ==
  ASSUME NEW S \in SUBSET Nat, S # {}
  PROVE  \E x \in S : \A y \in S : x <= y
<1>. DEFINE Less == {p \in Nat \X Nat : p[1] < p[2]}
<1>1. IsWellFoundedOn(Less, Nat)
  BY NatLessThanWellFounded DEF OpToRel
<1>. HIDE DEF Less
<1>2. PICK x \in S : \A y \in S : ~(<<y, x>> \in Less)
  BY <1>1, WFMin
<1>3. ASSUME NEW y \in S
      PROVE  x <= y
  <2>1. x \in Nat /\ y \in Nat
    OBVIOUS
  <2>2. y < x => <<y, x>> \in Less
    BY <2>1 DEF Less
  <2>3. ~(<<y, x>> \in Less)
    BY <1>2
  <2>. QED
    BY <2>1, <2>2, <2>3
<1>. QED
  BY <1>3

(* Among detections, as many as a message holds, one has the largest area. *)
HasLargest(S) == \E d \in S : \A e \in S : e.area <= d.area

LEMMA LargestArea ==
  ASSUME NEW S \in SUBSET Detection, IsFiniteSet(S), S # {}
  PROVE  HasLargest(S)
<1>. DEFINE Sizes == {n \in Nat : \E T \in SUBSET Detection :
                        IsFiniteSet(T) /\ T # {} /\ Cardinality(T) = n /\ ~HasLargest(T)}
<1>1. CASE Sizes = {}
  BY <1>1, FS_CardinalityType
<1>2. CASE Sizes # {}
  <2>1. PICK n \in Sizes : \A m \in Sizes : n <= m
    BY <1>2, LeastOf
  <2>2. PICK T \in SUBSET Detection :
          IsFiniteSet(T) /\ T # {} /\ Cardinality(T) = n /\ ~HasLargest(T)
    BY <2>1
  <2>3. PICK d \in T : TRUE
    BY <2>2
  <2>. DEFINE U == T \ {d}
  <2>4. IsFiniteSet(U) /\ Cardinality(U) = n - 1 /\ U \in SUBSET Detection
    BY <2>2, FS_RemoveElement
  <2>5. n - 1 \in Nat /\ n - 1 \notin Sizes
    BY <2>1, <2>4, FS_CardinalityType
  <2>6. d \in Detection /\ d.area \in Nat /\ \A e \in T : e.area \in Nat
    BY <2>2, <2>3 DEF Detection
  <2>7. CASE U = {}
    <3>1. T = {d}
      BY <2>3, <2>7
    <3>. QED
      BY <2>2, <2>6, <3>1 DEF HasLargest
  <2>8. CASE U # {}
    <3>1. HasLargest(U)
      BY <2>4, <2>5, <2>8
    <3>2. PICK e \in U : \A f \in U : f.area <= e.area
      BY <3>1 DEF HasLargest
    <3>3. e \in T /\ e.area \in Nat /\ \A f \in T : f = d \/ f \in U
      BY <2>6
    <3>4. CASE e.area <= d.area
      <4>1. \A f \in T : f.area <= d.area
        BY <2>6, <3>2, <3>3, <3>4
      <4>. QED
        BY <2>2, <2>3, <4>1 DEF HasLargest
    <3>5. CASE ~(e.area <= d.area)
      <4>1. \A f \in T : f.area <= e.area
        BY <2>6, <3>2, <3>3, <3>5
      <4>. QED
        BY <2>2, <3>3, <4>1 DEF HasLargest
    <3>. QED
      BY <3>4, <3>5
  <2>. QED
    BY <2>7, <2>8
<1>. QED
  BY <1>1, <1>2

LEMMA BestGateAreaType ==
  ASSUME SessionInv
  PROVE  BestGateArea = None \/ BestGateArea \in Nat
<1>. DEFINE gates == {d \in vision : d.gate /\ d.sure}
            areas == {d.area : d \in gates}
<1>1. IsFiniteSet(vision) /\ vision \in SUBSET Detection
  BY FS_EmptySet, BenchAssumption DEF SessionInv
<1>2. gates \in SUBSET vision
  OBVIOUS
<1>3. IsFiniteSet(gates) /\ gates \in SUBSET Detection
  <2>. HIDE DEF gates
  <2>. QED
    BY <1>1, <1>2, FS_Subset
<1>4. CASE gates = {}
  BY <1>4 DEF BestGateArea
<1>5. CASE gates # {}
  <2>. HIDE DEF gates
  <2>1. PICK d \in gates : \A e \in gates : e.area <= d.area
    BY <1>3, <1>5, LargestArea DEF HasLargest
  <2>2. \A e \in gates : e.area \in Nat
    BY <1>3 DEF Detection
  <2>3. \E x \in areas : \A y \in areas : x >= y
    BY <2>1, <2>2
  <2>4. Max(areas) \in areas
    BY <2>3 DEF Max
  <2>5. BestGateArea = Max(areas)
    BY <1>5 DEF BestGateArea, gates
  <2>. QED
    BY <2>2, <2>4, <2>5
<1>. QED
  BY <1>4, <1>5

LEMMA RangesType ==
  /\ {FarRange, CloseRange, AreaFar, AreaClose, NoDetection, Cleared, Low, High,
      GateClear} \subseteq Int
  /\ GateClear < Cleared /\ Cleared <= High /\ AreaFar < AreaClose
  /\ NoRange \notin Int /\ None \notin Int
  BY BenchAssumption

LEMMA VisionRangeType ==
  ASSUME SessionInv
  PROVE  VisionRange \in Int
<1>1. CASE BestGateArea = None
  BY <1>1, RangesType DEF VisionRange
<1>2. CASE BestGateArea # None
  <2>. DEFINE area == BestGateArea
              a == (area - AreaFar) * (FarRange - CloseRange)
              b == AreaClose - AreaFar
  <2>1. area \in Nat
    BY <1>2, BestGateAreaType
  <2>. HIDE DEF area
  <2>2. a \in Int /\ b \in Nat \ {0}
    BY <2>1, RangesType
  <2>3. a \div b \in Int
    <3>. HIDE DEF a, b
    <3>. QED
      BY <2>2
  <2>. HIDE DEF a, b
  <2>4. FarRange - a \div b \in Int
    BY <2>3, RangesType
  <2>5. AreaToRange(area) \in {FarRange, CloseRange, FarRange - a \div b}
    BY DEF AreaToRange, a, b
  <2>6. VisionRange = AreaToRange(area)
    BY <1>2 DEF VisionRange, area
  <2>. QED
    BY <2>4, <2>5, <2>6, RangesType
<1>. QED
  BY <1>1, <1>2

(* However near the gate looks, at the end of its boost the simulator      *)
(* shows it behind the vehicle.                                            *)
LEMMA BoostClears ==
  ASSUME SessionInv, mode = "vision", simBehavior = "pass_gate", simSince >= Ramped,
         NEW r \in ComputeRange
  PROVE  r # NoRange /\ r >= GateClear
<1>. DEFINE base == VisionRange
            rise == Max({Cleared - base, 0})
            boosted == PassGateBoost(base)
<1>1. base \in Int /\ simSince \in Nat
  BY VisionRangeType DEF SessionInv
<1>. HIDE DEF base
<1>2. rise \in Int /\ rise >= Cleared - base
  BY <1>1, RangesType, MaxOfTwo
<1>3. Min({ClearRamp, simSince - ClearDelay}) = ClearRamp
  <2>1. ClearRamp \in Int /\ simSince - ClearDelay \in Int /\ ClearRamp <= simSince - ClearDelay
    BY <1>1, TimesType DEF Ramped
  <2>. QED
    BY <2>1, MinOfTwo
<1>4. ~(simSince < ClearDelay)
  BY <1>1, TimesType DEF Ramped
<1>5. boosted = base + (ClearRamp * rise) \div ClearRamp
  BY <1>3, <1>4 DEF PassGateBoost
<1>. HIDE DEF rise, boosted
<1>6. boosted = base + rise
  BY <1>2, <1>5, TimesType, DividesExactly
<1>7. boosted \in Int /\ boosted >= Cleared
  BY <1>1, <1>2, <1>6, RangesType
<1>8. Clamp(boosted) \in Int /\ Clamp(boosted) >= Cleared
  <2>1. Min({High, boosted}) \in Int /\ Min({High, boosted}) >= Cleared
    BY <1>7, RangesType, MinOfTwo
  <2>. QED
    BY <1>7, <2>1, RangesType, MaxOfTwo DEF Clamp
<1>9. r = Clamp(boosted)
  BY DEF ComputeRange, boosted, base
<1>. QED
  BY <1>8, <1>9, RangesType
-----------------------------------------------------------------------------
(* What the actions do to the invariants.                                  *)

LEMMA EnterNodeSession ==
  ASSUME NEW n, EnterNode(n), sim = "matched" \/ toSim = <<>>
  PROVE  toSim' # <<>> => sim = "matched"
  BY DEF EnterNode

LEMMA NoTime ==
  0 \in 0 .. PassTime /\ 0 \in 0 .. Horizon /\ ~(0 >= PassTime) /\ ~(0 >= ClearAfter)
  BY TimesType

LEMMA LaterCounts ==
  ASSUME NEW n \in Nat, n <= Horizon
  PROVE  /\ Later(n) \in 0 .. Horizon
         /\ Later(n) = n + 1 \/ (Later(n) = n /\ n = Horizon)
         /\ n < PassTime => Later(n) = n + 1 /\ Later(n) \in 0 .. PassTime
  BY TimesType DEF Later

LEMMA SessionTimes ==
  ASSUME SessionInv
  PROVE  /\ elapsed \in Nat /\ elapsed <= PassTime /\ elapsed <= Horizon
         /\ simSince \in Nat /\ simSince <= Horizon
         /\ mission = "pass_gate" /\ "master" \in fired => elapsed < PassTime
<1>1. elapsed \in 0 .. PassTime /\ simSince \in 0 .. Horizon
  BY DEF SessionInv
<1>2. /\ elapsed \in Nat /\ elapsed <= PassTime /\ elapsed <= Horizon
      /\ simSince \in Nat /\ simSince <= Horizon
  BY <1>1, TimesType
<1>3. mission = "pass_gate" /\ elapsed >= PassTime => "master" \notin fired
  BY DEF SessionInv
<1>. QED
  BY <1>2, <1>3, TimesType

LEMMA SessionStep ==
  ASSUME SessionInv, Next
  PROVE  SessionInv'
<1>0. /\ elapsed \in Nat /\ elapsed <= PassTime /\ simSince \in Nat /\ simSince <= Horizon
      /\ mission = "pass_gate" /\ "master" \in fired => elapsed < PassTime
  BY SessionTimes
<1>. USE DEF SessionInv
<1>1. CASE SimStarts
  BY <1>1 DEF SimStarts, setup, simulator, planner, master
<1>2. CASE Launch
  BY <1>2, EnterNodeSession DEF Launch, simulator, master
<1>3. CASE SimDiscovered
  BY <1>3 DEF SimDiscovered, setup, simulator, planner, master
<1>4. ASSUME NEW v \in Sightings, VisionCallback(v)
      PROVE  SessionInv'
  BY <1>4 DEF VisionCallback, setup, planner, master
<1>5. CASE BehaviorCallback
  BY <1>5, TimesType DEF BehaviorCallback, setup, master
<1>6. CASE Publish
  BY <1>6 DEF Publish, setup, simulator, planner, master
<1>7. CASE UNCHANGED <<setup, sim, simulator, planner, master, fired>>
  BY <1>7 DEF setup, simulator, planner, master
<1>8. CASE PublishForwardRange
  BY <1>8 DEF PublishForwardRange, setup, simulator, planner, master
<1>9. CASE SetBehaviorCallback
  <2>1. /\ elapsed' = 0 /\ UNCHANGED <<sim, simSince, vision, simBehavior, toSim, launched, node>>
        /\ toMaster # <<>>
    BY <1>9 DEF SetBehaviorCallback, setup, simulator
  <2>. QED
    BY <2>1, NoTime
<1>10. CASE PassGateStep
  <2>1. /\ launched' = launched /\ UNCHANGED <<sim, vision, simBehavior, simSince>>
        /\ launched
    BY <1>10 DEF PassGateStep, setup, simulator
  <2>2. CASE mission' = "done" /\ elapsed' = 0 /\ EnterNode("gate_approach")
    <3>1. toSim' # <<>> => sim = "matched"
      BY <2>2, EnterNodeSession
    <3>. QED
      BY <2>1, <2>2, <3>1, NoTime
  <2>3. CASE ~IsGateCleared /\ elapsed < PassTime /\ UNCHANGED <<master, planner>>
    <3>1. UNCHANGED <<toSim, toMaster, node, mission, elapsed>> /\ elapsed < PassTime
      BY <2>3 DEF master, planner
    <3>2. ~(elapsed >= PassTime)
      <4>. HIDE DEF SessionInv
      <4>. QED
        BY <1>0, <3>1, TimesType
    <3>. QED
      BY <2>1, <3>1, <3>2
  <2>. QED
    BY <1>10, <2>2, <2>3 DEF PassGateStep
<1>11. CASE OtherStep
  BY <1>11 DEF OtherStep, setup, simulator, planner, master
<1>12. CASE Advance
  <2>1. /\ UNCHANGED <<launched, sim, vision, simBehavior, simSince, mission, elapsed, fired>>
        /\ toSim' # <<>> => sim = "matched"
        /\ launched
    BY <1>12, EnterNodeSession DEF Advance, setup, simulator, master
  <2>. QED
    BY <2>1
<1>13. CASE TimePasses
  <2>1. /\ Timers \subseteq fired /\ fired' = {}
        /\ simSince' = IF simBehavior = "" THEN 0 ELSE Later(simSince)
        /\ elapsed' = IF mission = "pass_gate" THEN Later(elapsed) ELSE elapsed
        /\ UNCHANGED <<launched, sim, vision, simBehavior, toMaster, toSim, node, mission>>
    BY <1>13 DEF TimePasses, setup, planner
  <2>2. simSince' \in 0 .. Horizon
    <3>. HIDE DEF SessionInv
    <3>. QED
      BY <1>0, <2>1, NoTime, LaterCounts
  <2>3. elapsed' \in 0 .. PassTime
    <3>1. CASE mission = "pass_gate"
      <4>1. "master" \in fired
        BY <2>1, <3>1 DEF Timers
      <4>. HIDE DEF SessionInv
      <4>2. elapsed < PassTime
        BY <1>0, <3>1, <4>1
      <4>3. elapsed <= Horizon
        BY <1>0, TimesType
      <4>. QED
        BY <1>0, <2>1, <3>1, <4>2, <4>3, LaterCounts
    <3>2. CASE mission # "pass_gate"
      BY <2>1, <3>2
    <3>. QED
      BY <3>1, <3>2
  <2>. QED
    BY <2>1, <2>2, <2>3
<1>. QED
  BY <1>1, <1>2, <1>3, <1>4, <1>5, <1>6, <1>7, <1>8, <1>9, <1>10, <1>11, <1>12, <1>13
     DEF Next, BridgeConnects, BridgeFails, PublishLatest, BridgeReads, DriverPublishes,
         ping

LEMMA EnterNodeCommand ==
  ASSUME CommandInv, NEW n \in {"find_gate", "gate_approach", "gate_pass"}, EnterNode(n)
  PROVE  CommandInv'
<1>. DEFINE Commands == {"find_gate", "traverse_gate", "pass_gate"}
<1>1. Behavior(n) \in Commands
  BY DEF Behavior
<1>2. toMaster' = Append(toMaster, Behavior(n)) /\ toMaster \in Seq(Commands)
  BY DEF EnterNode, CommandInv
<1>. HIDE DEF Commands
<1>3. toMaster' \in Seq(Commands)
  BY <1>1, <1>2
<1>. QED
  BY <1>3 DEF CommandInv, Commands

LEMMA CommandStep ==
  ASSUME CommandInv, Next
  PROVE  CommandInv'
<1>1. CASE UNCHANGED toMaster
  BY <1>1 DEF CommandInv
<1>2. CASE \E n \in {"find_gate", "gate_approach", "gate_pass"} : EnterNode(n)
  BY <1>2, EnterNodeCommand
<1>3. CASE SetBehaviorCallback
  BY <1>3 DEF SetBehaviorCallback, CommandInv
<1>. QED
  BY <1>1, <1>2, <1>3
     DEF Next, SimStarts, Launch, SimDiscovered, VisionCallback, BehaviorCallback, Publish,
         BridgeConnects, BridgeFails, PublishLatest, BridgeReads, DriverPublishes,
         PublishForwardRange, PassGateStep, OtherStep, Advance, TimePasses, planner

(* A message in the cache from the simulator came by its topic.            *)
LEMMA PublishFresh ==
  ASSUME FreshInv, Publish
  PROVE  FreshInv'
<1>1. /\ UNCHANGED <<launched, args, sim, range, mission, elapsed>> /\ sim # "script"
      /\ fired' = fired \cup {"sim"}
  BY DEF Publish, setup, master
<1>2. PICK r \in ComputeRange : Receives(Lidar, Message(r, "sim"))
  BY DEF Publish
<1>3. CASE Runs("ardusub_node") /\ Lidar = args.ping_range_topic
  <2>1. cache' = [range |-> r, source |-> "sim", fresh |-> TRUE]
    BY <1>2, <1>3 DEF Receives, Message
  <2>. QED
    BY <1>1, <1>3, <2>1 DEF FreshInv, FromSim, Runs
<1>4. CASE ~(Runs("ardusub_node") /\ Lidar = args.ping_range_topic)
  <2>1. cache' = cache
    BY <1>2, <1>4 DEF Receives
  <2>2. ~FromSim(cache)
    BY <1>4 DEF FreshInv
  <2>. QED
    BY <1>1, <1>4, <2>1, <2>2 DEF FreshInv, FromSim, Runs
<1>. QED
  BY <1>3, <1>4

(* A message from elsewhere is none of the simulator's.                    *)
LEMMA ReceivesFresh ==
  ASSUME FreshInv, NEW topic, NEW m, Receives(topic, m), ~FromSim(m),
         UNCHANGED <<launched, args, sim, range, mission, elapsed, fired>>
  PROVE  FreshInv'
<1>1. cache' = m \/ cache' = cache
  BY DEF Receives
<1>. QED
  BY <1>1 DEF FreshInv, FromSim, Runs

LEMMA FreshStep ==
  ASSUME SessionInv, FreshInv, Next
  PROVE  FreshInv'
<1>1. CASE UNCHANGED <<launched, args, sim, range, cache, mission, elapsed, fired>>
  BY <1>1 DEF FreshInv, FromSim, Runs
<1>2. CASE SimStarts \/ SimDiscovered
  BY <1>2 DEF SimStarts, SimDiscovered, setup, master, FreshInv, FromSim, Runs
<1>3. CASE Launch
  BY <1>3 DEF Launch, master, FreshInv, FromSim, Runs, Launched
<1>4. CASE Publish
  BY <1>4, PublishFresh
<1>5. CASE PublishLatest
  <2>1. ~FromSim(Message(latest, "bridge"))
    BY DEF FromSim, Message
  <2>. QED
    BY <1>5, <2>1, ReceivesFresh DEF PublishLatest, setup, master
<1>6. ASSUME NEW r \in Readings, DriverPublishes(r)
      PROVE  FreshInv'
  <2>1. ~FromSim(Message(r, "driver"))
    BY DEF FromSim, Message
  <2>. QED
    BY <1>6, <2>1, ReceivesFresh DEF DriverPublishes, setup, master
<1>7. CASE PublishForwardRange
  <2>1. /\ range' = cache /\ fired' = fired \cup {"ardusub"}
        /\ UNCHANGED <<launched, args, sim, cache, mission, elapsed>>
    BY <1>7 DEF PublishForwardRange, setup, master
  <2>2. elapsed \in Nat
    BY SessionTimes
  <2>. QED
    BY <2>1, <2>2 DEF FreshInv, FromSim, Runs
<1>8. CASE SetBehaviorCallback
  <2>1. /\ elapsed' = 0 /\ UNCHANGED <<launched, args, sim, fired>>
        /\ cache' = [cache EXCEPT !.fresh = FALSE]
        /\ range' = [range EXCEPT !.fresh = FALSE]
    BY <1>8 DEF SetBehaviorCallback, setup
  <2>2. cache'.source = cache.source /\ range'.source = range.source
    BY <2>1
  <2>. QED
    BY <2>1, <2>2 DEF FreshInv, FromSim, Runs
<1>9. CASE PassGateStep \/ OtherStep
  <2>1. /\ UNCHANGED <<launched, args, sim, cache, range>> /\ fired' = fired \cup {"master"}
        /\ mission' # "pass_gate" \/ UNCHANGED <<mission, elapsed>>
    BY <1>9 DEF PassGateStep, OtherStep, setup, master
  <2>. QED
    BY <2>1 DEF FreshInv, FromSim, Runs
<1>10. CASE TimePasses
  <2>1. /\ Timers \subseteq fired /\ fired' = {}
        /\ elapsed' = IF mission = "pass_gate" THEN Later(elapsed) ELSE elapsed
        /\ UNCHANGED <<launched, args, sim, cache, range, mission>>
    BY <1>10 DEF TimePasses, setup
  <2>2. /\ elapsed \in Nat
        /\ mission = "pass_gate" => elapsed' = elapsed + 1 \/ (elapsed' = elapsed /\ elapsed >= 3)
    BY <2>1, TimesType, SessionTimes, LaterCounts
  <2>3. FromSim(cache) \/ FromSim(range) => "sim" \in fired /\ "ardusub" \in fired
    BY <2>1 DEF Timers, FreshInv
  <2>. QED
    BY <2>1, <2>2, <2>3 DEF FreshInv, FromSim, Runs
<1>. QED
  BY <1>1, <1>2, <1>3, <1>4, <1>5, <1>6, <1>7, <1>8, <1>9, <1>10
     DEF Next, VisionCallback, BehaviorCallback, BridgeConnects, BridgeFails, BridgeReads,
         Advance, setup, master

(* Only the simulator's own ranges reach the cache when it is alone.       *)
LEMMA PublishBoost ==
  ASSUME SessionInv, BoostInv, Publish
  PROVE  BoostInv'
<1>1. /\ UNCHANGED <<launched, args, mode, sim, simBehavior, simSince, bridge, range, mission,
                     elapsed>>
      /\ fired' = fired \cup {"sim"}
  BY DEF Publish, setup, simulator, ping, master
<1>2. PICK r \in ComputeRange : Receives(Lidar, Message(r, "sim"))
  BY DEF Publish
<1>3. Alone' <=> Alone
  BY <1>1 DEF Alone, Runs
<1>4. Alone /\ simSince >= Ramped => Shows(cache')
  <2>. SUFFICES ASSUME Alone, simSince >= Ramped PROVE Shows(cache')
    OBVIOUS
  <2>1. cache' = [range |-> r, source |-> "sim", fresh |-> TRUE]
    BY <1>2 DEF Alone, Receives, Message
  <2>2. r # NoRange /\ r >= GateClear
    BY BoostClears DEF Alone
  <2>. QED
    BY <2>1, <2>2 DEF Shows
<1>5. simSince \in Nat /\ Ramped \in Nat
  BY SessionTimes, TimesType
<1>. QED
  BY <1>1, <1>3, <1>4, <1>5 DEF BoostInv

LEMMA CountingBoost ==
  ASSUME SessionInv, BoostInv, TimePasses
  PROVE  BoostInv'
<1>1. /\ Timers \subseteq fired /\ fired' = {}
      /\ simSince' = IF simBehavior = "" THEN 0 ELSE Later(simSince)
      /\ elapsed' = IF mission = "pass_gate" THEN Later(elapsed) ELSE elapsed
      /\ UNCHANGED <<launched, args, mode, sim, simBehavior, bridge, cache, range, mission>>
  BY DEF TimePasses, setup, ping
<1>2. Alone' <=> Alone
  BY <1>1 DEF Alone, Runs
<1>3. Alone => "sim" \in fired /\ "ardusub" \in fired
  BY <1>1 DEF Alone, Timers
<1>4. mission = "pass_gate" => "master" \in fired
  BY <1>1 DEF SessionInv, Timers
<1>5. /\ elapsed \in Nat /\ simSince \in Nat /\ simSince <= Horizon
      /\ mission = "pass_gate" => elapsed < PassTime /\ elapsed' = elapsed + 1
  BY <1>1, <1>4, SessionTimes, LaterCounts
<1>6. Alone => simSince' = simSince + 1 \/ (simSince' = simSince /\ simSince >= PassTime)
  <2>1. Alone => simSince' = Later(simSince)
    BY <1>1 DEF Alone
  <2>2. Later(simSince) = simSince + 1 \/ (Later(simSince) = simSince /\ simSince = Horizon)
    BY <1>5, LaterCounts
  <2>. QED
    BY <2>1, <2>2, TimesType
<1>7. Alone /\ simSince' > Ramped => Shows(cache)
  BY <1>3, <1>5, <1>6, TimesType DEF BoostInv
<1>8. Alone /\ simSince' > Ramped + 1 => Shows(range)
  BY <1>3, <1>5, <1>6, TimesType DEF BoostInv
<1>9. ASSUME mission = "pass_gate", Alone, simSince' + 1 >= elapsed'
      PROVE  elapsed' <= Ramped + 3 \/ elapsed' <= ClearAfter
  <2>1. simSince + 1 >= elapsed
    BY <1>5, <1>6, <1>9, TimesType
  <2>2. ~(elapsed >= ClearAfter /\ simSince >= Ramped + 2)
    BY <1>4, <1>9 DEF BoostInv
  <2>. QED
    BY <1>5, <1>9, <2>1, <2>2, TimesType
<1>10. simSince' \in Nat /\ Ramped \in Nat
  <2>1. simSince' = 0 \/ simSince' = Later(simSince)
    BY <1>1
  <2>2. Later(simSince) \in Nat
    BY <1>5, LaterCounts
  <2>. QED
    BY <2>1, <2>2, TimesType
<1>. QED
  BY <1>1, <1>2, <1>7, <1>8, <1>9, <1>10 DEF BoostInv

LEMMA BoostStep ==
  ASSUME SessionInv, BoostInv, Next
  PROVE  BoostInv'
<1>0. /\ elapsed \in Nat /\ simSince \in Nat /\ Ramped \in Nat
      /\ ClearAfter \in Nat /\ 3 <= ClearAfter
  BY SessionTimes, TimesType
<1>1. CASE SimStarts \/ Launch \/ SimDiscovered
  <2>1. ~Alone'
    BY <1>1 DEF SimStarts, Launch, SimDiscovered, simulator, SessionInv, Alone
  <2>. QED
    BY <2>1 DEF BoostInv
<1>2. CASE UNCHANGED <<launched, args, mode, sim, simBehavior, simSince, bridge, cache, range,
                       mission, elapsed, fired>>
  BY <1>2 DEF BoostInv, Alone, Runs, Shows
<1>3. CASE BehaviorCallback
  <2>1. /\ UNCHANGED <<launched, args, mode, sim, bridge, cache, range, mission, elapsed, fired>>
        /\ \/ UNCHANGED <<simBehavior, simSince>>
           \/ simBehavior' # simBehavior /\ simSince' = 0
    BY <1>3 DEF BehaviorCallback, setup, ping, master
  <2>2. CASE UNCHANGED <<simBehavior, simSince>>
    BY <1>2, <2>1, <2>2
  <2>3. CASE simSince' = 0
    <3>1. mission = "pass_gate" => elapsed <= PassTime
      BY SessionTimes
    <3>2. Ramped >= 1
      BY TimesType DEF Ramped
    <3>3. simSince' + 1 >= elapsed' => elapsed' <= ClearAfter
      BY <1>0, <2>1, <2>3
    <3>4. /\ ~(simSince' > Ramped) /\ ~(simSince' = Ramped)
          /\ ~(simSince' > Ramped + 1) /\ ~(simSince' = Ramped + 1) /\ ~(simSince' >= Ramped + 2)
      BY <1>0, <2>3, <3>2
    <3>. QED
      BY <2>1, <3>3, <3>4 DEF BoostInv
  <2>. QED
    BY <2>1, <2>2, <2>3
<1>4. CASE Publish
  BY <1>4, PublishBoost
<1>5. CASE PublishLatest
  <2>1. ~Alone'
    BY <1>5 DEF PublishLatest, ping, Alone
  <2>. QED
    BY <2>1 DEF BoostInv
<1>6. CASE BridgeConnects \/ BridgeFails \/ \E r \in Readings : BridgeReads(r)
  <2>1. ~Alone'
    BY <1>6 DEF BridgeConnects, BridgeFails, BridgeReads, Alone
  <2>. QED
    BY <2>1 DEF BoostInv
<1>7. ASSUME NEW r \in Readings, DriverPublishes(r)
      PROVE  BoostInv'
  <2>1. /\ Receives(Ping1d, Message(r, "driver"))
        /\ UNCHANGED <<launched, args, mode, sim, simBehavior, simSince, bridge, range, mission,
                       elapsed, fired>>
    BY <1>7 DEF DriverPublishes, setup, simulator, ping, master
  <2>2. CASE args.ping_range_topic = Lidar
    BY <1>2, <2>1, <2>2 DEF Receives, Lidar, Ping1d
  <2>3. CASE args.ping_range_topic # Lidar
    <3>1. ~Alone'
      BY <2>1, <2>3 DEF Alone
    <3>. QED
      BY <3>1 DEF BoostInv
  <2>. QED
    BY <2>2, <2>3
<1>8. CASE PublishForwardRange
  <2>1. /\ range' = cache /\ fired' = fired \cup {"ardusub"}
        /\ UNCHANGED <<launched, args, mode, sim, simBehavior, simSince, bridge, cache, mission,
                       elapsed>>
    BY <1>8 DEF PublishForwardRange, setup, simulator, ping, master
  <2>. QED
    BY <1>0, <2>1 DEF BoostInv, Alone, Runs, Shows
<1>9. CASE SetBehaviorCallback
  <2>1. /\ elapsed' = 0
        /\ cache' = [cache EXCEPT !.fresh = FALSE]
        /\ range' = [range EXCEPT !.fresh = FALSE]
        /\ UNCHANGED <<launched, args, mode, sim, simBehavior, simSince, bridge, fired>>
    BY <1>9 DEF SetBehaviorCallback, setup, simulator, ping
  <2>2. cache'.range = cache.range /\ range'.range = range.range
    BY <2>1
  <2>3. elapsed' <= ClearAfter /\ ~(elapsed' >= ClearAfter)
    BY <1>0, <2>1
  <2>. QED
    BY <2>1, <2>2, <2>3 DEF BoostInv, Alone, Runs, Shows
<1>10. CASE PassGateStep
  <2>1. /\ UNCHANGED <<launched, args, mode, sim, simBehavior, simSince, bridge, cache, range>>
        /\ fired' = fired \cup {"master"}
        /\ mission = "pass_gate"
    BY <1>10 DEF PassGateStep, setup, simulator, ping
  <2>2. CASE mission' = "done"
    BY <2>1, <2>2 DEF BoostInv, Alone, Runs, Shows
  <2>3. CASE ~IsGateCleared /\ UNCHANGED <<mission, elapsed>>
    <3>1. Alone /\ elapsed >= ClearAfter /\ simSince >= Ramped + 2 => IsGateCleared
      BY <1>0 DEF BoostInv, Shows, IsGateCleared
    <3>. QED
      BY <2>1, <2>3, <3>1 DEF BoostInv, Alone, Runs, Shows
  <2>. QED
    BY <1>10, <2>2, <2>3 DEF PassGateStep, master
<1>11. CASE OtherStep
  <2>1. /\ UNCHANGED <<launched, args, mode, sim, simBehavior, simSince, bridge, cache, range,
                       mission, elapsed>>
        /\ fired' = fired \cup {"master"} /\ mission # "pass_gate"
    BY <1>11 DEF OtherStep, setup, simulator, ping, master
  <2>. QED
    BY <2>1 DEF BoostInv, Alone, Runs, Shows
<1>12. CASE TimePasses
  BY <1>12, CountingBoost
<1>13. CASE \/ \E v \in Sightings : VisionCallback(v)
            \/ Advance
  BY <1>2, <1>13 DEF VisionCallback, Advance, setup, simulator, ping, master
<1>. QED
  BY <1>1, <1>3, <1>4, <1>5, <1>6, <1>7, <1>8, <1>9, <1>10, <1>11, <1>12, <1>13 DEF Next
-----------------------------------------------------------------------------
LEMMA BenchInit ==
  Init => BenchInv
<1>. SUFFICES ASSUME Init PROVE BenchInv
  OBVIOUS
<1>1. SessionInv
  <2>1. None \notin {"find_gate", "gate_approach"}
    BY BenchAssumption
  <2>. QED
    BY <2>1, NoTime DEF Init, SessionInv
<1>4. CommandInv
  <2>. DEFINE Commands == {"find_gate", "traverse_gate", "pass_gate"}
  <2>1. <<>> \in Seq(Commands)
    OBVIOUS
  <2>. QED
    BY <2>1 DEF Init, CommandInv
<1>2. FreshInv
  BY DEF Init, FreshInv, FromSim, NoMessage
<1>3. BoostInv
  BY DEF Init, BoostInv, Alone
<1>. QED
  BY <1>1, <1>2, <1>3, <1>4 DEF BenchInv

LEMMA BenchStep ==
  BenchInv /\ [Next]_vars => BenchInv'
<1>1. ASSUME BenchInv, Next PROVE BenchInv'
  BY <1>1, SessionStep, CommandStep, FreshStep, BoostStep DEF BenchInv
<1>2. ASSUME BenchInv, UNCHANGED vars PROVE BenchInv'
  <2>1. /\ UNCHANGED <<args, launched, mode, sim, vision, simBehavior, simSince, bridge, cache,
                       range, node, toMaster, toSim, mission, elapsed, fired>>
    BY <1>2 DEF vars, setup, simulator, ping, planner, master
  <2>2. SessionInv' /\ CommandInv'
    BY <1>2, <2>1 DEF BenchInv, SessionInv, CommandInv
  <2>3. FreshInv'
    BY <1>2, <2>1 DEF BenchInv, FreshInv, FromSim, Runs
  <2>4. BoostInv'
    BY <1>2, <2>1 DEF BenchInv, BoostInv, Alone, Shows, Runs
  <2>. QED
    BY <2>2, <2>3, <2>4 DEF BenchInv
<1>. QED
  BY <1>1, <1>2

(* The caches keep time with the passes: what the simulator shows in one   *)
(* period is in ardusub_node's cache, in the next at the master.           *)
THEOREM CachesKeepTime == Spec => []BenchInv
<1>. QED
  BY BenchInit, BenchStep, PTL DEF Spec

(* However near the television shows the gate, for every set of ranges,    *)
(* areas and delays that the launch allows, a simulator that heard the     *)
(* command in time and is alone on the topic ends pass_gate by its range   *)
(* before pass_gate's time is up.                                          *)
THEOREM EndsByRange == Spec => []ClearsByItself
<1>1. ASSUME BenchInv PROVE ClearsByItself
  <2>. SUFFICES ASSUME mission = "pass_gate", AloneInTime PROVE elapsed < PassTime
    BY DEF ClearsByItself
  <2>1. elapsed <= Ramped + 3 \/ elapsed <= ClearAfter
    BY <1>1 DEF BenchInv, BoostInv, Alone, AloneInTime
  <2>2. elapsed \in Nat
    BY <1>1, SessionTimes DEF BenchInv
  <2>. QED
    BY <2>1, <2>2, TimesType
<1>. QED
  BY <1>1, CachesKeepTime, PTL

(* A simulated range that ends a pass was published during this pass, for  *)
(* every delay of the callbacks between the passes.                        *)
THEOREM EndsByItsOwnRange == Spec => ClearedAnew
<1>1. ASSUME BenchInv, [Next]_vars
      PROVE  [mission = "pass_gate" /\ mission' = "done" /\ elapsed < PassTime
                /\ range.source = "sim" => range.fresh]_vars
  <2>. SUFFICES ASSUME Next, mission = "pass_gate", mission' = "done", elapsed < PassTime,
                       range.source = "sim"
                PROVE  range.fresh
    BY <1>1
  <2>0. elapsed \in Nat /\ PassTime \in Nat /\ 3 <= ClearAfter /\ ClearAfter \in Nat
    BY <1>1, SessionTimes, TimesType DEF BenchInv
  <2>1. CASE SetBehaviorCallback
    <3>1. mission' = Head(toMaster) /\ toMaster # <<>>
      BY <2>1 DEF SetBehaviorCallback
    <3>2. Head(toMaster) \in {"find_gate", "traverse_gate", "pass_gate"}
      BY <1>1, <3>1 DEF BenchInv, CommandInv
    <3>. QED
      BY <3>1, <3>2
  <2>2. CASE PassGateStep
    <3>1. IsGateCleared \/ elapsed >= PassTime
      BY <2>2 DEF PassGateStep, master
    <3>2. elapsed >= ClearAfter
      BY <2>0, <3>1 DEF IsGateCleared
    <3>. QED
      BY <1>1, <2>0, <3>2 DEF BenchInv, FreshInv, FromSim
  <2>3. CASE mission' = mission
    BY <2>3
  <2>. QED
    BY <2>1, <2>2, <2>3
       DEF Next, SimStarts, Launch, SimDiscovered, VisionCallback, BehaviorCallback, Publish,
           BridgeConnects, BridgeFails, PublishLatest, BridgeReads, DriverPublishes,
           PublishForwardRange, OtherStep, Advance, TimePasses, master
<1>. QED
  BY <1>1, CachesKeepTime, PTL DEF Spec, ClearedAnew
=============================================================================
