---------------------------- MODULE MappingProofs ----------------------------
(***************************************************************************)
(* Theorems of Mapping for all classes, distances, ranges and grids.       *)
(***************************************************************************)
EXTENDS Mapping, WellFoundedInduction, SequenceTheorems, TLAPS

(* A quarter turn moves a point along one axis, by the distance.           *)
LEMMA PolarMoves ==
  ASSUME NEW p, p.x \in Int, p.y \in Int, NEW h \in 0 .. 3, NEW d \in Nat
  PROVE  /\ PolarToCartesian(p, h, d) \in Points
         /\ AxisDistance(p.x, PolarToCartesian(p, h, d).x) <= d
         /\ AxisDistance(p.y, PolarToCartesian(p, h, d).y) <= d
<1>. DEFINE q == PolarToCartesian(p, h, d)
<1>1. CASE h = 0
  <2>1. q = [x |-> p.x + d, y |-> p.y]
    BY <1>1 DEF PolarToCartesian, Points
  <2>. QED
    BY <2>1 DEF Points, AxisDistance
<1>2. CASE h = 1
  <2>1. q = [x |-> p.x, y |-> p.y + d]
    BY <1>2 DEF PolarToCartesian, Points
  <2>. QED
    BY <2>1 DEF Points, AxisDistance
<1>3. CASE h = 2
  <2>1. q = [x |-> p.x - d, y |-> p.y]
    BY <1>3 DEF PolarToCartesian, Points
  <2>. QED
    BY <2>1 DEF Points, AxisDistance
<1>4. CASE h = 3
  <2>1. q = [x |-> p.x, y |-> p.y - d]
    BY <1>4 DEF PolarToCartesian, Points
  <2>. QED
    BY <2>1 DEF Points, AxisDistance
<1>. QED
  BY <1>1, <1>2, <1>3, <1>4

LEMMA RelativeHeadingType ==
  ASSUME heading \in 0 .. 3, reference \in 0 .. 3
  PROVE  RelativeHeading \in 0 .. 3
  BY DEF RelativeHeading

(* LandmarkDatabase.add keeps the database one, and always changes it.     *)
LEMMA AddLandmarkType ==
  ASSUME landmarks \in Seq(Landmarks), NEW label \in Labels, NEW p \in Points
  PROVE  AddLandmark(label, p) \in Seq(Landmarks)
<1>. DEFINE same == {i \in DOMAIN landmarks : Same(label, p, landmarks[i])}
            first == CHOOSE i \in same : \A j \in same : i <= j
            n == landmarks[first].observations
            new == [label |-> label, x |-> p.x, y |-> p.y, observations |-> 1]
<1>1. CASE same = {}
  <2>1. new \in Landmarks
    BY DEF Landmarks, Points
  <2>. QED
    BY <1>1, <2>1 DEF AddLandmark
<1>2. CASE same # {} /\ first \in DOMAIN landmarks
  <2>1. landmarks[first] \in Landmarks
    BY <1>2
  <2>2. n \in Nat \ {0}
    BY <2>1 DEF Landmarks
  <2>3. \A a, b \in Int : (a * n + b) \div (n + 1) \in Int
    <3>. SUFFICES ASSUME NEW a \in Int, NEW b \in Int
                  PROVE  (a * n + b) \div (n + 1) \in Int
      OBVIOUS
    <3>1. a * n + b \in Int /\ n + 1 \in Nat \ {0}
      BY <2>2
    <3>. QED
      BY <3>1
  <2>. DEFINE merged == [label |-> label,
                         x |-> (landmarks[first].x * n + p.x) \div (n + 1),
                         y |-> (landmarks[first].y * n + p.y) \div (n + 1),
                         observations |-> n + 1]
  <2>4. merged \in Landmarks
    <3>1. (landmarks[first].x * n + p.x) \div (n + 1) \in Int
      BY <2>1, <2>3 DEF Landmarks, Points
    <3>2. (landmarks[first].y * n + p.y) \div (n + 1) \in Int
      BY <2>1, <2>3 DEF Landmarks, Points
    <3>. HIDE DEF n
    <3>. QED
      BY <2>2, <3>1, <3>2, SMTT(30) DEF Landmarks
  <2>5. AddLandmark(label, p) = [landmarks EXCEPT ![first] = merged]
    BY <1>2 DEF AddLandmark
  <2>. QED
    BY <1>2, <2>4, <2>5
<1>3. CASE same # {} /\ first \notin DOMAIN landmarks
  <2>1. AddLandmark(label, p) = landmarks
    BY <1>3 DEF AddLandmark
  <2>. QED
    BY <2>1
<1>. QED
  BY <1>1, <1>2, <1>3

(* A raised cell is above unknown and at most full.                        *)
LEMMA IncreaseRaises ==
  ASSUME MappingInv, NEW cell \in Cells
  PROVE  /\ DOMAIN Increase(cell) = DOMAIN grid \cup {cell}
         /\ \A c \in DOMAIN Increase(cell) :
              Increase(cell)[c] \in Unknown + 1 .. MaxOccupancy
<1>1. \A c \in DOMAIN grid : grid[c] \in 51 .. 100
  BY DEF MappingInv, Unknown, MaxOccupancy
<1>2. (IF cell \in DOMAIN grid THEN grid[cell] ELSE 50) \in 50 .. 100
  BY <1>1
<1>. QED
  BY <1>1, <1>2 DEF Increase, Unknown, MaxOccupancy, OccupancyIncrement

(* An update leaves the map well formed, moves the pose by the distance    *)
(* unless a landmark is entered, and enters what is in the buffer only.    *)
LEMMA EngineStep ==
  ASSUME MappingInv, NEW h \in 0 .. 3, EngineUpdate(h)
  PROVE  /\ pose' \in Points
         /\ DOMAIN grid' \subseteq Cells
         /\ \A c \in DOMAIN grid' : grid'[c] \in Unknown + 1 .. MaxOccupancy
         /\ DOMAIN labels' \subseteq DOMAIN grid'
         /\ landmarks' \in Seq(Landmarks)
         /\ landmarks' # landmarks => sonar # None /\ vision # None
         /\ grid' # grid => sonar # None
         /\ sonar = None \/ vision = None =>
              /\ AxisDistance(pose.x, pose'.x) <= distance
              /\ AxisDistance(pose.y, pose'.y) <= distance
<1>. DEFINE reckoned == PolarToCartesian(pose, h, distance)
            echo == PolarToCartesian(reckoned, h, sonar)
            cell == WorldToGrid(echo)
<1>1. /\ reckoned \in Points
      /\ AxisDistance(pose.x, reckoned.x) <= distance
      /\ AxisDistance(pose.y, reckoned.y) <= distance
  BY PolarMoves DEF MappingInv, Points
<1>. HIDE DEF reckoned
<1>2. CASE pose' = reckoned /\ UNCHANGED <<grid, labels, landmarks>>
  BY <1>1, <1>2 DEF MappingInv
<1>3. CASE /\ sonar # None
           /\ cell \in Cells
           /\ vision = None
           /\ pose' = reckoned
           /\ grid' = Increase(cell)
           /\ UNCHANGED <<labels, landmarks>>
  <2>. HIDE DEF cell
  <2>1. /\ DOMAIN grid' = DOMAIN grid \cup {cell}
        /\ \A c \in DOMAIN grid' : grid'[c] \in Unknown + 1 .. MaxOccupancy
    BY <1>3, IncreaseRaises
  <2>2. DOMAIN grid' \subseteq Cells /\ DOMAIN labels' \subseteq DOMAIN grid'
    BY <1>3, <2>1 DEF MappingInv
  <2>. QED
    BY <1>1, <1>3, <2>1, <2>2 DEF MappingInv
<1>4. CASE /\ sonar # None
           /\ cell \in Cells
           /\ vision # None
           /\ grid' = Increase(cell)
           /\ labels' = AddLabel(cell, vision)
           /\ landmarks' = AddLandmark(vision, echo)
           /\ \/ /\ WithinReach(landmarks', vision, reckoned) = {}
                 /\ pose' = reckoned
              \/ \E i \in WithinReach(landmarks', vision, reckoned) :
                   /\ NearestLandmark(landmarks', vision, reckoned, i)
                   /\ pose' = CorrectFromLandmark(landmarks'[i], sonar, h)
  <2>1. sonar \in Nat /\ vision \in Labels
    BY <1>4, MappingAssumption DEF MappingInv
  <2>2. echo \in Points
    BY <1>1, <2>1, PolarMoves DEF Points
  <2>3. landmarks' \in Seq(Landmarks)
    BY <1>4, <2>1, <2>2, AddLandmarkType DEF MappingInv
  <2>4. DOMAIN AddLabel(cell, vision) = DOMAIN labels \cup {cell}
    BY DEF AddLabel
  <2>5. pose' \in Points
    <3>1. CASE pose' = reckoned
      BY <1>1, <3>1
    <3>2. ASSUME NEW i \in WithinReach(landmarks', vision, reckoned),
                 pose' = CorrectFromLandmark(landmarks'[i], sonar, h)
          PROVE  pose' \in Points
      <4>1. landmarks'[i] \in Landmarks
        BY <2>3 DEF WithinReach
      <4>2. landmarks'[i].x \in Int /\ landmarks'[i].y \in Int
        BY <4>1 DEF Landmarks
      <4>3. (h + 2) % 4 \in 0 .. 3
        OBVIOUS
      <4>. QED
        BY <2>1, <3>2, <4>2, <4>3, PolarMoves DEF CorrectFromLandmark
    <3>. QED
      BY <1>4, <3>1, <3>2
  <2>. HIDE DEF cell, echo
  <2>. QED
    BY <1>4, <2>3, <2>4, <2>5, IncreaseRaises DEF MappingInv
<1>. QED
  BY <1>2, <1>3, <1>4 DEF EngineUpdate, reckoned

LEMMA MappingStep ==
  ASSUME MappingInv, [Next]_vars
  PROVE  MappingInv'
<1>1. ASSUME NEW h \in Headings, ImuCallback(h)
      PROVE  MappingInv'
  <2>1. h \in 0 .. 3
    BY MappingAssumption
  <2>2. [x |-> 0, y |-> 0] \in Points
    BY DEF Points
  <2>. QED
    BY <1>1, <2>1, <2>2 DEF MappingInv, ImuCallback, ghosts
<1>2. ASSUME NEW d \in Steps, PoseCallback(d)
      PROVE  MappingInv'
  <2>1. d \in Nat
    BY MappingAssumption
  <2>. QED
    BY <1>2, <2>1 DEF MappingInv, PoseCallback, map
<1>3. ASSUME NEW r \in Ranges, PingCallback(r)
      PROVE  MappingInv'
  BY <1>3 DEF MappingInv, PingCallback, map
<1>4. ASSUME NEW label \in Labels, VisionCallback(label)
      PROVE  MappingInv'
  BY <1>4 DEF MappingInv, VisionCallback, map
<1>5. CASE UpdateLoop
  <2>1. RelativeHeading \in 0 .. 3
    BY <1>5, RelativeHeadingType, MappingAssumption DEF MappingInv, UpdateLoop
  <2>2. EngineUpdate(RelativeHeading)
    BY <1>5 DEF UpdateLoop
  <2>. QED
    BY <1>5, <2>1, <2>2, EngineStep DEF MappingInv, UpdateLoop, ClearTransient, ResetDistance
<1>6. CASE UNCHANGED vars
  BY <1>6 DEF MappingInv, vars, buffer, map, ghosts
<1>. QED
  BY <1>1, <1>2, <1>3, <1>4, <1>5, <1>6 DEF Next

(* The buffer of mapping_node.py holds nothing from before the last        *)
(* update, and the map is well formed.                                     *)
THEOREM MappingCorrect == Spec => []MappingInv
<1>1. Init => MappingInv
  <2>. SUFFICES ASSUME Init PROVE MappingInv
    OBVIOUS
  <2>1. pose \in Points
    BY DEF Init, Points
  <2>2. DOMAIN grid = {} /\ DOMAIN labels = {}
    BY DEF Init
  <2>3. landmarks \in Seq(Landmarks)
    BY DEF Init
  <2>4. poseKnown \in BOOLEAN
    BY DEF Init
  <2>5. reference = None /\ sonar = None /\ vision = None
    BY DEF Init
  <2>6. heading = 0 /\ distance = 0 /\ moved = 0
    BY DEF Init
  <2>. QED
    BY <2>1, <2>2, <2>3, <2>4, <2>5, <2>6 DEF MappingInv
<1>2. MappingInv /\ [Next]_vars => MappingInv'
  BY MappingStep
<1>. QED
  BY <1>1, <1>2, PTL DEF Spec

(* _update_loop never integrates a distance twice.                         *)
THEOREM DistanceOnce == Spec => NeverOvercounts
<1>. DEFINE Within == /\ AxisDistance(pose.x, pose'.x) <= moved
                      /\ AxisDistance(pose.y, pose'.y) <= moved
<1>1. MappingInv /\ [Next]_vars =>
        [reference # None /\ (sonar = None \/ vision = None) => Within]_vars
  <2>. SUFFICES ASSUME MappingInv, Next, reference # None,
                       sonar = None \/ vision = None
                PROVE  Within
    OBVIOUS
  <2>1. CASE UpdateLoop
    <3>1. RelativeHeading \in 0 .. 3
      BY <2>1, RelativeHeadingType, MappingAssumption DEF MappingInv, UpdateLoop
    <3>2. /\ AxisDistance(pose.x, pose'.x) <= distance
          /\ AxisDistance(pose.y, pose'.y) <= distance
          /\ pose' \in Points
      BY <2>1, <3>1, EngineStep DEF UpdateLoop
    <3>. QED
      BY <3>2 DEF MappingInv, Points, AxisDistance
  <2>2. CASE pose' = pose
    BY <2>2 DEF MappingInv, Points, AxisDistance
  <2>. QED
    BY <2>1, <2>2 DEF Next, ImuCallback, PoseCallback, PingCallback, VisionCallback, map
<1>. QED
  BY <1>1, MappingCorrect, PTL DEF Spec, NeverOvercounts

(* clear_transient: no Ping and no detection enters the map twice.         *)
THEOREM EchoesCountOnce == Spec => ObservedOnce
<1>1. MappingInv /\ [Next]_vars =>
        [/\ landmarks' # landmarks => pinged /\ seen
         /\ grid' # grid => pinged]_vars
  <2>. SUFFICES ASSUME MappingInv, Next
                PROVE  /\ landmarks' # landmarks => pinged /\ seen
                       /\ grid' # grid => pinged
    OBVIOUS
  <2>1. CASE UpdateLoop
    <3>1. RelativeHeading \in 0 .. 3
      BY <2>1, RelativeHeadingType, MappingAssumption DEF MappingInv, UpdateLoop
    <3>. QED
      BY <2>1, <3>1, EngineStep DEF UpdateLoop, MappingInv
  <2>2. CASE UNCHANGED <<grid, landmarks>>
    BY <2>2
  <2>. QED
    BY <2>1, <2>2 DEF Next, ImuCallback, PoseCallback, PingCallback, VisionCallback, map
<1>. QED
  BY <1>1, MappingCorrect, PTL DEF Spec, ObservedOnce

-----------------------------------------------------------------------------
LEMMA LeastOf ==
  ASSUME NEW S \in SUBSET Nat, S # {}
  PROVE  \E x \in S : \A y \in S : x <= y
<1>. DEFINE Less == {p \in Nat \X Nat : p[1] < p[2]}
<1>1. IsWellFoundedOn(Less, Nat)
  BY NatLessThanWellFounded DEF OpToRel
<1>. HIDE DEF Less
<1>2. PICK x \in S : \A y \in S : ~(<<y, x>> \in Less)
  BY <1>1, WFMin
<1>3. ASSUME NEW y \in S
      PROVE  x <= y
  <2>1. x \in Nat /\ y \in Nat
    OBVIOUS
  <2>2. y < x => <<y, x>> \in Less
    BY <2>1 DEF Less
  <2>3. ~(<<y, x>> \in Less)
    BY <1>2
  <2>. QED
    BY <2>1, <2>2, <2>3
<1>. QED
  BY <1>3

(* Points that are nearer than m are so on each axis.                      *)
LEMMA AxisWithin ==
  ASSUME NEW m \in Nat, NEW a \in Int, NEW b \in Int, a * a + b * b < m * m
  PROVE  a < m /\ -m < a /\ b < m /\ -m < b
<1>1. a * a >= 0 /\ b * b >= 0
  OBVIOUS
<1>2. ASSUME NEW c \in Int, c >= m \/ c <= -m
      PROVE  c * c >= m * m
  <2>1. CASE c >= m
    <3>1. c * c >= c * m /\ c * m >= m * m
      BY <2>1
    <3>. QED
      BY <3>1
  <2>2. CASE c <= -m
    <3>1. -c >= m
      BY <2>2
    <3>2. (-c) * (-c) >= (-c) * m /\ (-c) * m >= m * m
      BY <3>1
    <3>. QED
      BY <3>2
  <2>. QED
    BY <1>2, <2>1, <2>2
<1>3. ASSUME a >= m \/ a <= -m
      PROVE  FALSE
  <2>1. a * a >= m * m
    BY <1>2, <1>3
  <2>. HIDE <1>3
  <2>2. a * a + b * b >= m * m
    BY <1>1, <2>1
  <2>. QED
    BY <2>2
<1>4. ASSUME b >= m \/ b <= -m
      PROVE  FALSE
  <2>1. b * b >= m * m
    BY <1>2, <1>4
  <2>2. a * a + b * b >= m * m
    BY <1>1, <2>1
  <2>. QED
    BY <2>2
<1>. QED
  BY <1>3, <1>4

(* The rounded mean of n observations at a and one at b lies between them. *)
LEMMA MeanBetween ==
  ASSUME NEW n \in Nat \ {0}, NEW a \in Int, NEW b \in Int
  PROVE  /\ (a * n + b) \div (n + 1) \in Int
         /\ AxisDistance(b, (a * n + b) \div (n + 1)) <= AxisDistance(a, b)
<1>. DEFINE q == (a * n + b) \div (n + 1)
            r == (a * n + b) % (n + 1)
<1>1. /\ q \in Int /\ r \in 0 .. n
      /\ a * n + b = (n + 1) * q + r
  <2>1. a * n + b \in Int
    OBVIOUS
  <2>. QED
    BY <2>1
<1>. HIDE DEF q, r
<1>2. n * (a - q) + (b - q) = r
  BY <1>1
<1>3. CASE a <= b
  <2>1. q <= b
    <3>. SUFFICES ASSUME q > b PROVE FALSE
      BY <1>1
    <3>1. n * (a - q) <= 0 /\ b - q < 0
      BY <1>1, <1>3
    <3>. QED
      BY <1>1, <1>2, <3>1
  <2>2. q >= a
    <3>. SUFFICES ASSUME q < a PROVE FALSE
      BY <1>1
    <3>1. n * (a - q) >= n /\ b - q >= 1
      BY <1>1, <1>3
    <3>. QED
      BY <1>1, <1>2, <3>1
  <2>. QED
    BY <1>1, <1>3, <2>1, <2>2 DEF q, AxisDistance
<1>4. CASE a > b
  <2>1. q >= b
    <3>. SUFFICES ASSUME q < b PROVE FALSE
      BY <1>1
    <3>1. n * (a - q) >= n /\ b - q >= 1
      BY <1>1, <1>4
    <3>. QED
      BY <1>1, <1>2, <3>1
  <2>2. q <= a
    <3>. SUFFICES ASSUME q > a PROVE FALSE
      BY <1>1
    <3>1. n * (a - q) <= 0 /\ b - q < 0
      BY <1>1, <1>4
    <3>. QED
      BY <1>1, <1>2, <3>1
  <2>. QED
    BY <1>1, <1>4, <2>1, <2>2 DEF q, AxisDistance
<1>. QED
  BY <1>3, <1>4

(* A landmark that is the only one of its label is, once an echo has been  *)
(* entered for it, nearer to the echo than Match.                          *)
LEMMA SoleLandmark ==
  ASSUME landmarks \in Seq(Landmarks), NEW label \in Labels, NEW p \in Points,
         NEW i \in DOMAIN AddLandmark(label, p),
         AddLandmark(label, p)[i].label = label,
         \A j, k \in DOMAIN AddLandmark(label, p) :
           AddLandmark(label, p)[j].label = label
             /\ AddLandmark(label, p)[k].label = label => j = k
  PROVE  /\ AxisDistance(p.x, AddLandmark(label, p)[i].x) < Match
         /\ AxisDistance(p.y, AddLandmark(label, p)[i].y) < Match
<1>. DEFINE same == {j \in DOMAIN landmarks : Same(label, p, landmarks[j])}
            first == CHOOSE j \in same : \A k \in same : j <= k
            n == landmarks[first].observations
            db == AddLandmark(label, p)
<1>0. /\ p.x \in Int /\ p.y \in Int /\ Match \in Nat \ {0}
      /\ DOMAIN landmarks = 1 .. Len(landmarks) /\ Len(landmarks) \in Nat
  BY LenProperties, MappingAssumption DEF Points
<1>1. CASE same = {}
  <2>. DEFINE new == [label |-> label, x |-> p.x, y |-> p.y, observations |-> 1]
  <2>1. new \in Landmarks
    BY DEF Landmarks, Points
  <2>2. db = Append(landmarks, new)
    BY <1>1 DEF AddLandmark
  <2>3. Len(landmarks) + 1 \in DOMAIN db /\ db[Len(landmarks) + 1] = new
    BY <1>0, <2>1, <2>2, AppendProperties, LenProperties
  <2>4. i = Len(landmarks) + 1
    BY <2>3
  <2>. QED
    BY <1>0, <2>3, <2>4 DEF AxisDistance
<1>2. CASE same # {}
  <2>1. first \in same
    <3>1. same \in SUBSET Nat
      BY <1>0
    <3>. HIDE DEF same
    <3>2. \E j \in same : \A k \in same : j <= k
      BY <1>2, <3>1, LeastOf
    <3>. QED
      BY <3>2
  <2>2. first \in DOMAIN landmarks /\ Same(label, p, landmarks[first])
    BY <2>1
  <2>. HIDE DEF first
  <2>3. landmarks[first] \in Landmarks
    BY <2>2
  <2>4. /\ landmarks[first].x \in Int /\ landmarks[first].y \in Int
        /\ n \in Nat \ {0}
    BY <2>3 DEF Landmarks
  <2>. DEFINE a == landmarks[first].x
              b == landmarks[first].y
              merged == [label |-> label,
                         x |-> (a * n + p.x) \div (n + 1),
                         y |-> (b * n + p.y) \div (n + 1),
                         observations |-> n + 1]
  <2>5. db = [landmarks EXCEPT ![first] = merged]
    BY <1>2 DEF AddLandmark, first
  <2>6. db[first] = merged /\ first \in DOMAIN db
    BY <2>2, <2>5
  <2>7. i = first
    BY <2>6
  <2>8. /\ AxisDistance(p.x, merged.x) <= AxisDistance(a, p.x)
        /\ AxisDistance(p.y, merged.y) <= AxisDistance(b, p.y)
        /\ merged.x \in Int /\ merged.y \in Int
    <3>. HIDE DEF n, a, b
    <3>. QED
      BY <1>0, <2>4, MeanBetween DEF a, b
  <2>9. AxisDistance(a, p.x) < Match /\ AxisDistance(b, p.y) < Match
    <3>. DEFINE dx == a - p.x
                dy == b - p.y
    <3>1. dx \in Int /\ dy \in Int /\ Match \in Nat
      BY <1>0, <2>4
    <3>2. dx * dx + dy * dy < Match * Match
      BY <2>2 DEF Same, Distance2
    <3>3. dx < Match /\ -Match < dx /\ dy < Match /\ -Match < dy
      <4>. HIDE DEF dx, dy
      <4>. QED
        BY <3>1, <3>2, AxisWithin
    <3>. QED
      BY <1>0, <2>4, <3>3 DEF AxisDistance
  <2>10. AxisDistance(a, p.x) \in Nat /\ AxisDistance(b, p.y) \in Nat
    BY <1>0, <2>4 DEF AxisDistance
  <2>11. AxisDistance(p.x, merged.x) \in Nat /\ AxisDistance(p.y, merged.y) \in Nat
    BY <1>0, <2>8 DEF AxisDistance
  <2>. HIDE DEF merged, a, b
  <2>. QED
    BY <1>0, <2>6, <2>7, <2>8, <2>9, <2>10, <2>11
<1>. QED
  BY <1>1, <1>2

(* Back by as much as ahead is where it began; and so is a point shifted   *)
(* along with it.                                                          *)
LEMMA BackFromEcho ==
  ASSUME NEW p \in Points, NEW q \in Points, NEW h \in 0 .. 3, NEW d \in Nat
  PROVE  /\ CorrectFromLandmark(q, d, h).x = p.x + q.x - PolarToCartesian(p, h, d).x
         /\ CorrectFromLandmark(q, d, h).y = p.y + q.y - PolarToCartesian(p, h, d).y
<1>. DEFINE back == CorrectFromLandmark(q, d, h)
            echo == PolarToCartesian(p, h, d)
<1>0. p.x \in Int /\ p.y \in Int /\ q.x \in Int /\ q.y \in Int
  BY DEF Points
<1>1. CASE h = 0
  <2>1. echo = [x |-> p.x + d, y |-> p.y]
    BY <1>0, <1>1 DEF PolarToCartesian
  <2>2. back = [x |-> q.x - d, y |-> q.y]
    BY <1>0, <1>1 DEF CorrectFromLandmark, PolarToCartesian
  <2>. QED
    BY <1>0, <2>1, <2>2
<1>2. CASE h = 1
  <2>1. echo = [x |-> p.x, y |-> p.y + d]
    BY <1>0, <1>2 DEF PolarToCartesian
  <2>2. back = [x |-> q.x, y |-> q.y - d]
    BY <1>0, <1>2 DEF CorrectFromLandmark, PolarToCartesian
  <2>. QED
    BY <1>0, <2>1, <2>2
<1>3. CASE h = 2
  <2>1. echo = [x |-> p.x - d, y |-> p.y]
    BY <1>0, <1>3 DEF PolarToCartesian
  <2>2. (h + 2) % 4 = 0
    BY <1>3
  <2>3. back = [x |-> q.x + d, y |-> q.y]
    BY <1>0, <2>2 DEF CorrectFromLandmark, PolarToCartesian
  <2>. QED
    BY <1>0, <2>1, <2>3
<1>4. CASE h = 3
  <2>1. echo = [x |-> p.x, y |-> p.y - d]
    BY <1>0, <1>4 DEF PolarToCartesian
  <2>2. (h + 2) % 4 = 1
    BY <1>4
  <2>3. back = [x |-> q.x, y |-> q.y + d]
    BY <1>0, <2>2 DEF CorrectFromLandmark, PolarToCartesian
  <2>. QED
    BY <1>0, <2>1, <2>3
<1>. QED
  BY <1>1, <1>2, <1>3, <1>4

(* An update that enters a landmark: the pose is reckoned, and is put      *)
(* before the landmark if there is one near.                               *)
LEMMA EnteringStep ==
  ASSUME MappingInv, NEW h \in 0 .. 3, EngineUpdate(h), landmarks' # landmarks,
         \A i, j \in DOMAIN landmarks' :
           landmarks'[i].label = vision /\ landmarks'[j].label = vision => i = j
  PROVE  /\ AxisDistance(pose.x, pose'.x) < distance + Match
         /\ AxisDistance(pose.y, pose'.y) < distance + Match
<1>. DEFINE reckoned == PolarToCartesian(pose, h, distance)
            echo == PolarToCartesian(reckoned, h, sonar)
<1>1. /\ reckoned \in Points
      /\ AxisDistance(pose.x, reckoned.x) <= distance
      /\ AxisDistance(pose.y, reckoned.y) <= distance
  BY PolarMoves DEF MappingInv, Points
<1>2. /\ sonar # None /\ vision # None
      /\ landmarks' = AddLandmark(vision, echo)
      /\ \/ pose' = reckoned
         \/ \E i \in WithinReach(landmarks', vision, reckoned) :
              pose' = CorrectFromLandmark(landmarks'[i], sonar, h)
  BY DEF EngineUpdate
<1>3. sonar \in Nat /\ vision \in Labels /\ distance \in Nat /\ Match \in Nat \ {0}
  BY <1>2, MappingAssumption DEF MappingInv
<1>. HIDE DEF reckoned
<1>4. echo \in Points
  BY <1>1, <1>3, PolarMoves DEF Points
<1>. HIDE DEF echo
<1>5. pose.x \in Int /\ pose.y \in Int /\ reckoned.x \in Int /\ reckoned.y \in Int
      /\ echo.x \in Int /\ echo.y \in Int
  BY <1>1, <1>4 DEF MappingInv, Points
<1>6. CASE pose' = reckoned
  BY <1>1, <1>3, <1>5, <1>6 DEF AxisDistance
<1>7. CASE \E i \in WithinReach(landmarks', vision, reckoned) :
             pose' = CorrectFromLandmark(landmarks'[i], sonar, h)
  <2>1. PICK i \in WithinReach(landmarks', vision, reckoned) :
          pose' = CorrectFromLandmark(landmarks'[i], sonar, h)
    BY <1>7
  <2>2. i \in DOMAIN landmarks' /\ landmarks'[i].label = vision
    BY DEF WithinReach
  <2>3. /\ AxisDistance(echo.x, landmarks'[i].x) < Match
        /\ AxisDistance(echo.y, landmarks'[i].y) < Match
    BY <1>2, <1>3, <1>4, <2>2, SoleLandmark DEF MappingInv
  <2>4. landmarks'[i] \in Landmarks
    <3>1. landmarks' \in Seq(Landmarks)
      BY <1>2, <1>3, <1>4, AddLandmarkType DEF MappingInv
    <3>. QED
      BY <2>2, <3>1, LenProperties, ElementOfSeq
  <2>. DEFINE q == [x |-> landmarks'[i].x, y |-> landmarks'[i].y]
  <2>5. /\ q \in Points /\ q.x = landmarks'[i].x /\ q.y = landmarks'[i].y
        /\ landmarks'[i].x \in Int /\ landmarks'[i].y \in Int
    BY <2>4 DEF Landmarks, Points
  <2>6. pose' = CorrectFromLandmark(q, sonar, h)
    BY <2>1, <2>5 DEF CorrectFromLandmark, PolarToCartesian
  <2>7. /\ pose'.x = reckoned.x + q.x - echo.x
        /\ pose'.y = reckoned.y + q.y - echo.y
    BY <1>1, <1>3, <2>5, <2>6, BackFromEcho DEF echo
  <2>. HIDE DEF q
  <2>. QED
    BY <1>1, <1>3, <1>5, <2>3, <2>5, <2>7 DEF AxisDistance
<1>. QED
  BY <1>2, <1>6, <1>7

(* correct_from_landmark cannot throw the vehicle further than the radius  *)
(* within which echoes are the same landmark, for every grid, range,       *)
(* radius and number of observations: neither the mean nor its rounding    *)
(* adds up.                                                                *)
THEOREM CorrectsALittle == Spec => CorrectionSmall
<1>. DEFINE Sole == \A i, j \in DOMAIN landmarks' :
                      landmarks'[i].label = vision /\ landmarks'[j].label = vision => i = j
            Little == /\ AxisDistance(pose.x, pose'.x) < moved + Match
                      /\ AxisDistance(pose.y, pose'.y) < moved + Match
<1>1. MappingInv /\ [Next]_vars => [landmarks' # landmarks /\ Sole => Little]_vars
  <2>. SUFFICES ASSUME MappingInv, Next, landmarks' # landmarks, Sole
                PROVE  Little
    OBVIOUS
  <2>1. UpdateLoop
    BY DEF Next, ImuCallback, PoseCallback, PingCallback, VisionCallback, map
  <2>2. RelativeHeading \in 0 .. 3
    BY <2>1, RelativeHeadingType, MappingAssumption DEF MappingInv, UpdateLoop
  <2>3. EngineUpdate(RelativeHeading)
    BY <2>1 DEF UpdateLoop
  <2>4. /\ AxisDistance(pose.x, pose'.x) < distance + Match
        /\ AxisDistance(pose.y, pose'.y) < distance + Match
        /\ pose' \in Points
    BY <2>2, <2>3, EnteringStep, EngineStep
  <2>. QED
    BY <2>4, MappingAssumption DEF MappingInv, Points, AxisDistance
<1>. QED
  BY <1>1, MappingCorrect, PTL DEF Spec, CorrectionSmall
=============================================================================
