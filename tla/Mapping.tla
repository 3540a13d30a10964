------------------------------- MODULE Mapping -------------------------------
(***************************************************************************)
(* mapping_node.py and auv_mapping: callbacks write the sensor buffer, a    *)
(* timer takes a snapshot of it, moves the pose estimate by dead reckoning, *)
(* enters the echo in the occupancy grid, enters what the camera saw as a   *)
(* landmark and corrects the pose from a landmark.  One callback runs at a  *)
(* time (rclpy.spin); between two timer ticks any number of them may.       *)
(*                                                                          *)
(* Coordinates are fixed-point numbers.  Headings are quarter turns, where  *)
(* the cosine and the sine are exact.  The confidences of detections only   *)
(* choose the best of a message, which is the input here.                   *)
(***************************************************************************)
EXTENDS Integers, Sequences, Functions

CONSTANTS
  Headings,    \* what the IMU reports, in quarter turns
  Labels,      \* _map_classes
  Steps,       \* distances between two pose messages
  Ranges,      \* readings within the Ping's limits
  Match,       \* landmarks this near to an echo are the same: 1.0 m
  Near,        \* the radius of nearest_landmark: 1.5 m
  Cell,        \* CELL_SIZE
  Height,      \* GRID_LENGTH, in cells
  Width,       \* GRID_WIDTH, in cells
  None,        \* Python's None
  MaxMoved,    \* bound: distance between two updates
  MaxUpdates   \* bound: updates

ASSUME MappingAssumption ==
  /\ Headings \subseteq 0 .. 3
  /\ Steps \subseteq Nat
  /\ Ranges \subseteq Nat
  /\ Match \in Nat \ {0}
  /\ Near \in Nat
  /\ Cell \in Nat \ {0}
  /\ Height \in Nat
  /\ Width \in Nat
  /\ None \notin Labels \cup Nat
  /\ MaxMoved \in Nat
  /\ MaxUpdates \in Nat

Points == [x : Int, y : Int]
Landmarks == [label : Labels, x : Int, y : Int, observations : Nat \ {0}]
Cells == (0 .. Height - 1) \X (0 .. Width - 1)

(* Occupancy in per cent.                                                  *)
Unknown == 50
OccupancyIncrement == 15
MaxOccupancy == 100

VARIABLES
  poseKnown,  \* _last_pose_xy is not None
  reference,  \* the compass' _reference_heading; None: not _heading_initialized
  heading,    \* the buffer's heading
  distance,   \* the buffer's distance
  sonar,      \* the buffer's sonar
  vision,     \* the label of the buffer's vision
  pose,       \* the localizer's pose
  grid,       \* the occupancy grid, on the cells that have been written
  labels,     \* the grid's labels
  landmarks,  \* the landmark database
  moved,      \* distance travelled since the last update (not in the code)
  pinged,     \* there was a Ping since the last update (not in the code)
  seen,       \* there was a detection since the last update (not in the code)
  updates     \* how many updates there were (not in the code)

buffer == <<heading, distance, sonar, vision>>
map == <<pose, grid, labels, landmarks>>
ghosts == <<moved, pinged, seen, updates>>
vars == <<poseKnown, reference, buffer, map, ghosts>>

Init ==
  /\ poseKnown = FALSE
  /\ reference = None
  /\ heading = 0
  /\ distance = 0
  /\ sonar = None
  /\ vision = None
  /\ pose = [x |-> 0, y |-> 0]
  /\ grid = [c \in {} |-> Unknown]
  /\ labels = [c \in {} |-> None]
  /\ landmarks = <<>>
  /\ moved = 0
  /\ pinged = FALSE
  /\ seen = FALSE
  /\ updates = 0
-----------------------------------------------------------------------------
(* The callbacks.                                                          *)

(* _imu_callback: the first heading becomes the reference and resets the   *)
(* pose.                                                                   *)
ImuCallback(h) ==
  /\ heading' = h
  /\ \/ /\ reference = None
        /\ reference' = h
        /\ pose' = [x |-> 0, y |-> 0]
     \/ /\ reference # None
        /\ UNCHANGED <<reference, pose>>
  /\ UNCHANGED <<poseKnown, distance, sonar, vision, grid, labels, landmarks,
                 ghosts>>

(* _pose_callback: update_distance overwrites what the buffer holds.       *)
PoseCallback(d) ==
  /\ \/ /\ ~poseKnown
        /\ UNCHANGED <<distance, moved>>
     \/ /\ poseKnown
        /\ moved + d <= MaxMoved
        /\ distance' = d
        /\ moved' = moved + d
  /\ poseKnown' = TRUE
  /\ UNCHANGED <<reference, heading, sonar, vision, map, pinged, seen, updates>>

(* _ping_callback with a reading within the limits.                        *)
PingCallback(r) ==
  /\ sonar' = r
  /\ pinged' = TRUE
  /\ UNCHANGED <<poseKnown, reference, heading, distance, vision, map, moved,
                 seen, updates>>

(* _vision_callback with a detection of one of the classes.                *)
VisionCallback(label) ==
  /\ vision' = label
  /\ seen' = TRUE
  /\ UNCHANGED <<poseKnown, reference, heading, distance, sonar, map, moved,
                 pinged, updates>>
-----------------------------------------------------------------------------
(* The parts of MappingEngine.update.                                      *)

(* relative_heading; normalize_signed only renames the headings.           *)
RelativeHeading == (heading - reference) % 4

(* polar_to_cartesian, the cosine and the sine by quarter turns.           *)
PolarToCartesian(p, h, d) ==
  [x |-> p.x + d * <<1, 0, -1, 0>>[h + 1],
   y |-> p.y + d * <<0, 1, 0, -1>>[h + 1]]

(* The square of distance, which is only compared.                         *)
Distance2(p, q) == (q.x - p.x) * (q.x - p.x) + (q.y - p.y) * (q.y - p.y)

(* int() cuts towards zero: what lies up to a cell behind the origin falls *)
(* into cell 0.                                                            *)
Truncate(a) == IF a >= 0 THEN a \div Cell ELSE -((-a) \div Cell)

WorldToGrid(p) == <<Truncate(p.y), Truncate(p.x)>>

Increase(cell) ==
  LET level == IF cell \in DOMAIN grid THEN grid[cell] ELSE Unknown
      raised == level + OccupancyIncrement
  IN  [c \in DOMAIN grid \cup {cell} |->
         IF c # cell THEN grid[c]
         ELSE IF raised < MaxOccupancy THEN raised ELSE MaxOccupancy]

AddLabel(cell, label) ==
  [c \in DOMAIN labels \cup {cell} |-> IF c = cell THEN label ELSE labels[c]]

Same(label, p, lm) == lm.label = label /\ Distance2(p, lm) < Match * Match

(* LandmarkDatabase.add: the first landmark that is the same becomes the   *)
(* mean of its observations, otherwise there is a new one.                 *)
AddLandmark(label, p) ==
  LET same == {i \in DOMAIN landmarks : Same(label, p, landmarks[i])}
      first == CHOOSE i \in same : \A j \in same : i <= j
      n == landmarks[first].observations
  IN  IF same = {}
      THEN Append(landmarks,
                  [label |-> label, x |-> p.x, y |-> p.y, observations |-> 1])
      ELSE [landmarks EXCEPT ![first] =
              [label |-> label,
               x |-> (@.x * n + p.x) \div (n + 1),
               y |-> (@.y * n + p.y) \div (n + 1),
               observations |-> n + 1]]

(* nearest_landmark: of those of the label within the radius of the        *)
(* vehicle the first of the nearest.                                       *)
WithinReach(db, label, p) ==
  {i \in DOMAIN db : db[i].label = label /\ Distance2(p, db[i]) < Near * Near}

NearestLandmark(db, label, p, i) ==
  \A j \in WithinReach(db, label, p) :
    \/ Distance2(p, db[i]) < Distance2(p, db[j])
    \/ Distance2(p, db[i]) = Distance2(p, db[j]) /\ i <= j

(* Mutant: the vehicle is put behind the landmark.                         *)
CorrectForward(lm, d, h) == PolarToCartesian(lm, h, d)

(* correct_from_landmark: the vehicle is d before the landmark.            *)
CorrectFromLandmark(lm, d, h) == PolarToCartesian(lm, (h + 2) % 4, d)
-----------------------------------------------------------------------------
(* MappingEngine.update with its early returns.                            *)
EngineUpdate(h) ==
  LET reckoned == PolarToCartesian(pose, h, distance)
      echo == PolarToCartesian(reckoned, h, sonar)
      cell == WorldToGrid(echo)
  IN  \/ /\ sonar = None
         /\ pose' = reckoned
         /\ UNCHANGED <<grid, labels, landmarks>>
      \/ /\ sonar # None
         /\ cell \notin Cells
         /\ pose' = reckoned
         /\ UNCHANGED <<grid, labels, landmarks>>
      \/ /\ sonar # None
         /\ cell \in Cells
         /\ vision = None
         /\ pose' = reckoned
         /\ grid' = Increase(cell)
         /\ UNCHANGED <<labels, landmarks>>
      \/ /\ sonar # None
         /\ cell \in Cells
         /\ vision # None
         /\ grid' = Increase(cell)
         /\ labels' = AddLabel(cell, vision)
         /\ landmarks' = AddLandmark(vision, echo)
         /\ \/ /\ WithinReach(landmarks', vision, reckoned) = {}
               /\ pose' = reckoned
            \/ \E i \in WithinReach(landmarks', vision, reckoned) :
                 /\ NearestLandmark(landmarks', vision, reckoned, i)
                 /\ pose' = CorrectFromLandmark(landmarks'[i], sonar, h)

(* Mutants: what was seen stays in the buffer; so does the distance.       *)
ClearSonarOnly == sonar' = None /\ UNCHANGED vision
KeepDistance == UNCHANGED distance

ClearTransient == sonar' = None /\ vision' = None
ResetDistance == distance' = 0

(* _update_loop.  Before the first heading it returns at once.             *)
UpdateLoop ==
  /\ reference # None
  /\ updates < MaxUpdates
  /\ EngineUpdate(RelativeHeading)
  /\ ClearTransient
  /\ ResetDistance
  /\ moved' = 0
  /\ pinged' = FALSE
  /\ seen' = FALSE
  /\ updates' = updates + 1
  /\ UNCHANGED <<poseKnown, reference, heading>>

Next ==
  \/ \E h \in Headings : ImuCallback(h)
  \/ \E d \in Steps : PoseCallback(d)
  \/ \E r \in Ranges : PingCallback(r)
  \/ \E label \in Labels : VisionCallback(label)
  \/ UpdateLoop

Spec == Init /\ [][Next]_vars
-----------------------------------------------------------------------------
(* Types, and what the buffer holds: nothing that is not from after the    *)
(* last update (clear_transient, update_distance(0.0)), and only labels of *)
(* cells that an echo has raised above unknown.                            *)
MappingInv ==
  /\ poseKnown \in BOOLEAN
  /\ reference \in Headings \cup {None}
  /\ heading \in 0 .. 3
  /\ distance \in Nat
  /\ sonar \in Ranges \cup {None}
  /\ vision \in Labels \cup {None}
  /\ pose \in Points
  /\ DOMAIN grid \subseteq Cells
  /\ \A c \in DOMAIN grid : grid[c] \in Unknown + 1 .. MaxOccupancy
  /\ DOMAIN labels \subseteq DOMAIN grid
  /\ landmarks \in Seq(Landmarks)
  /\ moved \in Nat
  /\ distance <= moved
  /\ sonar # None => pinged
  /\ vision # None => seen

AxisDistance(a, b) == IF a <= b THEN b - a ELSE a - b

(* No distance is integrated twice: an update that does not enter a         *)
(* landmark moves the pose on no axis by more than the vehicle has          *)
(* travelled since the update before, however the pose messages fell.       *)
NeverOvercounts ==
  [][reference # None /\ (sonar = None \/ vision = None) =>
       /\ AxisDistance(pose.x, pose'.x) <= moved
       /\ AxisDistance(pose.y, pose'.y) <= moved]_vars

(* An observation counts once: the landmarks change only by an update that *)
(* has had a Ping and a detection of its own, the grid by one with a Ping. *)
ObservedOnce ==
  [][/\ landmarks' # landmarks => pinged /\ seen
     /\ grid' # grid => pinged]_vars

(* A landmark that has no other of its label to be mistaken for moves the   *)
(* vehicle by less than the distance up to which echoes are the same, over  *)
(* and above what it has travelled.                                         *)
CorrectionSmall ==
  [][landmarks' # landmarks
       /\ (\A i, j \in DOMAIN landmarks' :
             landmarks'[i].label = vision /\ landmarks'[j].label = vision => i = j)
     => /\ AxisDistance(pose.x, pose'.x) < moved + Match
        /\ AxisDistance(pose.y, pose'.y) < moved + Match]_vars
==============================================================================
