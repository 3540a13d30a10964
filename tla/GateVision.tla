----------------------------- MODULE GateVision -----------------------------
(***************************************************************************)
(* prequal_cv.py: from an image to a gate and a marker.                    *)
(*                                                                         *)
(* An image is a row of columns, each painted in the upper and the lower   *)
(* half or not at all.  What OpenCV finds in the pixels (masks, contours)  *)
(* is read off the columns; sizes keep their ratio to the frame, those     *)
(* given in pixels are left out.                                           *)
(***************************************************************************)
EXTENDS Integers, FiniteSets, Sequences, SequencesExt

CONSTANTS
  Width,          \* of the frame, in columns
  Height,         \* of the frame, in widths of a column; odd
  MinConfidence   \* conf_threshold, percent

ASSUME GateVisionAssumption ==
  /\ Width \in Nat \ {0}
  /\ Height \in Nat \ {0} /\ Height % 2 = 1
  /\ MinConfidence \in 0..100

(* R red, B black, O neon orange, which the red mask takes for red.  Twin  *)
(* is red over black with a gap between the halves.                        *)
Paint ==
  [None |-> <<"-", "-">>, RB |-> <<"R", "B">>, BR |-> <<"B", "R">>,
   RR |-> <<"R", "R">>, Pole |-> <<"O", "O">>, Twin |-> <<"R", "B">>]

Kinds == DOMAIN Paint
Red == {"R", "O"}
Black == {"B"}

Painted(image) == {c \in 1..Width : image.column[c] # "None"}

(* Maximal runs <<first, last>> of a set of columns.                       *)
Runs(columns) ==
  LET firsts == {c \in columns : c - 1 \notin columns}
      lasts == {c \in columns : c + 1 \notin columns}
  IN {<<a, CHOOSE b \in lasts : b >= a /\ \A d \in lasts : d >= a => b <= d>> : a \in firsts}

-----------------------------------------------------------------------------
(* Boxes: x and y of the left upper corner, width, height, painted area.   *)
Box(x, y, w, h, area) == [x |-> x, y |-> y, w |-> w, h |-> h, area |-> area]
Right(box) == box.x + box.w
Centre2(box) == 2 * box.x + box.w   \* twice center_x

HalfHeight == Height \div 2

ContourBoxes(image) ==
  LET Twins(r) == \A c \in r[1]..r[2] : image.column[c] = "Twin"
      Of(r) ==
        LET w == r[2] - r[1] + 1
            gaps == Cardinality({c \in r[1]..r[2] : image.column[c] = "Twin"})
        IN IF Twins(r)
           THEN {Box(r[1], 0, w, HalfHeight, w * HalfHeight),
                 Box(r[1], HalfHeight + 1, w, HalfHeight, w * HalfHeight)}
           ELSE {Box(r[1], 0, w, Height, w * Height - gaps)}
  IN UNION {Of(r) : r \in Runs(Painted(image))}

Merge(a, b) ==
  LET x == Min({a.x, b.x})
      y == Min({a.y, b.y})
  IN Box(x, y, Max({Right(a), Right(b)}) - x, Max({a.y + a.h, b.y + b.h}) - y, a.area + b.area)

(* A candidate joins the first cluster whose centre is near.               *)
Near(a, b) ==
  LET d == Centre2(a) - Centre2(b) IN 100 * Max({d, -d}) <= 2 * 4 * Width

Joins(c, clusters) ==
  LET near == {i \in DOMAIN clusters : Near(c, clusters[i])}
  IN IF near = {} THEN Append(clusters, c)
     ELSE [clusters EXCEPT ![Min(near)] = Merge(@, c)]

Leftmost(boxes) == CHOOSE b \in boxes : \A c \in boxes : Centre2(b) <= Centre2(c)
Rightmost(boxes) == CHOOSE b \in boxes : \A c \in boxes : Centre2(c) <= Centre2(b)

(* From left to right: the rightmost joins the clusters of all the others. *)
Clusters(candidates) ==
  MapThenFoldSet(Joins, <<>>, LAMBDA b : b, Rightmost, candidates)

ClusterVerticalPanels(candidates) ==
  {c \in Range(Clusters(candidates)) : 10 * c.h > 12 * c.w}

VerticalLegCandidates(image) ==
  ClusterVerticalPanels(
    {b \in ContourBoxes(image) : 10 * b.h >= Height /\ 10 * b.h > 11 * b.w})

-----------------------------------------------------------------------------
(* Colours of a part of a box: some of its columns, one of its halves.     *)
Halves(box) ==
  IF box.h = Height THEN <<1, 2>> ELSE IF box.y = 0 THEN <<1, 1>> ELSE <<2, 2>>

Count(image, columns, half, colours) ==
  Cardinality({c \in columns : Paint[image.column[c]][half] \in colours})

(* _region_color_label and _quadrant_color_label, which differ in minFill. *)
ColourOf(red, black, least) ==
  CASE 100 * red < least /\ 100 * black < least -> "?"
    [] 100 * red > 115 * black -> "R"
    [] 100 * black > 115 * red -> "B"
    [] OTHER -> "?"

Label(image, columns, half, minFill) ==
  ColourOf(Count(image, columns, half, Red), Count(image, columns, half, Black),
           minFill * Cardinality(columns))

SplitColors(image, box) ==
  [i \in 1..2 |-> Label(image, box.x .. Right(box) - 1, Halves(box)[i], 18)]

(* Mutant: both halves may be of one colour. *)
IsPaintedLeg(image, box) ==
  LET s == SplitColors(image, box) IN "?" \notin {s[1], s[2]}

IsSplitLeg(image, box) ==
  LET s == SplitColors(image, box) IN "?" \notin {s[1], s[2]} /\ s[1] # s[2]

(* _panel_red_black_labels: more than 8 % of the panel.                    *)
Shows(image, box, colours) ==
  LET columns == box.x .. Right(box) - 1
      n == Count(image, columns, Halves(box)[1], colours)
             + Count(image, columns, Halves(box)[2], colours)
  IN 100 * n > 8 * 2 * box.w

IsCompetitionGatePair(image, left, right) ==
  LET l == SplitColors(image, left)
      r == SplitColors(image, right)
  IN IF IsSplitLeg(image, left) /\ IsSplitLeg(image, right)
     THEN l[1] # r[1] /\ l[2] # r[2]
     ELSE \E leg \in {left, right} : Shows(image, leg, Red)

IsCheckerboard(image, box) ==
  LET mid == box.x + box.w \div 2
      parts == <<box.x .. mid - 1, mid .. Right(box) - 1>>
      q == [i \in 1..2, half \in 1..2 |-> Label(image, parts[i], Halves(box)[half], 10)]
  IN /\ box.w >= 2
     /\ {q[1, 1], q[2, 1]} = {"R", "B"}
     /\ q[1, 1] = q[2, 2] /\ q[2, 1] = q[1, 2]

-----------------------------------------------------------------------------
(* Targets: at most one, the set of its boxes, their painted area and which *)
(* detector found it.                                                      *)
NoTarget == [boxes |-> {}, area |-> 0, source |-> "none"]
Pair(left, right, source) ==
  [boxes |-> {left, right}, area |-> left.area + right.area, source |-> source]

Apart(left, right) == 100 * (Centre2(right) - Centre2(left)) >= 2 * 18 * Width

(* _column_fill_runs: runs that are wide enough, as boxes.                 *)
ColumnFillRuns(image) ==
  LET Columns(r) == r[2] - r[1] + 1
  IN {Box(r[1], 0, Columns(r), Height, Columns(r) * Height) :
        r \in {q \in Runs(Painted(image)) : 100 * Columns(q) >= 4 * Width}}

DetectBlueScreenGate(image) ==
  LET columns == ColumnFillRuns(image)
      left == Leftmost(columns)
      right == Rightmost(columns)
  IN IF /\ image.blue
        /\ Cardinality(columns) >= 2
        /\ 100 * (right.x - Right(left) + 1) >= 10 * Width
     THEN Pair(left, right, "blue_screen_gate")
     ELSE NoTarget

OutermostPair(image, legs) ==
  LET left == Leftmost(legs)
      right == Rightmost(legs)
  IN IF /\ Cardinality(legs) >= 2
        /\ Apart(left, right)
        /\ IsCompetitionGatePair(image, left, right)
     THEN Pair(left, right, "split_leg_pair")
     ELSE NoTarget

DetectSplitLegGatePair(image) ==
  OutermostPair(image, {leg \in VerticalLegCandidates(image) : IsSplitLeg(image, leg)})

OnlyBox(board) == [boxes |-> {board}, area |-> board.area, source |-> "checkerboard_4sq"]

Largest(boards) ==
  IF boards = {} THEN NoTarget
  ELSE OnlyBox(CHOOSE b \in boards : \A c \in boards : b.area >= c.area)

DetectCheckerboardGate(image) ==
  Largest({b \in ContourBoxes(image) :
             /\ 1000 * b.area >= 15 * Width * Height
             /\ 100 * b.w >= 35 * b.h /\ 10 * b.w <= 28 * b.h
             /\ IsCheckerboard(image, b)})

(* Of the pairs that are far enough apart, the widest.                     *)
Widest(pairs) ==
  CHOOSE p \in pairs : \A q \in pairs :
    Centre2(p[2]) - Centre2(p[1]) >= Centre2(q[2]) - Centre2(q[1])

GatePair(image, left, right) ==
  IF IsCompetitionGatePair(image, left, right)
  THEN Pair(left, right, "red_black_outer_panel_pair") ELSE NoTarget

WidestPair(image, pairs) ==
  IF pairs = {} THEN NoTarget ELSE GatePair(image, Widest(pairs)[1], Widest(pairs)[2])

ApartPairs(legs) == {p \in legs \X legs : Apart(p[1], p[2])}

SelectOuterPanelPair(image) ==
  WidestPair(image, ApartPairs(VerticalLegCandidates(image)))

(* The detectors in their order: the first that finds a target.            *)
FirstFound(targets) ==
  LET found == {i \in DOMAIN targets : targets[i] # NoTarget}
  IN IF found = {} THEN NoTarget ELSE targets[Min(found)]

GateTarget(image) ==
  FirstFound(<<DetectBlueScreenGate(image), DetectSplitLegGatePair(image),
               DetectCheckerboardGate(image), SelectOuterPanelPair(image)>>)

(* A detection: x is twice the middle of the bounding box, as f_cam_node   *)
(* publishes it; confidence in percent.                                    *)
Detection(class, confidence, x2, source) ==
  [class |-> class, confidence |-> confidence, x2 |-> x2, source |-> source]

GateDetection(t) ==
  LET confidence == Max({20, Min({99, (400 * t.area) \div (Width * Height)})})
      d == Detection("gate", confidence,
             Min({b.x : b \in t.boxes}) + Max({Right(b) : b \in t.boxes}), t.source)
  IN IF t = NoTarget \/ confidence < MinConfidence THEN <<>> ELSE <<d>>

(* The narrowest orange run that is tall enough.                           *)
DetectMarker(image) ==
  LET poles == {r \in Runs({c \in 1..Width : image.column[c] = "Pole"}) :
                  10 * Height >= 14 * (r[2] - r[1] + 1)}
      best == CHOOSE r \in poles : \A q \in poles : r[2] - r[1] <= q[2] - q[1]
  IN IF poles = {} THEN <<>>
     ELSE <<Detection("neon_orange", 99, best[1] + best[2] + 1, "marker")>>

ProcessPrequalCv(image) == GateDetection(GateTarget(image)) \o DetectMarker(image)
=============================================================================
