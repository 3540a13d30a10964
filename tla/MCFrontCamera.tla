---------------------------- MODULE MCFrontCamera ---------------------------
(***************************************************************************)
(* Every image that is painted in a few given columns, as the view of a    *)
(* USB camera, and two images of a simulated gate.                         *)
(***************************************************************************)
EXTENDS FrontCamera

CONSTANT Painting   \* columns that may be painted

MCSetups ==
  {<<"usb", "prequal_cv">>, <<"gazebo", "prequal_hybrid">>, <<"gazebo", "default">>}

Image(blue, paint) ==
  [blue |-> blue,
   column |-> [c \in 1..Width |-> IF c \in DOMAIN paint THEN paint[c] ELSE "None"]]

MCImages == {Image(blue, paint) : blue \in BOOLEAN, paint \in [Painting -> Kinds]}

Legs(left, right) == Image(FALSE, [c \in {2, 24} |-> IF c = 2 THEN left ELSE right])
MCSimImages == {Legs("RB", "BR"), Legs("Pole", "None")}

MCYoloResults ==
  {<<>>,
   <<Detection("gate", 40, 20, "yolo"), Detection("gate", 90, 30, "yolo")>>}

(* What the theorem about the legs asks of the images.                     *)
ASSUME MCImagesAssumption ==
  \A image \in Images \cup SimImages : NarrowLegs(image) /\ StandApart(image)
=============================================================================
