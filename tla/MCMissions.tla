----------------------------- MODULE MCMissions ------------------------------
(* The missions with a handful of detections: unsure, centred and near,    *)
(* near but to the side, centred but far.                                  *)
EXTENDS Missions

SomeSightings == {[sure |-> FALSE, x |-> 0, area |-> 1],
                  [sure |-> TRUE, x |-> 0, area |-> 1],
                  [sure |-> TRUE, x |-> 1, area |-> 1],
                  [sure |-> TRUE, x |-> 0, area |-> 0]}
==============================================================================
