------------------------------ MODULE MCCmdVel -------------------------------
(***************************************************************************)
(* Three missions for TLC, all of which drive ahead at full scale:         *)
(* traverse_gate; return_home, which has no command before the first pose  *)
(* and no obstacle overlay; and detect_path, which has none in the cycles  *)
(* in which it sees no path.                                               *)
(***************************************************************************)
EXTENDS CmdVelPath

Ahead == [Zero EXCEPT !["surge"] = Unit]

WantedAhead ==
  [traverse_gate |-> {Ahead}, return_home |-> {Ahead},
   detect_path |-> {Ahead, NoCmd}]

AheadMissions == DOMAIN WantedAhead
=============================================================================
