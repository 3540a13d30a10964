------------------------------ MODULE MCPlans ------------------------------
(***************************************************************************)
(* The plans of marv_bringup/config/plans for TLC, with timeouts scaled to *)
(* a few watchdog periods, and one of them with two misspelt names.        *)
(***************************************************************************)
EXTENDS MissionStack

CONSTANT None

Node(behavior, timeout, success, failure, expired) ==
  [behavior |-> behavior, timeout |-> timeout, success |-> success,
   failure |-> failure, expired |-> expired, default |-> None]

(* prequal_plan.yaml *)
PrequalPlan ==
  [wait |-> Node("wait_submerged", 3, "find_gate", None, None),
   find_gate |-> Node("find_gate", 3, "gate_approach", None, "gate_approach"),
   gate_approach |-> Node("traverse_gate", 4, "gate_pass", None, "gate_pass"),
   gate_pass |-> Node("pass_gate", 3, "transit", None, None),
   transit |-> Node("transit_forward", 3, "approach_marker", "find_marker", "find_marker"),
   find_marker |-> Node("find_marker", 3, "approach_marker", None, "circle"),
   approach_marker |-> Node("approach_marker", 3, "circle", None, "circle"),
   circle |-> Node("circle_marker", 3, "turn", None, None),
   turn |-> Node("turn_around", 3, "find_return_gate", None, None),
   find_return_gate |-> Node("find_return_gate", 3, "gate_return", None, "gate_return"),
   gate_return |-> Node("traverse_gate", 4, "gate_pass_return", None, "gate_pass_return"),
   gate_pass_return |-> Node("pass_gate", 3, "gate_clear", None, None),
   gate_clear |-> Node("pass_gate_clear", 3, "hold", None, None),
   hold |-> Node("hold", 0, None, None, None)]

(* bench_tv_plan.yaml: a cycle *)
BenchTvPlan ==
  [find_gate |-> Node("find_gate", 5, "gate_approach", None, "gate_approach"),
   gate_approach |-> Node("traverse_gate", 6, "gate_pass", None, "gate_pass"),
   gate_pass |-> Node("pass_gate", 5, "gate_approach", None, "find_gate")]

Defaulting(node, default) == [node EXCEPT !.default = default]

(* The same cycle with a detour to a behavior that does not exist, and with *)
(* an edge, "default", to a node that does not exist.                      *)
MisspeltPlan ==
  [find_gate |-> [BenchTvPlan.find_gate EXCEPT !.expired = "detour"],
   gate_approach |-> BenchTvPlan.gate_approach,
   gate_pass |-> BenchTvPlan.gate_pass,
   detour |-> Node("detect_paht", 5, "gate_approach", None, "transit"),
   transit |-> Defaulting(Node("transit_forward", 5, "gate_approach", None, None), "hoem")]

PrequalNodes == DOMAIN PrequalPlan
MisspeltNodes == DOMAIN MisspeltPlan

Known ==
  {"depth_hold", "traverse_gate", "detect_path", "return_home", "hold",
   "wait_submerged", "pass_gate", "pass_gate_clear", "transit_forward",
   "circle_marker", "turn_around", "find_gate", "find_return_gate",
   "find_marker", "approach_marker"}

KnownOrMisspelt == Known \cup {"detect_paht"}

NeverComplete == {"hold", "depth_hold"}

(* The missions of the plans that end by their own clock, in 5 to 24 s: well *)
(* before the timeouts of their nodes, 20 to 60 s.                         *)
OwnTime ==
  [b \in Known |->
     IF b \in {"wait_submerged", "pass_gate", "pass_gate_clear", "circle_marker"}
     THEN 1 ELSE 0]

(* Every mission takes whatever time it takes, for ever included.          *)
AnyTime == [b \in KnownOrMisspelt |-> 0]
=============================================================================
