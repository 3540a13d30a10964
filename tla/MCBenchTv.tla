------------------------------ MODULE MCBenchTv -------------------------------
(* Sessions for TLC: the bench's arguments, those for the USB driver on     *)
(* either topic, and one without ardusub_node.                              *)
EXTENDS BenchTv

(* run_bench_tv.sh *)
Standard == [DefaultArguments EXCEPT !.use_mapping = FALSE]

SomeArguments ==
  {Standard,
   [Standard EXCEPT !.use_ping_driver = TRUE],
   [Standard EXCEPT !.use_ping_driver = TRUE, !.ping_range_topic = Ping1d,
                    !.use_mapping = TRUE],
   [Standard EXCEPT !.use_ardusub = FALSE]}

Gate(sure, area) == [gate |-> TRUE, sure |-> sure, area |-> area]

(* Nothing; a gate that fills the picture; a small one before an unsure big *)
(* one and a pole.                                                          *)
SomeSightings ==
  {{}, {Gate(TRUE, 2)},
   {Gate(TRUE, 1), Gate(FALSE, 2), [gate |-> FALSE, sure |-> TRUE, area |-> 2]}}
==============================================================================
