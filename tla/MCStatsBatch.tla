---------------------------- MODULE MCStatsBatch ----------------------------
(* Model-checking instances of StatsBatch: two processes, each with a      *)
(* scheduler loop or a handler slot.                                       *)
EXTENDS StatsBatch, TLC

RunnerSymmetry == Permutations(Scheduler) \cup Permutations(Handler)
=============================================================================
