-------------------------- MODULE MCQueryCircuit --------------------------
(* Model-checking instance of QueryCircuit: two or three leaders, an open  *)
(* duration and windows of two ticks, two deadlines to open.               *)
EXTENDS QueryCircuit, TLC

LeaderSymmetry == Permutations(Leader)
=============================================================================
