--------------------------- MODULE MCTaskRuntime ---------------------------
(* TaskRuntime for TLC: small sets of interchangeable Tasks and executors.  *)
EXTENDS TaskRuntime, TLC

Symmetry == Permutations(Tasks) \cup Permutations(Generations)
=============================================================================
