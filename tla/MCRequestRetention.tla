------------------------- MODULE MCRequestRetention -------------------------
(* RequestRetention for TLC: interchangeable requests and Task ids.          *)
EXTENDS RequestRetention, TLC

Symmetry == Permutations(Requests) \cup Permutations(TaskIds)
=============================================================================
