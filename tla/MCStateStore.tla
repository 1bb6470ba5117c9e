---------------------------- MODULE MCStateStore ----------------------------
(* StateStore for TLC: interchangeable artifacts.                           *)
EXTENDS StateStore, TLC

Symmetry == Permutations(Artifacts)
=============================================================================
