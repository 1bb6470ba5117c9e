--------------------------- MODULE MCRuntimeReset ---------------------------
(* RuntimeReset for TLC: it has no sets to instantiate, only bounds.        *)
EXTENDS RuntimeReset, TLC
=============================================================================
