---------------------------- MODULE MCMagiskHost ----------------------------
(* MagiskHost for TLC, with the fairness of the daemon's threads.           *)
EXTENDS MagiskHost

MgFairSpec == MgSpec /\ MgFairness
=============================================================================
