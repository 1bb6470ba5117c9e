---------------------------- MODULE MCAutomation ----------------------------
(* Automation for TLC, with the scheduler's loop running whenever it can.   *)
EXTENDS Automation

AutoFairSpec == AutoSpec /\ AutoFairness
=============================================================================
