---------------------------- MODULE MCCycleTracker ----------------------------
(* Instances of CycleTracker for TLC. *)
EXTENDS CycleTracker, TLC

(* A renewal two ticks ahead, just now, or past by more than the grace. *)
MCLeads == {-2, 0, 2}
===============================================================================
