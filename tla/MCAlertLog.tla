------------------------------ MODULE MCAlertLog ------------------------------
(* Instances of AlertLog for TLC. *)
EXTENDS AlertLog, TLC
===============================================================================
