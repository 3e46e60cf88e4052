--------------------------- MODULE MCAccountManager ---------------------------
(* Instances of AccountManager for TLC: one account, as accounts share      *)
(* nothing but the locks; one Run and its successor; two handlers.          *)
EXTENDS AccountManager, TLC
===============================================================================
