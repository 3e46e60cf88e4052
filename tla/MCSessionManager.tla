--------------------------- MODULE MCSessionManager ---------------------------
(* Instances of SessionManager for TLC. *)
EXTENDS SessionManager, TLC
===============================================================================
