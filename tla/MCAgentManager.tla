---------------------------- MODULE MCAgentManager ----------------------------
(* Instances of AgentManager for TLC: two providers, two concurrent callers *)
(* and three runs, which is one run that is finishing, its replacement and  *)
(* a third that a confused map would let in.                                *)
EXTENDS AgentManager, TLC

Symmetry == Permutations(Keys) \cup Permutations(Callers) \cup Permutations(Runs)
===============================================================================
