-------------------------- MODULE MCProviderSettings --------------------------
(* One provider with two accounts and one without, two requests at a time.  *)
EXTENDS ProviderSettings, TLC
CONSTANTS minimax, zai, m1, m2
MCCatalog == <<minimax, zai>>
Symmetry == Permutations(Handlers) \cup Permutations(Runs)
MCOwner == [a \in Accounts |-> minimax]
===============================================================================
