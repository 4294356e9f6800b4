------------------------------ MODULE MCEngine ------------------------------
(* Engine for TLC: keys, values and clients are interchangeable. *)
EXTENDS Engine, TLC

Symmetry == Permutations(Clients) \cup Permutations(Keys) \cup Permutations(Values)
=============================================================================
