------------------------------- MODULE MCWAL -------------------------------
(* WAL for TLC: goroutines and record contents are interchangeable. *)
EXTENDS WAL, TLC

Symmetry == Permutations(Callers) \cup Permutations(Values)
=============================================================================
