--------------------------- MODULE MCChangeStream ---------------------------
(* ChangeStream for TLC: members are interchangeable. *)
EXTENDS ChangeStream, TLC

Symmetry == Permutations(Members)
=============================================================================
