------------------------------ MODULE MCBackup ------------------------------
(* Backup for TLC: keys, values and operators are interchangeable. *)
EXTENDS Backup, TLC

Symmetry == Permutations(Operators) \cup Permutations(Keys) \cup Permutations(Values)
=============================================================================
