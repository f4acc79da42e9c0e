------------------------------ MODULE MCDBWriter ------------------------------
(* Instances of DBWriter for TLC. *)
EXTENDS DBWriter, TLC

Symmetry == Permutations(LowCalls) \union Permutations(HighCalls)
===============================================================================
