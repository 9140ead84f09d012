------------------------------- MODULE MCWal -------------------------------
(* Small instances of Wal for TLC. *)
EXTENDS Wal, TLC

Symmetry == Permutations(Keys) \cup Permutations(Txns)
=============================================================================
