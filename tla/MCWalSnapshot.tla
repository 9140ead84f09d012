--------------------------- MODULE MCWalSnapshot ---------------------------
(* Small instances of WalSnapshot for TLC. *)
EXTENDS WalSnapshot, TLC

Symmetry == Permutations(Keys)
=============================================================================
