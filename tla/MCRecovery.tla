----------------------------- MODULE MCRecovery -----------------------------
(* Small instances of Recovery for TLC. *)
EXTENDS Recovery, TLC

(* With a deletion, one crash or one transaction at a time besides two         *)
(* documents.                                                                  *)
Small == dead = {} \/ last + crashes + Cardinality(txns) <= 3
=============================================================================
