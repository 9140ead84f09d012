------------------------------ MODULE MCBTree ------------------------------
(***************************************************************************)
(* Four ways to use the trees, so that each part of the code is exercised   *)
(* within the bound on blocks: "deep" works on tree 1, whose nodes hold    *)
(* two entries and which grows to three levels; "sets" works on all trees, *)
(* whose roots share the containers of two sub-block sets, and "pair" on   *)
(* two of them with one block more; "meta" works on tree 3, whose root has *)
(* metadata, with enough keys for two levels.                              *)
(***************************************************************************)
EXTENDS BTree
CONSTANT Loads
VARIABLE load

MCSlots == <<3, 2>>
MCSbCap == <<<<0, 1>>, <<1, 2>>, <<1, 2>>>>
MCNodeCap == <<2, 3, 3>>
MCMeta == <<0, 0, 1>>

KeysOf == [deep |-> <<Key, {}, {}>>, sets |-> <<{1}, {1, 2}, {1, 2}>>,
           pair |-> <<{}, {1, 2}, {1, 2}>>, meta |-> <<{}, {}, Key>>]
TreesOf == [deep |-> {1}, sets |-> Tree, pair |-> {2, 3}, meta |-> {3}]
BlocksOf == [deep |-> MaxBlk, sets |-> 3, pair |-> 4, meta |-> MaxBlk]

MCInit == BInit /\ load \in Loads
InBound == st'.nxt <= BlocksOf[load] /\ UNCHANGED load

MCNext ==
  \/ \E t \in TreesOf[load], m \in Val \cup {NoVal} : btree_init(t, m) /\ InBound
  \/ \E t \in TreesOf[load], m \in Val : btree_update_meta(t, m) /\ InBound
  \/ \E t \in TreesOf[load] : \E k \in KeysOf[load][t], v \in Val : btree_insert(t, k, v) /\ InBound
  \/ \E t \in TreesOf[load] : \E k \in KeysOf[load][t] : btree_remove(t, k) /\ InBound
  \/ EndFlush /\ InBound
  \/ Commit /\ InBound

MCSpec == MCInit /\ [][MCNext]_<<bvars, load>>
=============================================================================
