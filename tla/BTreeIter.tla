----------------------------- MODULE BTreeIter -----------------------------
(***************************************************************************)
(* The bidirectional iterator of the B+tree (btree_iterator_init,          *)
(* btree_next, btree_prev) over a tree that does not change: an iterator   *)
(* of the store works on a snapshot, and copy-on-write leaves the nodes of *)
(* a snapshot alone.                                                       *)
(*                                                                         *)
(* A leaf is the sequence of its keys, an index node the sequence of its   *)
(* children; the tree is given with its height.  Positions count from 0 as *)
(* in the code; NotFound is BTREE_IDX_NOT_FOUND, larger than any position. *)
(***************************************************************************)
EXTENDS Integers, Sequences

CONSTANTS BTrees,       \* the trees looked at: records [height, node]
          StartKeys,    \* initial keys of an iterator
          NotFound, NoKey

VARIABLES bt,           \* it->btree
          bi,           \* the iterator
          bret          \* the key the last call returned, NoKey for FAIL

ivars == <<bt, bi, bret>>

Depths(t) == 0..(t.height - 1)

\* The node that a path of positions from the root leads to (it->bid).
RECURSIVE NodeAt(_, _)
NodeAt(n, path) == IF path = <<>> THEN n ELSE NodeAt(n[Head(path) + 1], Tail(path))

RECURSIVE KeysIn(_, _), FirstKey(_, _)
KeysIn(n, depth) == IF depth = 0 THEN {n[i] : i \in DOMAIN n}
                    ELSE UNION {KeysIn(n[i], depth - 1) : i \in DOMAIN n}
FirstKey(n, depth) == IF depth = 0 THEN n[1] ELSE FirstKey(n[1], depth - 1)

\* the key of entry i (from 0) of node n
EntKey(n, depth, i) == IF depth = 0 THEN n[i+1] ELSE FirstKey(n[i+1], depth - 1)

\* _btree_find_entry
FindEntry(n, depth, key) ==
  LET S == {i \in 0..(Len(n) - 1) : EntKey(n, depth, i) <= key}
  IN  IF S = {} THEN NotFound ELSE CHOOSE i \in S : \A j \in S : j <= i

\* btree_iterator_init
btree_iterator_init(t, key) ==
  [curkey |-> key, flag |-> "NONE",
   idx |-> [d \in Depths(t) |-> NotFound],
   node |-> [d \in Depths(t) |-> FALSE],            \* loaded
   bid |-> [d \in Depths(t) |-> <<>>]]

Load(i, d) == [i EXCEPT !.node[d] = TRUE]
Unload(i, d, x) == [i EXCEPT !.idx[d] = x, !.node[d] = FALSE]
\* the child that entry idx[d] names, unless a child is loaded
Descend(i, d) == IF i.node[d-1] THEN i
                 ELSE [i EXCEPT !.bid[d-1] = Append(i.bid[d], i.idx[d])]
\* another child: everything below starts over at position x
ToChildKeepNodes(i, d, x) ==                                     \* mutant
  [i EXCEPT !.idx = [e \in DOMAIN @ |-> IF e < d THEN x ELSE @[e]]]
ToChild(i, d, x) ==
  [i EXCEPT !.bid[d-1] = Append(i.bid[d], i.idx[d]),
            !.idx = [e \in DOMAIN @ |-> IF e < d THEN x ELSE @[e]],
            !.node = [e \in DOMAIN @ |-> IF e < d THEN FALSE ELSE @[e]]]

Fail(i) == [it |-> i, key |-> NoKey]
At(t, i, d) == NodeAt(t.node, i.bid[d])

(***************************************************************************)
(* _btree_next at one depth.                                               *)
(***************************************************************************)
\* idx not set: search for curkey; in a leaf, not below it
NextSearch(n, d, i) ==
  IF i.idx[d] # NotFound THEN i
  ELSE LET f == FindEntry(n, d, i.curkey)
           x == IF f = NotFound THEN 0 ELSE f
       IN  [i EXCEPT !.idx[d] = IF d = 0 /\ i.curkey > EntKey(n, d, x) THEN x + 1 ELSE x]

\* the last call was btree_prev, which has stepped past what it returned
NextTurn(n, d, i) ==
  IF i.flag = "REV" /\ d = 0
  THEN [i EXCEPT !.idx[d] = IF @ >= Len(n) THEN 1 ELSE @ + 2] ELSE i

RECURSIVE next_at(_, _, _)
NextRetry(t, d, r) ==               \* the child failed: move right
  IF r.key # NoKey THEN r
  ELSE IF r.it.idx[d] + 1 >= Len(At(t, r.it, d)) THEN Fail(Unload(r.it, d, NotFound))
  ELSE next_at(t, ToChild([r.it EXCEPT !.idx[d] = @ + 1], d, 0), d - 1)

NextHere(t, n, i, d) ==
  IF i.idx[d] >= Len(n) THEN Fail(Unload(i, d, NotFound))
  ELSE IF d > 0 THEN NextRetry(t, d, next_at(t, Descend(i, d), d - 1))
  ELSE [it |-> [i EXCEPT !.curkey = n[i.idx[d] + 1], !.idx[d] = @ + 1],
        key |-> n[i.idx[d] + 1]]

next_at(t, i, d) ==
  LET n == At(t, i, d)
  IN  IF n = <<>> THEN Fail(Unload(i, d, i.idx[d]))
      ELSE NextHere(t, n, NextTurn(n, d, NextSearch(n, d, Load(i, d))), d)

(***************************************************************************)
(* _btree_prev at one depth.  Position Len(n) marks the end.               *)
(***************************************************************************)
Left(x, end) == IF x = 0 THEN end ELSE x - 1

PrevSearch(n, d, i) ==
  IF i.idx[d] # NotFound THEN i
  ELSE LET f == FindEntry(n, d, i.curkey)
           x == IF f = NotFound THEN 0 ELSE f
       IN  [i EXCEPT !.idx[d] = IF d = 0 /\ i.curkey < EntKey(n, d, x)
                                THEN Left(x, NotFound) ELSE x]

PrevTurn(n, d, i) ==
  IF i.flag = "FWD" /\ d = 0
  THEN IF i.idx[d] >= 2 THEN [i EXCEPT !.idx[d] = @ - 2]
       ELSE [i EXCEPT !.idx[d] = Len(n), !.flag = "NONE"]
  ELSE i

RECURSIVE prev_at(_, _, _)
PrevRetry(t, d, r) ==               \* the child failed: move left
  IF r.key # NoKey THEN r
  ELSE IF r.it.idx[d] = 0 THEN Fail(Unload(r.it, d, NotFound))
  ELSE prev_at(t, ToChild([r.it EXCEPT !.idx[d] = @ - 1], d, NotFound), d - 1)

PrevHere(t, n, i, d) ==
  IF i.idx[d] >= Len(n) THEN Fail(Unload(i, d, NotFound))
  ELSE IF d > 0 THEN PrevRetry(t, d, prev_at(t, Descend(i, d), d - 1))
  ELSE [it |-> [i EXCEPT !.curkey = n[i.idx[d] + 1], !.idx[d] = Left(@, Len(n))],
        key |-> n[i.idx[d] + 1]]

prev_at(t, i, d) ==
  LET n == At(t, i, d)
  IN  IF n = <<>> THEN Fail(Unload(i, d, i.idx[d]))
      ELSE PrevHere(t, n, PrevTurn(n, d, PrevSearch(n, d, Load(i, d))), d)

-----------------------------------------------------------------------------
IInit ==
  /\ bt \in BTrees
  /\ \E k \in StartKeys : bi = btree_iterator_init(bt, k)
  /\ bret = NoKey

Moved(r, flag) ==
  /\ bi' = [r.it EXCEPT !.flag = IF r.key = NoKey THEN "NONE" ELSE flag]
  /\ bret' = r.key
  /\ UNCHANGED bt

btree_next == Moved(next_at(bt, bi, bt.height - 1), "FWD")
btree_prev == Moved(prev_at(bt, bi, bt.height - 1), "REV")

INext == btree_next \/ btree_prev
ISpec == IInit /\ [][INext]_ivars

-----------------------------------------------------------------------------
\* Type invariant: a loaded node is the child that the node above names, and
\* an iterator that has returned a key stands on a path of loaded nodes.
ITypeOK ==
  /\ bret \in KeysIn(bt.node, bt.height - 1) \cup {NoKey}
  /\ bi.flag \in {"NONE", "FWD", "REV"}
  /\ bret # NoKey => bi.curkey = bret /\ \A d \in Depths(bt) : bi.node[d]
  /\ \A d \in Depths(bt) \ {0} :
       bi.node[d] /\ bi.node[d-1] => bi.bid[d-1] = Append(bi.bid[d], bi.idx[d])

Cursor == INSTANCE OrderedCursor WITH
            Failed <- NoKey, keys <- KeysIn(bt.node, bt.height - 1),
            at <- bi.curkey, fresh <- (bi.flag = "NONE"), got <- bret

=============================================================================
