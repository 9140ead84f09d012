---------------------------- MODULE IndexCursor ----------------------------
(***************************************************************************)
(* What the iterators rely on when they walk the main index: the HB+trie   *)
(* iterator (hbtrie_iterator_init, hbtrie_next, hbtrie_prev, hbtrie_last)  *)
(* and, for the sequence tree in single KV mode, the B+tree iterator.      *)
(* The state is the current key, whether that key itself may still be      *)
(* returned, the direction and whether the last move failed.               *)
(***************************************************************************)
EXTENDS WalCursor

iterator_init(k) == [cur |-> k, fresh |-> TRUE, dir |-> 1, failed |-> FALSE]

KeysAhead(keys, h, d) == {k \in keys : d * k > d * h.cur \/ (h.fresh /\ k = h.cur)}

\* The result of a move: [h, ok, key].  A move that fails leaves the current
\* key, which may be returned once more.
Stepped(h, d, k) ==
    IF k = NoItem THEN [h |-> [h EXCEPT !.fresh = TRUE, !.dir = d, !.failed = TRUE],
                        ok |-> FALSE, key |-> NoItem]
    ELSE [h |-> [cur |-> k, fresh |-> FALSE, dir |-> d, failed |-> FALSE],
          ok |-> TRUE, key |-> k]

\* btree_next (d = 1), btree_prev (d = -1).
BtreeMove(keys, h, d) == Stepped(h, d, Pick(KeysAhead(keys, h, d), d))

\* A second move in a direction that failed fails.
hbtrie_next(keys, h) ==
    IF h.dir = 1 /\ h.failed THEN [h |-> h, ok |-> FALSE, key |-> NoItem]
    ELSE Stepped(h, 1, Pick(KeysAhead(keys, h, 1), 1))
hbtrie_prev(keys, h) ==
    IF h.dir = -1 /\ h.failed THEN [h |-> h, ok |-> FALSE, key |-> NoItem]
    ELSE Stepped(h, -1, Pick(KeysAhead(keys, h, -1), -1))

HbtrieMove(keys, h, d) == IF d = 1 THEN hbtrie_next(keys, h) ELSE hbtrie_prev(keys, h)
=============================================================================
