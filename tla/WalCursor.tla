----------------------------- MODULE WalCursor -----------------------------
(***************************************************************************)
(* The WAL iterator (wal_itr_*, wal.cc) a key or sequence iterator walks   *)
(* the WAL index with.  The WAL index is split into shards, each an        *)
(* ordered tree, so the iterator keeps one cursor per shard and a merge    *)
(* tree of the cursors; a persisted snapshot has one tree of its own and   *)
(* only a position in it.                                                  *)
(*                                                                         *)
(* An item is the number it is ordered by, its key or its sequence number. *)
(* ws is what the iterator sees:                                           *)
(*   own        the items of its KV store that its snapshot can see (an    *)
(*              empty set is also the snapshot without a WAL tag);         *)
(*   shard      the shard of each of them;                                 *)
(*   high       the shards that also hold items of a KV store with a       *)
(*              larger id (they are ordered after every item of own);      *)
(*   persisted  the snapshot is a persisted one;                           *)
(*   byKey      items are ordered by key.                                  *)
(* wi is the wal_iterator: cursors (per shard), cursor_pos, item_prev and  *)
(* direction (1 forward, -1 reverse, 0 none).  The functions for the two   *)
(* directions are mirror images; d is the direction.                       *)
(***************************************************************************)
EXTENDS Integers

NoItem == -1

\* The first member of S in direction d.
Pick(S, d) == IF S = {} THEN NoItem
              ELSE CHOOSE x \in S : \A y \in S : d * x <= d * y

Shards(ws) == {ws.shard[x] : x \in DOMAIN ws.shard} \cup ws.high

\* wal_itr_init.
wal_itr_init(ws) ==
    [cursors |-> [s \in Shards(ws) |-> NoItem], cursor_pos |-> NoItem,
     item_prev |-> NoItem, direction |-> 0]

\* The items of one shard from q on in direction d.
Onwards(ws, s, q, d) == {x \in ws.own : ws.shard[x] = s /\ d * x >= d * q}

\* avl_first / avl_last over the cursors of the merge tree.
Merged(cursors, d) == Pick({cursors[s] : s \in DOMAIN cursors} \ {NoItem}, d)

Placed(cursors, saved, d) ==
    [cursors |-> cursors, cursor_pos |-> Merged(cursors, d),
     item_prev |-> saved, direction |-> d]

\* Every shard's cursor is placed at the item nearest to q, q itself included.
ShardCursors(ws, q, d) == [s \in Shards(ws) |-> Pick(Onwards(ws, s, q, d), d)]

PlacedAt(cursors, d) == Placed(cursors, Merged(cursors, d), d)

wal_itr_search_greater_bykey(ws, wi, q) == PlacedAt(ShardCursors(ws, q, 1), 1)

\* A search that found nothing keeps the old item_prev; the three other
\* functions clear it.
wal_itr_search_greater_byseq(ws, wi, q) ==
    LET cursors == ShardCursors(ws, q, 1)
    IN  Placed(cursors, IF Merged(cursors, 1) = NoItem THEN wi.item_prev
                        ELSE Merged(cursors, 1), 1)

\* With avl_first instead of avl_last on the merge tree.
SearchSmallerFirst(ws, wi, q) ==
    LET cursors == ShardCursors(ws, q, -1)
    IN  [PlacedAt(cursors, 1) EXCEPT !.direction = -1]

wal_itr_search_smaller_bykey(ws, wi, q) == PlacedAt(ShardCursors(ws, q, -1), -1)
wal_itr_search_smaller_byseq(ws, wi, q) == PlacedAt(ShardCursors(ws, q, -1), -1)

wal_itr_search_greater(ws, wi, q) ==
    IF ws.persisted THEN [wi EXCEPT !.cursor_pos = Pick({x \in ws.own : x >= q}, 1)]
    ELSE IF ws.byKey THEN wal_itr_search_greater_bykey(ws, wi, q)
    ELSE wal_itr_search_greater_byseq(ws, wi, q)

wal_itr_search_smaller(ws, wi, q) ==
    IF ws.persisted THEN [wi EXCEPT !.cursor_pos = Pick({x \in ws.own : x <= q}, -1)]
    ELSE IF ws.byKey THEN wal_itr_search_smaller_bykey(ws, wi, q)
    ELSE wal_itr_search_smaller_byseq(ws, wi, q)

wal_itr_search(ws, wi, q, d) == IF d = 1 THEN wal_itr_search_greater(ws, wi, q)
                                ELSE wal_itr_search_smaller(ws, wi, q)

\* wal_itr_first and wal_itr_last search without a query, from the end of each
\* shard.  By sequence number that end may be an item of another KV store, and
\* then the shard's cursor stays empty.
ShardEnds(ws, d) ==
    [s \in Shards(ws) |-> IF d = -1 /\ ~ws.byKey /\ s \in ws.high THEN NoItem
                          ELSE Pick({x \in ws.own : ws.shard[x] = s}, d)]

wal_itr_first(ws, wi) == IF ws.persisted THEN [wi EXCEPT !.cursor_pos = Pick(ws.own, 1)]
                         ELSE PlacedAt(ShardEnds(ws, 1), 1)
wal_itr_last(ws, wi) == IF ws.persisted THEN [wi EXCEPT !.cursor_pos = Pick(ws.own, -1)]
                        ELSE PlacedAt(ShardEnds(ws, -1), -1)

-----------------------------------------------------------------------------
\* The shard of the current item advances, and the merge tree gives the nearest
\* cursor.
Advanced(wi, cursors, d) ==
    [wi EXCEPT !.cursors = cursors, !.item_prev = wi.cursor_pos,
        !.cursor_pos = Pick({cursors[s] : s \in
            {t \in DOMAIN cursors : cursors[t] # NoItem
                                    /\ d * cursors[t] >= d * wi.cursor_pos}}, d)]

ShardStep(ws, wi, s, d) ==
    Advanced(wi, [wi.cursors EXCEPT ![s] =
                    Pick(Onwards(ws, s, wi.cursor_pos + d, d), d)], d)

wal_itr_next_bykey(ws, wi) == ShardStep(ws, wi, ws.shard[wi.cursor_pos], 1)
wal_itr_next_byseq(ws, wi) == ShardStep(ws, wi, ws.shard[wi.cursor_pos], 1)
wal_itr_prev_bykey(ws, wi) == ShardStep(ws, wi, ws.shard[wi.cursor_pos], -1)
wal_itr_prev_byseq(ws, wi) == ShardStep(ws, wi, ws.shard[wi.cursor_pos], -1)

\* At the end in direction d, or nothing was ever found.
AtEnd(ws, wi, d) ==
    (IF ws.persisted \/ wi.direction = d THEN wi.cursor_pos ELSE wi.item_prev) = NoItem

\* After a change of direction the last item is searched again.
wal_itr_next(ws, wi) ==
    IF AtEnd(ws, wi, 1) THEN wi
    ELSE IF ws.persisted
    THEN [wi EXCEPT !.cursor_pos = Pick({x \in ws.own : x > wi.cursor_pos}, 1)]
    ELSE IF wi.direction # 1 THEN wal_itr_search_greater(ws, wi, wi.item_prev)
    ELSE IF ws.byKey THEN wal_itr_next_bykey(ws, wi)
    ELSE wal_itr_next_byseq(ws, wi)

wal_itr_prev(ws, wi) ==
    IF AtEnd(ws, wi, -1) THEN wi
    ELSE IF ws.persisted
    THEN [wi EXCEPT !.cursor_pos = Pick({x \in ws.own : x < wi.cursor_pos}, -1)]
    ELSE IF wi.direction # -1 THEN wal_itr_search_smaller(ws, wi, wi.item_prev)
    ELSE IF ws.byKey THEN wal_itr_prev_bykey(ws, wi)
    ELSE wal_itr_prev_byseq(ws, wi)

wal_itr_step(ws, wi, d) == IF d = 1 THEN wal_itr_next(ws, wi) ELSE wal_itr_prev(ws, wi)
=============================================================================
