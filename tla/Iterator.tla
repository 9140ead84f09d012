------------------------------ MODULE Iterator ------------------------------
(***************************************************************************)
(* The key iterator (iterator.cc): a merge of the main index, the HB+trie, *)
(* with the WAL index, in both directions, between two keys, with seeks.   *)
(* The iterator works on a snapshot, so what it iterates over, db, never   *)
(* changes; its own state, it, changes at every call.                      *)
(*                                                                         *)
(* Keys are numbers.  In multi KV mode keys start with the id of their KV  *)
(* store: Below and Above are keys of the stores with the next smaller and *)
(* the next larger id, KvMin and KvMax the keys that consist of this       *)
(* store's id and of the next one alone.                                   *)
(*                                                                         *)
(* db: trie    key -> "none", "live" or "deleted" (a document kept for its *)
(*             deletion mark, purging interval # 0);                       *)
(*     wal     key -> "none", "insert", "logical" (WAL_ACT_LOGICAL_REMOVE) *)
(*             or "remove" (WAL_ACT_REMOVE, purging interval 0);           *)
(*     others  the foreign keys in the trie; multi  multi KV mode;         *)
(*     persisted  a persisted snapshot (WalCursor);                        *)
(*     start_key, end_key (NoItem: NULL) and the options noDeletes,        *)
(*     skipMin, skipMax.  In single KV mode a key is shorter than a chunk. *)
(***************************************************************************)
EXTENDS IndexCursor

CONSTANT N              \* the user's keys are numbered 1 .. N

ASSUME NAssumption == N \in Nat \ {0}

VARIABLES db,           \* the snapshot and the iterator's parameters
          it,           \* the fdb_iterator
          kret           \* status of the last call

kvars == <<db, it, kret>>

Below == -3
KvMin == 0
KvMax == N + 1
Above == N + 2
UserKey == 1 .. N

\* Document offsets: none (BLK_NOT_FOUND), of the trie's document of a key, of
\* the WAL's, or one whose bytes were swapped by one decoding too many.
NoOff == <<"none", 0>>
InTrie(k) == <<"trie", k>>
InWal(k) == <<"wal", k>>
Swapped(off) == CASE off[1] = "trie" -> <<"swapped", off[2]>>
                  [] off[1] = "swapped" -> InTrie(off[2])
                  [] OTHER -> off

TrieKeys(c) == {k \in UserKey : c.trie[k] # "none"} \cup c.others

\* docio_read_doc_key_meta: unreadable at a swapped offset.
IsDeleted(c, off) == \/ off[1] = "trie" /\ off[2] \in UserKey /\ c.trie[off[2]] = "deleted"
                     \/ off[1] = "wal" /\ c.wal[off[2]] = "logical"
Readable(off) == off[1] \in {"trie", "wal"}

\* The WAL index as the WAL iterator sees it; keys are hashed to two shards.
WalSeen(c) == [own |-> {k \in UserKey : c.wal[k] # "none"},
               shard |-> [k \in UserKey |-> k % 2], high |-> {},
               persisted |-> c.persisted, byKey |-> TRUE]

-----------------------------------------------------------------------------
\* _fdb_key_cmp against the bounds of the iteration.
PastEnd(c, k) == c.end_key # NoItem /\ (k > c.end_key \/ (k = c.end_key /\ c.skipMax))
PastStart(c, k) == c.start_key # NoItem /\ (k < c.start_key \/ (k = c.start_key /\ c.skipMin))
validate_range_limits(c, k) == ~PastEnd(c, k) /\ ~PastStart(c, k)

\* The bound a move in direction d runs into, and the one it starts from.
PastFar(c, k, d) == IF d = 1 THEN PastEnd(c, k) ELSE PastStart(c, k)
PastNear(c, k, d) == IF d = 1 THEN PastStart(c, k) ELSE PastEnd(c, k)

\* A WAL item that hides its key from this iterator.
Hidden(c, k) == c.wal[k] = "remove" \/ (c.wal[k] = "logical" /\ c.noDeletes)

Done(i) == [it |-> i, ok |-> TRUE]
Failure(i) == [it |-> i, ok |-> FALSE]

-----------------------------------------------------------------------------
(***************************************************************************)
(* _fdb_iterator_next and _fdb_iterator_prev are mirror images; d is the   *)
(* direction.                                                              *)
(***************************************************************************)
\* A change of direction: the key waiting from the trie is dropped and the WAL
\* cursor is placed again, on the other side of the last key returned.
Replaced(i, w) == [i EXCEPT !.w = w, !.cur = w.cursor_pos]

\* Without the step over the item that was compared but not returned.
TurnedWalOnItem(ws, i, w, d) == Replaced(i, w)

TurnedWal(ws, i, w, d) ==
    Replaced(i, IF i.dir = -d /\ i.status # "WAL" THEN wal_itr_step(ws, w, d) ELSE w)

TurnAround(c, ws, i, d) ==
    IF i.dir = d THEN i
    ELSE LET j == [i EXCEPT !.off = NoOff]
         IN  IF j.cur # NoItem THEN TurnedWal(ws, j, wal_itr_search(ws, j.w, j.cur, d), d)
             ELSE IF j.prevc # NoItem
             THEN [Replaced(j, wal_itr_search(ws, j.w, j.prevc, d)) EXCEPT !.status = "IDX"]
             ELSE j

\* The next key of the trie, passing over deleted documents if they are not
\* wanted.  The offset is decoded even after a move that failed and left it.
RECURSIVE FetchTrie(_, _, _)
FetchTrie(c, i, d) ==
    LET m == HbtrieMove(TrieKeys(c), i.h, d)
        j == [i EXCEPT !.h = m.h, !.key = m.key, !.off = InTrie(m.key)]
    IN  IF ~m.ok THEN Failure([i EXCEPT !.h = m.h, !.off = Swapped(i.off)])
        ELSE IF c.noDeletes /\ IsDeleted(c, j.off) THEN FetchTrie(c, j, d)
        ELSE Done(j)

\* The WAL cursor moves if its item was the last one returned.
WalMoved(ws, i, d) ==
    IF i.status = "WAL"
    THEN [Replaced(i, wal_itr_step(ws, i.w, d)) EXCEPT !.prevc = i.cur]
    ELSE i

\* The three labels of a move: Start (fetch from the trie), WalLoop (compare
\* with the WAL) and Take (the bounds).  ok is hr: the trie has a key.
RECURSIVE Start(_, _, _, _, _), WalLoop(_, _, _, _, _), Compared(_, _, _, _, _)
Take(c, ws, i, ok, off, d) ==
    LET j == IF off = i.off THEN [i EXCEPT !.off = NoOff, !.status = "IDX"] ELSE i
        k == IF off = i.off THEN i.key ELSE off[2]
    IN  IF PastFar(c, k, d) THEN Failure(j)
        ELSE IF PastNear(c, k, d) THEN Start(c, ws, j, ok, d)
        ELSE Done([j EXCEPT !.dhandle = TRUE, !.get_off = off])

\* cmp is the order of the WAL's key and the trie's in direction d.
Compared(c, ws, i, ok, d) ==
    LET cmp == IF ok THEN d * (i.cur - i.key) ELSE -1
        j == [i EXCEPT !.status = "WAL", !.off = IF cmp = 0 THEN NoOff ELSE @]
    IN  IF cmp > 0 THEN Take(c, ws, i, ok, i.off, d)
        ELSE IF ~Hidden(c, i.cur) THEN Take(c, ws, j, ok, InWal(i.cur), d)
        ELSE IF cmp < 0 THEN WalLoop(c, ws, WalMoved(ws, j, d), ok, d)
        ELSE Start(c, ws, j, ok, d)

WalLoop(c, ws, i, ok, d) ==
    IF i.cur # NoItem THEN Compared(c, ws, i, ok, d)
    ELSE IF ok THEN Take(c, ws, i, ok, i.off, d)
    ELSE Failure(i)

Start(c, ws, i, ok, d) ==
    LET f == IF i.off = NoOff THEN FetchTrie(c, i, d) ELSE [it |-> i, ok |-> ok]
    IN  IF f.it.cur = NoItem
        THEN IF f.ok THEN Take(c, ws, f.it, f.ok, f.it.off, d) ELSE Failure(f.it)
        ELSE WalLoop(c, ws, WalMoved(ws, f.it, d), f.ok, d)

\* fdb_iterator_next / fdb_iterator_prev.
Settled(r, d) == IF r.ok THEN Done([r.it EXCEPT !.dir = d])
                 ELSE Failure([r.it EXCEPT !.dhandle = FALSE])

iterator_next(c, ws, i) == Settled(Start(c, ws, TurnAround(c, ws, i, 1), TRUE, 1), 1)
iterator_prev(c, ws, i) == Settled(Start(c, ws, TurnAround(c, ws, i, -1), TRUE, -1), -1)

Move(c, ws, i, d) == IF d = 1 THEN iterator_next(c, ws, i) ELSE iterator_prev(c, ws, i)

-----------------------------------------------------------------------------
(***************************************************************************)
(* _fdb_iterator_seek to key q, in direction d: 1 for FDB_ITR_SEEK_HIGHER, *)
(* -1 for LOWER.  op is next_op, the move seek_to_min or seek_to_max wants *)
(* after the seek.                                                         *)
(***************************************************************************)
\* Deleted documents are passed over until one that is not was seen: check is
\* fetch_next, and it is not set again for a second fetch.
RECURSIVE SeekTrie(_, _, _, _)
SeekTrie(c, i, check, d) ==
    LET m == HbtrieMove(TrieKeys(c), i.h, d)
        j == [i EXCEPT !.h = m.h, !.key = IF m.ok THEN m.key ELSE @]
        del == c.noDeletes /\ m.ok /\ check /\ IsDeleted(c, InTrie(m.key))
    IN  IF del THEN SeekTrie(c, j, check, d)
        ELSE [it |-> j, ok |-> m.ok, check |-> check /\ ~(c.noDeletes /\ m.ok)]

\* What the trie offers, before the WAL is looked at.
Offered(c, i, ok, op) ==
    LET good == ok /\ (op # 0 \/ validate_range_limits(c, i.key)) /\ i.key \notin c.others
    IN  [i EXCEPT !.get_off = IF good THEN InTrie(i.key) ELSE NoOff,
                  !.dhandle = good, !.off = NoOff, !.status = "IDX"]

\* The bound in direction d is skipped and the WAL cursor stands on it.
OnSkipped(c, k, d) == IF d = 1 THEN c.end_key = k /\ c.skipMax
                      ELSE c.start_key = k /\ c.skipMin

\* With _get_offset assigned before _offset is saved from it.
TakeWalSwapped(i, stash) ==
    [i EXCEPT !.off = IF stash = NoOff THEN NoOff ELSE InWal(i.cur),
              !.get_off = InWal(i.cur), !.dhandle = TRUE, !.status = "WAL"]

\* The WAL's key is returned; stash is the trie's key kept for the next move.
TakeWal(i, stash) == [i EXCEPT !.off = stash, !.get_off = InWal(i.cur),
                               !.dhandle = TRUE, !.status = "WAL"]

\* The trie's key is returned.  A key beyond the skipped bound needs no move.
Near(c, d) == IF d = 1 THEN c.start_key ELSE c.end_key
OpAfterTrie(c, i, op, d) ==
    IF op = d /\ (Near(c, d) = NoItem \/ d * i.key > d * Near(c, d)) THEN 0 ELSE op

\* Result [it, op] of comparing the trie's key with the WAL's.  Going down and
\* taking the WAL's key, the trie is positioned at the seek key once more.
Merge(c, i, q, op, d) ==
    LET cmp == d * (i.cur - i.key)
    IN  IF ~i.dhandle \/ cmp = 0 THEN [it |-> TakeWal(i, NoOff), op |-> op]
        ELSE IF cmp > 0 THEN [it |-> i, op |-> OpAfterTrie(c, i, op, d)]
        ELSE IF d = 1 THEN [it |-> TakeWal(i, i.get_off), op |-> op]
        ELSE [it |-> [TakeWal(i, NoOff) EXCEPT !.h = iterator_init(q)], op |-> op]

\* The end of the WAL's part: without a WAL key the cursor to turn around at
\* is the one on the other side of the seek key.
Ended(c, ws, i, q, op, d) ==
    LET w == wal_itr_search(ws, i.w, q, -d)
    IN  IF i.cur = NoItem
        THEN [it |-> [i EXCEPT !.w = w, !.prevc = w.cursor_pos], op |-> op]
        ELSE IF OnSkipped(c, i.cur, d) /\ ~Hidden(c, i.cur)
        THEN [it |-> [i EXCEPT !.prevc = i.cur, !.status = "WAL"], op |-> op]
        ELSE Merge(c, [i EXCEPT !.prevc = i.cur], q, op, d)

\* Hidden WAL items are passed over, together with the trie's key they hide
\* (the trie is then read again).
RECURSIVE SeekFetch(_, _, _, _, _, _, _), SeekWal(_, _, _, _, _, _, _)
SeekWal(c, ws, i, q, op, check, d) ==
    LET cmp == d * (i.cur - i.key)
        j == Replaced(i, wal_itr_step(ws, i.w, d))
    IN  IF i.cur # NoItem /\ op = 0 /\ ~validate_range_limits(c, i.cur)
        THEN Ended(c, ws, [i EXCEPT !.cur = NoItem], q, op, d)
        ELSE IF i.cur = NoItem \/ ~Hidden(c, i.cur) \/ (i.dhandle /\ cmp > 0)
        THEN Ended(c, ws, i, q, op, d)
        ELSE IF i.dhandle /\ cmp = 0 THEN SeekFetch(c, ws, j, q, op, check, d)
        ELSE SeekWal(c, ws, j, q, op, check, d)

SeekFetch(c, ws, i, q, op, check, d) ==
    LET f == SeekTrie(c, i, check, d)
    IN  SeekWal(c, ws, Offered(c, f.it, f.ok, op), q, op, f.check, d)

\* The first pass also places the WAL cursor.
SeekFirst(c, ws, i, q, op, d) ==
    LET f == SeekTrie(c, [i EXCEPT !.dir = d, !.h = iterator_init(q)], TRUE, d)
        j == Offered(c, f.it, f.ok, op)
    IN  SeekWal(c, ws, Replaced(j, wal_itr_search(ws, j.w, q, d)), q, op, f.check, d)

SeekResult(c, ws, r) ==
    IF ~r.it.dhandle THEN Failure(r.it)
    ELSE IF r.op = 0 THEN Done(r.it)
    ELSE Move(c, ws, r.it, r.op)

\* next_op is only set for seek_to_min and seek_to_max (minmax).
NextOp(c, q, minmax) ==
    IF ~minmax THEN 0
    ELSE IF c.start_key = q /\ c.skipMin THEN 1
    ELSE IF c.end_key = q /\ c.skipMax THEN -1
    ELSE 0

Seek(c, ws, i, q, d, minmax) ==
    LET j == [i EXCEPT !.dhandle = FALSE]
    IN  IF (c.end_key # NoItem /\ q > c.end_key) \/ (c.start_key # NoItem /\ q < c.start_key)
        THEN Failure(j)
        ELSE SeekResult(c, ws, SeekFirst(c, ws, j, q, NextOp(c, q, minmax), d))

-----------------------------------------------------------------------------
\* _fdb_iterator_seek_to_min_key / _max_key.  A bound longer than a chunk is a
\* key of the user (in multi KV mode), and is seeked; the other direction is
\* tried when the first one finds nothing.
IsLong(c, k) == c.multi /\ k \in UserKey

SeekBound(c, ws, i, k, d, skip) ==
    LET r == Seek(c, ws, i, k, d, TRUE)
    IN  IF r.ok \/ skip THEN r ELSE Seek(c, ws, r.it, k, -d, TRUE)

\* No user key: both iterators go back to where fdb_iterator_init put them.
\* The trie's key that waits to be returned stays.
Rewound(c, ws, i) ==
    LET w == wal_itr_search(ws, i.w, i.startc, 1)
        j == [i EXCEPT !.dir = 1, !.h = iterator_init(c.start_key)]
    IN  IF i.startc = NoItem THEN j
        ELSE [Replaced(j, w) EXCEPT !.prevc = w.cursor_pos, !.status = "IDX"]

SeekToMin(c, ws, i) ==
    IF IsLong(c, c.start_key)
    THEN SeekBound(c, ws, [i EXCEPT !.dir = 1], c.start_key,
                   IF c.skipMin THEN 1 ELSE -1, c.skipMin)
    ELSE Move(c, ws, Rewound(c, ws, i), 1)

\* The trie's largest key, unless it is deleted.
LastTrieKey(c, i) ==
    LET m == HbtrieMove(TrieKeys(c), iterator_init(c.end_key), -1)
        off == IF m.ok THEN InTrie(m.key) ELSE Swapped(i.off)
    IN  [i EXCEPT !.h = m.h, !.key = IF m.ok THEN m.key ELSE @,
                  !.off = IF Readable(off) /\ ~IsDeleted(c, off) THEN off ELSE NoOff]

\* The WAL's search has no key to start from when there is no end key.
FastForwarded(c, ws, i) ==
    LET j == IF c.multi THEN LastTrieKey(c, i)
             ELSE [i EXCEPT !.h = iterator_init(Above), !.off = NoOff]
        w == wal_itr_search(ws, i.w, IF c.end_key = NoItem THEN KvMin ELSE c.end_key, -1)
    IN  [Replaced(j, w) EXCEPT !.prevc = w.cursor_pos, !.status = "IDX", !.dir = -1]

SeekToMax(c, ws, i) ==
    IF IsLong(c, c.end_key)
    THEN SeekBound(c, ws, [i EXCEPT !.dir = 1], c.end_key,
                   IF c.skipMax THEN -1 ELSE 1, c.skipMax)
    ELSE Move(c, ws, FastForwarded(c, ws, i), -1)

\* fdb_iterator_init places both iterators and moves to the first key.
Opened(c, ws, w) ==
    [h |-> iterator_init(c.start_key), w |-> w, cur |-> w.cursor_pos,
     startc |-> w.cursor_pos, prevc |-> w.cursor_pos, dir |-> 0, status |-> "IDX",
     key |-> NoItem, off |-> NoOff, get_off |-> NoOff, dhandle |-> FALSE]

Open(c, ws, w) ==
    Move(c, ws, Opened(c, ws, IF c.start_key = NoItem THEN wal_itr_first(ws, w)
                              ELSE wal_itr_search_greater(ws, w, c.start_key)), 1)

\* fdb_iterator_get (and get_metaonly): the document, an error, or
\* FDB_RESULT_KEY_NOT_FOUND for a deleted document that is not wanted.
Get(c, i) ==
    IF ~i.dhandle \/ i.get_off = NoOff THEN "ITERATOR_FAIL"
    ELSE IF ~Readable(i.get_off) THEN "READ_FAIL"
    ELSE IF IsDeleted(c, i.get_off) /\ c.noDeletes THEN "KEY_NOT_FOUND"
    ELSE i.get_off

-----------------------------------------------------------------------------
Called(r) == it' = r.it /\ kret' = IF r.ok THEN "SUCCESS" ELSE "ITERATOR_FAIL"

fdb_iterator_init(c) ==
    /\ db = c
    /\ LET r == Open(c, WalSeen(c), wal_itr_init(WalSeen(c)))
       IN  it = r.it /\ kret = IF r.ok THEN "SUCCESS" ELSE "ITERATOR_FAIL"

fdb_iterator_next == Called(iterator_next(db, WalSeen(db), it)) /\ UNCHANGED db
fdb_iterator_prev == Called(iterator_prev(db, WalSeen(db), it)) /\ UNCHANGED db
fdb_iterator_seek(q, d) == Called(Seek(db, WalSeen(db), it, q, d, FALSE)) /\ UNCHANGED db
fdb_iterator_seek_to_min == Called(SeekToMin(db, WalSeen(db), it)) /\ UNCHANGED db
fdb_iterator_seek_to_max == Called(SeekToMax(db, WalSeen(db), it)) /\ UNCHANGED db

-----------------------------------------------------------------------------
(***************************************************************************)
(* Properties.                                                             *)
(***************************************************************************)
\* The type of the fdb_iterator.  A key of the trie that waits to be returned
\* (_offset) is the one in _key: fdb_iterator_next and _prev compare _key with
\* the WAL's key and return the document at _offset.
KTypeOK ==
    /\ kret \in {"SUCCESS", "ITERATOR_FAIL"}
    /\ it.off \in {NoOff, InTrie(it.key)}
    /\ it.get_off \in {NoOff} \cup {InTrie(k) : k \in UserKey} \cup {InWal(k) : k \in UserKey}
    /\ it.status \in {"IDX", "WAL"} /\ it.dir \in {-1, 0, 1} /\ it.dhandle \in BOOLEAN
    /\ {it.cur, it.prevc, it.startc} \subseteq UserKey \cup {NoItem}

\* The iterator's idea of the WAL (tree_cursor) and the WAL iterator's own
\* cursors never part: while the iterator holds a WAL item, the WAL iterator
\* stands on it, and every shard's cursor is the nearest item of its shard in
\* the direction the WAL iterator moves, so that the next merge misses none.
CursorsAgree ==
    it.cur # NoItem =>
        /\ it.w.cursor_pos = it.cur
        /\ db.persisted \/ \A s \in DOMAIN it.w.cursors :
              it.w.cursors[s] = Pick({k \in UserKey : /\ db.wal[k] # "none" /\ k % 2 = s
                                                      /\ it.w.direction * k >= it.w.direction * it.cur},
                                     it.w.direction)
=============================================================================
