---------------------------- MODULE SeqIterator ----------------------------
(***************************************************************************)
(* The sequence iterator (iterator.cc): the documents of a KV store in the *)
(* order of their sequence numbers.  Going forward it walks the sequence   *)
(* tree of the main index first and the WAL after it, going backward the   *)
(* WAL first; a document of the tree whose key has a newer version in the  *)
(* range of the iteration is passed over.                                  *)
(*                                                                         *)
(* sdb: key     sequence number -> key of the document;                    *)
(*      tree    the sequence numbers in the sequence tree, of which marked *)
(*              are deletions; wal  sequence number -> "none", "insert",   *)
(*              "logical" or "remove", the WAL items the snapshot sees;    *)
(*      others  numbers that stand for documents of other KV stores in the *)
(*              sequence trie; high  WAL shards that hold items of KV      *)
(*              stores with larger ids; multi, persisted as in Iterator;   *)
(*      start_seqnum, end_seqnum and the options noDeletes, allOp, skipMax.*)
(***************************************************************************)
EXTENDS IndexCursor

CONSTANT M              \* sequence numbers are 1 .. M

ASSUME MAssumption == M \in Nat \ {0}

VARIABLES sdb,          \* the snapshot and the iterator's parameters
          sit,          \* the fdb_iterator
          sret          \* status of the last call

svars == <<sdb, sit, sret>>

SeqNum == 1 .. M
SEQNUM_NOT_USED == M + 1
SeqBelow == -3          \* documents of other KV stores
SeqAbove == M + 2

SeqNoOff == <<"none", 0>>
SeqInTree(s) == <<"tree", s>>
SeqInWal(s) == <<"wal", s>>

SeqWal(c) == [own |-> {s \in SeqNum : c.wal[s] # "none"},
              shard |-> [s \in SeqNum |-> s % 2], high |-> c.high,
              persisted |-> c.persisted, byKey |-> FALSE]

\* hbtrie_next/prev on the sequence trie, btree_next/prev on the sequence tree;
\* a document of another KV store ends the walk like a failure.
SeqMove(c, h, d) ==
    IF c.multi THEN HbtrieMove(c.tree \cup c.others, h, d) ELSE BtreeMove(c.tree, h, d)
Ours(c, m) == m.ok /\ m.key \notin c.others

SeqRemoved(c, s) == ~c.allOp /\ (c.wal[s] = "remove" \/ (c.wal[s] = "logical" /\ c.noDeletes))

\* wal_find: the version of the document's key in the WAL is in the range; or
\* a newer one is in the main index.
Superseded(c, s) ==
    \/ \E t \in SeqNum : c.wal[t] # "none" /\ c.key[t] = c.key[s]
                         /\ c.start_seqnum <= t /\ t <= c.end_seqnum
    \/ \E t \in c.tree : c.key[t] = c.key[s] /\ s < t /\ t <= c.end_seqnum

SeqDone(i) == [it |-> i, ok |-> TRUE]
SeqFailure(i) == [it |-> i, ok |-> FALSE]
SeqReplaced(i, w) == [i EXCEPT !.w = w, !.cur = w.cursor_pos]

\* A change of direction that leaves the WAL cursor where it is.
SeqTurnedNoSearch(c, ws, i, d) ==
    IF i.dir = d THEN i
    ELSE [i EXCEPT !.off = IF i.status = "IDX" THEN SeqNoOff ELSE @]

\* A change of direction.
SeqTurned(c, ws, i, d) ==
    LET j == [i EXCEPT !.off = IF i.status = "IDX" THEN SeqNoOff ELSE @]
    IN  IF i.dir = d THEN i
        ELSE IF i.prevc = NoItem \/ (d = -1 /\ i.cur = i.prevc) THEN j
        ELSE [SeqReplaced(j, wal_itr_search(ws, j.w, j.prevc, d)) EXCEPT !.status = "IDX"]

\* The WAL cursor moves if it was moved to before.
SeqWalMoved(ws, i, d) ==
    IF i.status = "WAL"
    THEN [SeqReplaced(i, wal_itr_step(ws, i.w, d)) EXCEPT !.prevc = i.cur]
    ELSE i

TakeSeqWal(i) ==
    SeqDone([i EXCEPT !.off = SeqInWal(i.cur), !.seq = i.cur,
                      !.dhandle = TRUE, !.get_off = SeqInWal(i.cur)])

RECURSIVE SeqNext(_, _, _), SeqNextWal(_, _, _), SeqPrev(_, _, _), SeqPrevWal(_, _, _)
\* An item of the tree: passed over if it is deleted and deletions are not
\* wanted (the wrapper calls the function once more) or if it is superseded.
TakeSeqTree(c, ws, i, s, d) ==
    IF ~c.allOp /\ s \in c.marked /\ c.noDeletes
    THEN IF d = 1 THEN SeqNext(c, ws, SeqTurned(c, ws, i, d))
         ELSE SeqPrev(c, ws, SeqTurned(c, ws, i, d))
    ELSE IF ~c.allOp /\ Superseded(c, s)
    THEN IF d = 1 THEN SeqNext(c, ws, i) ELSE SeqPrev(c, ws, i)
    ELSE SeqDone([i EXCEPT !.dhandle = TRUE, !.get_off = SeqInTree(s)])

\* _fdb_iterator_seq_next.
SeqNextItem(c, ws, i) ==
    LET j == [i EXCEPT !.status = "WAL"]
    IN  IF i.cur = NoItem THEN SeqFailure(i)
        ELSE IF SeqRemoved(c, i.cur) \/ i.cur < i.seq THEN SeqNextWal(c, ws, j)
        ELSE IF i.cur > c.end_seqnum THEN SeqFailure(j)
        ELSE TakeSeqWal(j)

SeqNextWal(c, ws, i) ==
    IF i.cur = NoItem THEN SeqFailure(i) ELSE SeqNextItem(c, ws, SeqWalMoved(ws, i, 1))

SeqNextTree(c, ws, i, m) ==
    IF ~Ours(c, m) THEN SeqNextWal(c, ws, i)
    ELSE IF m.key > c.end_seqnum THEN SeqFailure([i EXCEPT !.seq = m.key])
    ELSE TakeSeqTree(c, ws, [i EXCEPT !.seq = m.key, !.status = "IDX"], m.key, 1)

SeqNext(c, ws, i) ==
    LET m == SeqMove(c, i.h, 1)
    IN  IF i.off = SeqNoOff THEN SeqNextTree(c, ws, [i EXCEPT !.h = m.h], m)
        ELSE SeqNextWal(c, ws, i)

\* _fdb_iterator_seq_prev.
SeqPrevItem(c, ws, i) ==
    LET j == [i EXCEPT !.status = "WAL"]
    IN  IF i.cur = NoItem THEN SeqPrev(c, ws, i)
        ELSE IF SeqRemoved(c, i.cur) THEN SeqPrevWal(c, ws, j)
        ELSE TakeSeqWal(j)

SeqPrevWal(c, ws, i) == SeqPrevItem(c, ws, SeqWalMoved(ws, i, -1))

SeqPrevTree(c, ws, i, m) ==
    IF ~Ours(c, m) THEN SeqFailure([i EXCEPT !.off = SeqNoOff])
    ELSE IF m.key < c.start_seqnum THEN SeqFailure([i EXCEPT !.seq = m.key])
    ELSE TakeSeqTree(c, ws, [i EXCEPT !.seq = m.key, !.status = "IDX"], m.key, -1)

SeqPrev(c, ws, i) ==
    LET m == SeqMove(c, i.h, -1)
    IN  IF i.off = SeqNoOff \/ i.cur = NoItem
        THEN SeqPrevTree(c, ws, [i EXCEPT !.h = m.h], m)
        ELSE SeqPrevWal(c, ws, i)

\* fdb_iterator_next / fdb_iterator_prev.
SeqSettled(r, d) ==
    IF r.ok THEN SeqDone([r.it EXCEPT !.dir = d])
    ELSE SeqFailure([r.it EXCEPT !.dhandle = FALSE,
             !.off = IF r.it.dir # 0 /\ r.it.status = "IDX" THEN SeqNoOff ELSE @])

SeqForward(c, ws, i) == SeqSettled(SeqNext(c, ws, SeqTurned(c, ws, i, 1)), 1)
SeqBackward(c, ws, i) == SeqSettled(SeqPrev(c, ws, SeqTurned(c, ws, i, -1)), -1)

-----------------------------------------------------------------------------
\* With a WAL item at hand a move backward starts in the WAL, not in the tree.
SeqStart(i, w) == [SeqReplaced(i, w) EXCEPT
    !.off = IF w.cursor_pos = NoItem THEN SeqNoOff ELSE SeqInWal(w.cursor_pos),
    !.prevc = w.cursor_pos]

\* fdb_iterator_seek_byseq; d is 1 for FDB_ITR_SEEK_HIGHER, -1 for LOWER.
SeqSeek(c, ws, i, q, d) ==
    LET j == SeqStart([i EXCEPT !.dir = 0, !.status = "IDX", !.seq = q,
                                !.h = iterator_init(q)],
                      wal_itr_search_greater(ws, i.w, q))
    IN  IF d = 1 THEN SeqForward(c, ws, j)
        ELSE SeqBackward(c, ws, [j EXCEPT !.status = "WAL"])

\* _fdb_iterator_seek_to_max_seq; the status stays what it was.
SkippedMax(c, ws, w) ==
    IF w.cursor_pos = c.end_seqnum /\ c.skipMax THEN wal_itr_prev(ws, w) ELSE w

SeqSeekToMax(c, ws, i) ==
    SeqBackward(c, ws,
        SeqStart([i EXCEPT !.dir = -1, !.seq = c.end_seqnum, !.h = iterator_init(c.end_seqnum)],
                 SkippedMax(c, ws, IF c.end_seqnum = SEQNUM_NOT_USED THEN wal_itr_last(ws, i.w)
                                   ELSE wal_itr_search_smaller(ws, i.w, c.end_seqnum))))

\* fdb_iterator_sequence_init.
SeqOpened(c, w) ==
    [h |-> iterator_init(c.start_seqnum), w |-> w, cur |-> w.cursor_pos,
     prevc |-> w.cursor_pos, dir |-> 0, status |-> "IDX", seq |-> c.start_seqnum,
     off |-> SeqNoOff, get_off |-> SeqNoOff, dhandle |-> FALSE]

\* fdb_iterator_get.
SeqGet(c, i) ==
    IF ~i.dhandle \/ i.get_off = SeqNoOff THEN "ITERATOR_FAIL"
    ELSE IF c.noDeletes /\ (i.get_off[2] \in c.marked \/ c.wal[i.get_off[2]] = "logical")
    THEN "KEY_NOT_FOUND"
    ELSE i.get_off

-----------------------------------------------------------------------------
SeqStatus(r) == IF r.ok THEN "SUCCESS" ELSE "ITERATOR_FAIL"
SeqCalled(r) == sit' = r.it /\ sret' = SeqStatus(r) /\ UNCHANGED sdb

fdb_iterator_sequence_init(c) ==
    /\ sdb = c
    /\ LET r == SeqForward(c, SeqWal(c), SeqOpened(c,
                    wal_itr_search_greater(SeqWal(c), wal_itr_init(SeqWal(c)), c.start_seqnum)))
       IN  sit = r.it /\ sret = SeqStatus(r)

seq_next == SeqCalled(SeqForward(sdb, SeqWal(sdb), sit))
seq_prev == SeqCalled(SeqBackward(sdb, SeqWal(sdb), sit))
fdb_iterator_seek_byseq(q, d) == SeqCalled(SeqSeek(sdb, SeqWal(sdb), sit, q, d))
seek_to_min_seq == SeqCalled(SeqSeek(sdb, SeqWal(sdb), sit, sdb.start_seqnum, 1))
seek_to_max_seq == SeqCalled(SeqSeekToMax(sdb, SeqWal(sdb), sit))

-----------------------------------------------------------------------------
\* The type of the fdb_iterator.  Its WAL cursors stand on items the snapshot
\* sees, and what it returns is a document of the tree or of the WAL.
SeqTypeOK ==
    /\ sret \in {"SUCCESS", "ITERATOR_FAIL"}
    /\ sit.status \in {"IDX", "WAL"} /\ sit.dir \in {-1, 0, 1} /\ sit.dhandle \in BOOLEAN
    /\ {sit.cur, sit.prevc} \subseteq {NoItem} \cup {s \in SeqNum : sdb.wal[s] # "none"}
    /\ sit.get_off \in {SeqNoOff} \cup {SeqInTree(s) : s \in sdb.tree}
                       \cup {SeqInWal(s) : s \in SeqNum}
    /\ sit.seq \in {sdb.start_seqnum} \cup 1 .. SEQNUM_NOT_USED
=============================================================================
