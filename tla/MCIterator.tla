----------------------------- MODULE MCIterator -----------------------------
(***************************************************************************)
(* The key iterator and the sequence iterator over every small content of  *)
(* the main index and the WAL, in lockstep with a cursor on the set of     *)
(* documents the iteration should show.  kind is the kind of iteration:    *)
(*   moves   key iterator, next and prev only, removed keys in the WAL;    *)
(*   seeks   key iterator, every call, no removed keys;                    *)
(*   marks   key iterator, every call but seek_to_max, deletions kept for  *)
(*           their mark and wanted by the iterator;                        *)
(*   seqs    sequence iterator, from the first sequence number;            *)
(*   range   sequence iterator, forward only, from a given number.         *)
(* The calls left out, and the guards below, are the ones after which the  *)
(* code does not return what the reference does; the README lists them.    *)
(***************************************************************************)
EXTENDS Iterator, SeqIterator, RangeCursor

CONSTANTS KeyLoads, SeqLoads

VARIABLES kind, ref, lost

allvars == <<kvars, svars, kind, ref, lost>>

-----------------------------------------------------------------------------
\* The documents an iteration shows, said without the iterators' operators.
WithinBounds(c, k) ==
    /\ c.start_key = NoItem \/ (IF c.skipMin THEN k > c.start_key ELSE k >= c.start_key)
    /\ c.end_key = NoItem \/ (IF c.skipMax THEN k < c.end_key ELSE k <= c.end_key)
Shown(c) == {k \in UserKey :
    /\ WithinBounds(c, k)
    /\ c.wal[k] = "insert" \/ (c.wal[k] = "none" /\ c.trie[k] = "live")
       \/ (~c.noDeletes /\ (c.wal[k] = "logical" \/ (c.wal[k] = "none" /\ c.trie[k] = "deleted")))}
Version(c, k) == IF c.wal[k] # "none" THEN InWal(k) ELSE InTrie(k)

\* By sequence number, the newest document of each key within the range, or
\* every one of them.
InSeqRange(c, s) == c.start_seqnum <= s /\ s <= c.end_seqnum
IsNewest(c, s) == ~\E t \in SeqNum : t > s /\ InSeqRange(c, t) /\ c.key[t] = c.key[s]
                                     /\ (t \in c.tree \/ c.wal[t] # "none")
IsDeletion(c, s) == c.wal[s] = "remove" \/ (c.noDeletes /\ (c.wal[s] = "logical" \/ s \in c.marked))
SeqShown(c) == {s \in SeqNum : /\ InSeqRange(c, s) /\ (s \in c.tree \/ c.wal[s] # "none")
                               /\ c.allOp \/ (IsNewest(c, s) /\ ~IsDeletion(c, s))}
SeqVersion(c, s) == IF c.wal[s] # "none" THEN SeqInWal(s) ELSE SeqInTree(s)

-----------------------------------------------------------------------------
\* Contents: with purging interval 0 a flush removes deleted keys, otherwise
\* it keeps their documents, with a mark.
Tries(l) == [UserKey -> {"none", "live"} \cup IF l = "marks" THEN {"deleted"} ELSE {}]
Wals(l) == [UserKey -> {"none", "insert"} \cup CASE l = "moves" -> {"remove"}
                                                [] l = "marks" -> {"logical"}
                                                [] OTHER -> {}]

\* In multi KV mode the iteration always has bounds, the KV store's own.
Bounds(l, mu) == LET lo == IF mu THEN KvMin ELSE NoItem
                     hi == IF mu THEN KvMax ELSE NoItem
                 IN  {<<lo, hi>>} \cup IF l = "marks" THEN {} ELSE {<<lo, 2>>, <<2, hi>>, <<2, N>>}

KeyDbs(l) == UNION {{[trie |-> t, wal |-> w, others |-> IF mu THEN {Below, Above} ELSE {},
                      multi |-> mu, persisted |-> pe, start_key |-> b[1], end_key |-> b[2],
                      noDeletes |-> FALSE, skipMin |-> sk /\ b[1] \in UserKey,
                      skipMax |-> sk /\ b[2] \in UserKey] :
                        t \in Tries(l), w \in Wals(l), b \in Bounds(l, mu), sk \in BOOLEAN}
                      : mu \in BOOLEAN, pe \in BOOLEAN}

\* One document of a key in the tree and one in the WAL; the WAL's sequence
\* numbers are larger than the tree's.
OneDocument(c) ==
    /\ \A s, t \in c.tree : c.key[s] = c.key[t] => s = t
    /\ \A s, t \in SeqNum : c.wal[s] # "none" /\ c.wal[t] # "none" /\ c.key[s] = c.key[t] => s = t
    /\ \A s \in c.tree, t \in SeqNum : c.wal[t] # "none" => s < t
    /\ c.marked \subseteq c.tree

SeqDbs(l) == UNION {{c \in
    [key : [SeqNum -> 1 .. 2], tree : SUBSET SeqNum,
     marked : {{}} \cup IF nd THEN SUBSET SeqNum ELSE {},
     wal : [SeqNum -> {"none", "insert", IF nd THEN "logical" ELSE "remove"}],
     others : {IF mu THEN {SeqBelow, SeqAbove} ELSE {}}, high : {{}},
     multi : {mu}, persisted : {pe},
     start_seqnum : {IF l = "range" THEN 2 ELSE 0}, end_seqnum : {M - 1, SEQNUM_NOT_USED},
     noDeletes : {nd}, allOp : {FALSE, pe /\ ~nd}, skipMax : {FALSE}] : OneDocument(c)}
       : mu \in BOOLEAN, pe \in BOOLEAN, nd \in BOOLEAN}

KeyInit == \E l \in KeyLoads : \E c \in KeyDbs(l) :
    /\ kind = l /\ fdb_iterator_init(c) /\ ref = Arrived(Shown(c), 1)
    /\ sdb = "none" /\ sit = "none" /\ sret = "none" /\ lost = FALSE

SeqInit == \E l \in SeqLoads : \E c \in SeqDbs(l) :
    /\ kind = l /\ fdb_iterator_sequence_init(c) /\ ref = Arrived(SeqShown(c), 1)
    /\ db = "none" /\ it = "none" /\ kret = "none" /\ lost = FALSE

-----------------------------------------------------------------------------
\* A move that fails at the end it turned to leaves the direction and the WAL
\* cursor apart; the iteration ends there.
MoveLost(dir, d) == lost' = (ref'.at = NoItem /\ dir # d)

KeyCall(l) == kind \in l /\ UNCHANGED <<kind, svars>>
OutOfRange(q) == (db.end_key # NoItem /\ q > db.end_key) \/ (db.start_key # NoItem /\ q < db.start_key)
AtSkipped(q) == (q = db.start_key /\ db.skipMin) \/ (q = db.end_key /\ db.skipMax)

KeyNext == /\ KeyCall(KeyLoads) /\ ~lost /\ fdb_iterator_next
           /\ ref' = Walked(Shown(db), ref, 1) /\ MoveLost(it.dir, 1)
KeyPrev == /\ KeyCall(KeyLoads) /\ ~lost /\ fdb_iterator_prev
           /\ ref' = Walked(Shown(db), ref, -1) /\ MoveLost(it.dir, -1)
KeySeek == \E q \in UserKey, d \in {1, -1} :
    /\ KeyCall({"seeks", "marks"}) /\ ~AtSkipped(q) /\ fdb_iterator_seek(q, d)
    /\ ref' = IF OutOfRange(q) THEN Refused(ref) ELSE Sought(Shown(db), q, d)
    /\ lost' = (lost /\ OutOfRange(q))
KeyMin == /\ KeyCall({"seeks", "marks"}) /\ ~db.skipMin /\ it.off = NoOff
          /\ fdb_iterator_seek_to_min /\ ref' = Arrived(Shown(db), 1) /\ lost' = FALSE
KeyMax == /\ KeyCall({"seeks"}) /\ ~db.skipMax /\ (db.multi \/ db.end_key # NoItem)
          /\ fdb_iterator_seek_to_max /\ ref' = Arrived(Shown(db), -1) /\ lost' = FALSE

SeqCall(l) == kind \in l /\ UNCHANGED <<kind, kvars>>
\* No move on from the end, and no turn at a WAL item that was searched.
MayMove(d) == /\ ~lost /\ ref.pos # Beyond(d)
              /\ (sit.dir = d \/ ~(sit.status = "WAL" /\ sit.cur = sit.prevc))

SeqGoNext == /\ SeqCall(SeqLoads) /\ MayMove(1) /\ seq_next
             /\ ref' = Walked(SeqShown(sdb), ref, 1) /\ MoveLost(sit.dir, 1)
SeqGoPrev == /\ SeqCall({"seqs"}) /\ MayMove(-1) /\ seq_prev
             /\ ref' = Walked(SeqShown(sdb), ref, -1) /\ MoveLost(sit.dir, -1)
SeqGoTo == \E q \in SeqNum :
    /\ SeqCall(SeqLoads) /\ sdb.start_seqnum <= q /\ q <= sdb.end_seqnum
    /\ fdb_iterator_seek_byseq(q, 1)
    /\ ref' = Sought(SeqShown(sdb), q, 1) /\ lost' = (ref'.at = NoItem)
SeqMin == /\ SeqCall(SeqLoads) /\ seek_to_min_seq
          /\ ref' = Arrived(SeqShown(sdb), 1) /\ lost' = FALSE
SeqMax == /\ SeqCall({"seqs"}) /\ sit.status = "IDX" /\ seek_to_max_seq
          /\ ref' = Arrived(SeqShown(sdb), -1) /\ lost' = FALSE

IterInit == KeyInit \/ SeqInit
IterNext == \/ KeyNext \/ KeyPrev \/ KeySeek \/ KeyMin \/ KeyMax
            \/ SeqGoNext \/ SeqGoPrev \/ SeqGoTo \/ SeqMin \/ SeqMax
IterSpec == IterInit /\ [][IterNext]_allvars

-----------------------------------------------------------------------------
IterTypeOK == /\ kind \in KeyLoads => KTypeOK
              /\ kind \in SeqLoads => SeqTypeOK

\* CursorsAgree, see Iterator.
IterCursorsAgree == kind \in KeyLoads => CursorsAgree

\* What the key iterator returns after any sequence of calls is what a cursor
\* on the set of visible documents returns: no key twice, none left out, the
\* WAL's version before the main index's, and nothing out of the bounds.
KeyAgrees == kind \in KeyLoads =>
    IF ref.at = NoItem THEN kret = "ITERATOR_FAIL"
    ELSE kret = "SUCCESS" /\ Get(db, it) = Version(db, ref.at)

\* The same for the sequence iterator.
SeqAgrees == kind \in SeqLoads =>
    IF ref.at = NoItem THEN sret = "ITERATOR_FAIL"
    ELSE sret = "SUCCESS" /\ SeqGet(sdb, sit) = SeqVersion(sdb, ref.at)
=============================================================================
