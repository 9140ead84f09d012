----------------------------- MODULE Compaction -----------------------------
(* What a compaction moves (_fdb_compact_file): writers append documents,     *)
(* transactions' documents, commit marks and headers to the old file while    *)
(* the compactor fills a new one.  It flushes and commits the old file, moves *)
(* the documents the index of a header points to, then replays what was       *)
(* appended behind that header, header by header, until it has caught up;     *)
(* takes the writers' lock, replays the uncommitted rest, moves the open      *)
(* transactions' items, and commits the new file in the place of the old one. *)
(* With fdb_compact_upto it starts from an older header (the marker) and      *)
(* repeats the later headers, so that snapshots stay readable.                *)
(*                                                                            *)
(* A file is a sequence of blocks; a document lies within one block, and the  *)
(* blocks of a compacted range are not reused ones (sb_return_reusable_blocks *)
(* makes the writers append; the circular scan is left out).  The number ver  *)
(* of documents written, ver, stands for the contents of a document.  Names,  *)
(* status flags of the two files and their removal are in module Files.       *)
EXTENDS Integers, FiniteSets, SequencesExt

CONSTANTS
    Key,            \* keys of documents
    Writer,         \* file handles of the application, each with a docio handle
    KeysOf,         \* the keys each of them writes
    BlockCap,       \* documents that fit a block
    BatchSize,      \* FDB_COMP_BATCHSIZE
    Configs,        \* configurations: purging_interval (0, or 1 for "some time"),
                    \* and whether a callback is configured for FDB_CS_MOVE_DOC
    MaxDoc,         \* bound: documents written
    MaxHdr,         \* bound: headers the application writes
    MaxCompact,     \* bound: compactions started
    MaxRollback     \* bound: calls of fdb_rollback

ASSUME KeysOfAssumption == KeysOf \in [Writer -> SUBSET Key]
ASSUME SizeAssumption == BlockCap \in Nat \ {0} /\ BatchSize \in Nat \ {0}

VARIABLES
    blk,        \* blocks of the old file: documents, or a header
    cur,        \* curblock of each handle's dhandle (0: BLK_NOT_FOUND)
    seq,        \* sequence number of the file
    idx,        \* its index: where the document of a key is
    wal,        \* its WAL: the committed item and global_txn's uncommitted one
    clean,      \* FDB_WAL_CLEAN
    lwf,        \* last_wal_flush_hdr_bid
    gprev,      \* global_txn.prev_hdr_bid
    txn,        \* the transaction of each handle
    flags,      \* FILEMGR_ROLLBACK_IN_PROG, FILEMGR_CANCEL_COMPACTION
    config,     \* the configuration
    cp,         \* the compactor
    nidx,       \* index of the new file: its documents by key
    nwal,       \* its WAL: committed and uncommitted items
    nhdr,       \* headers of the new file: the header each repeats, and its index
    ntxn,       \* items moved by wal_txn_migration
    count       \* bounds

old   == <<blk, cur, seq, idx, wal, clean, lwf, gprev, txn>>
new   == <<nidx, nwal, nhdr, ntxn>>
covars == <<old, flags, config, cp, new, count>>

Nowhere == <<0, 0>>
NoDoc   == [ver |-> 0, del |-> FALSE]     \* a key without a document, or without an item
Gone    == [ver |-> 0, del |-> TRUE]      \* an item with WAL_ACT_REMOVE
Entry(t, k, s, d, ref) == [type |-> t, key |-> k, seq |-> s, ver |-> count.doc + 1, del |-> d, ref |-> ref]
NoTxn   == [on |-> FALSE, items |-> <<>>, prev |-> 0, rev |-> 0]

DocBlock == [type |-> "doc", docs |-> <<>>, idx |-> <<>>, lwf |-> 0, seq |-> 0, view |-> <<>>]
At(l)    == blk[l[1]].docs[l[2]]
Headers  == {b \in 1..Len(blk) : blk[b].type = "hdr"}
LastHdr  == CHOOSE b \in Headers : \A c \in Headers : c <= b

(* A document as a reader sees it: a deleted one is not there. *)
Visible(d) == IF d.del THEN 0 ELSE d.ver
DocAt(l)   == IF l = Nowhere THEN NoDoc ELSE [ver |-> At(l).ver, del |-> At(l).del]

(* What a handle without a transaction reads: the uncommitted item, the       *)
(* committed one behind it, then the index.                                   *)
ViewOf(w, i) == [k \in Key |-> IF w[k].unc # Nowhere THEN w[k].unc
                               ELSE IF w[k].com # Nowhere THEN w[k].com ELSE i[k]]

Compacting == cp.pc \notin {"idle", "done"}
Unlocked   == cp.lock = FALSE /\ cp.pc # "done"

-----------------------------------------------------------------------------
(* Appending to the old file. *)

(* docio_append_doc: the document goes to the block the handle is filling     *)
(* while that has room and was not committed, otherwise to a new block.       *)
AppendedStaleOffset(bs, c, e) ==
    IF c # 0 /\ (\A b \in c..Len(bs) : bs[b].type # "hdr") /\ Len(bs[c].docs) < BlockCap
    THEN [blk |-> [bs EXCEPT ![c].docs = Append(@, e)],
          cur |-> c, at |-> <<c, Len(bs[c].docs)>>]
    ELSE [blk |-> Append(bs, [DocBlock EXCEPT !.docs = <<e>>]),
          cur |-> Len(bs) + 1, at |-> <<Len(bs) + 1, 1>>]
Appended(bs, c, e) ==
    IF c # 0 /\ (\A b \in c..Len(bs) : bs[b].type # "hdr") /\ Len(bs[c].docs) < BlockCap
    THEN [blk |-> [bs EXCEPT ![c].docs = Append(@, e)],
          cur |-> c, at |-> <<c, Len(bs[c].docs) + 1>>]
    ELSE [blk |-> Append(bs, [DocBlock EXCEPT !.docs = <<e>>]),
          cur |-> Len(bs) + 1, at |-> <<Len(bs) + 1, 1>>]

(* wal_insert of a transaction: the item of the same key is replaced in its   *)
(* place.                                                                     *)
TxnInsert(items, k, l) ==
    LET same == {i \in 1..Len(items) : At(items[i]).key = k}
    IN  IF same = {} THEN Append(items, l) ELSE [i \in 1..Len(items) |-> IF i \in same THEN l ELSE items[i]]

(* fdb_set, fdb_del. *)
fdb_set(w, k, d) ==
    /\ Unlocked /\ ~flags.rollback
    /\ count.doc < MaxDoc
    /\ LET a == Appended(blk, cur[w], Entry(IF txn[w].on THEN "txn" ELSE "doc", k, seq + 1, d, Nowhere))
       IN  /\ blk' = a.blk
           /\ cur' = [cur EXCEPT ![w] = a.cur]
           /\ IF txn[w].on
              THEN /\ txn' = [txn EXCEPT ![w].items = TxnInsert(@, k, a.at)]
                   /\ UNCHANGED wal
              ELSE /\ wal' = [wal EXCEPT ![k].unc = a.at]
                   /\ UNCHANGED txn
    /\ seq' = seq + 1
    /\ clean' = FALSE
    /\ count' = [count EXCEPT !.doc = @ + 1]
    /\ UNCHANGED <<idx, lwf, gprev, flags, config, cp, new>>

(* fdb_begin_transaction: while a compaction runs there is no header to       *)
(* restart the transaction from.                                              *)
fdb_begin_transaction(w) ==
    /\ Unlocked /\ ~flags.rollback
    /\ ~txn[w].on
    /\ txn' = [txn EXCEPT ![w] = [on |-> TRUE, items |-> <<>>, rev |-> LastHdr,
                                  prev |-> IF Compacting THEN 0 ELSE LastHdr]]
    /\ UNCHANGED <<blk, cur, seq, idx, wal, clean, lwf, gprev, flags, config, cp, new, count>>

(* fdb_abort_transaction: wal_discard drops the items, the documents stay.    *)
fdb_abort_transaction(w) ==
    /\ Unlocked
    /\ txn[w].on
    /\ txn' = [txn EXCEPT ![w] = NoTxn]
    /\ UNCHANGED <<blk, cur, seq, idx, wal, clean, lwf, gprev, flags, config, cp, new, count>>

-----------------------------------------------------------------------------
(* Commits of the old file. *)

(* wal_commit of global_txn: its items become the committed ones. *)
GlobalCommitted(w) ==
    [k \in Key |-> IF w[k].unc = Nowhere THEN w[k] ELSE [com |-> w[k].unc, unc |-> Nowhere]]

(* wal_commit of a transaction: each of its items, in the order of its list.  *)
TxnCommitted(w, items) ==
    [k \in Key |-> LET mine == {i \in 1..Len(items) : At(items[i]).key = k}
                   IN  IF mine = {} THEN w[k] ELSE [w[k] EXCEPT !.com = items[CHOOSE i \in mine : TRUE]]]

(* _fdb_append_commit_mark, once for each item.                               *)
Marked(bs, c, items) ==
    FoldLeft(LAMBDA a, l : Appended(a.blk, a.cur, Entry("mark", At(l).key, At(l).seq, FALSE, l)),
             [blk |-> bs, cur |-> c, at |-> Nowhere], items)

(* wal_flush: the committed items go into the index.  Without a purging       *)
(* interval a deletion takes the key out of it, otherwise the deleted         *)
(* document is kept there.                                                    *)
Flushed(w, i) ==
    [k \in Key |-> IF w[k].com = Nowhere THEN i[k]
                   ELSE IF At(w[k].com).del /\ config.purging_interval = 0 THEN Nowhere ELSE w[k].com]
Emptied(w) == [k \in Key |-> [w[k] EXCEPT !.com = Nowhere]]

(* last_wal_flush_hdr_bid of a header written as block h, by the transaction  *)
(* of handle t or by global_txn: other transactions with items hold it back   *)
(* (wal_earliest_txn).                                                        *)
FlushPoint(h, t, cl, w) ==
    LET others == {[rev |-> txn[u].rev, hdr |-> txn[u].prev] :
                      u \in {v \in Writer \ {t} : txn[v].on /\ txn[v].items # <<>>}}
                  \cup IF t \in Writer /\ \E k \in Key : w[k].unc # Nowhere
                       THEN {[rev |-> gprev, hdr |-> gprev]} ELSE {}
        first  == CHOOSE o \in others : \A p \in others : o.rev <= p.rev
    IN  IF ~cl THEN lwf
        ELSE IF others = {} THEN h
        ELSE IF lwf < first.rev THEN first.hdr ELSE lwf

Header(i, f, s, w) == [type |-> "hdr", docs |-> <<>>, idx |-> i, lwf |-> f, seq |-> s,
                       view |-> ViewOf(w, i)]

(* The rest of _fdb_commit, after wal_commit left the WAL w and the blocks    *)
(* bs: the optional WAL flush and the header.                                 *)
CommitRest(bs, w, t, cl, flush) ==
    LET i == IF flush THEN Flushed(w, idx) ELSE idx
        f == FlushPoint(Len(bs) + 1, t, flush \/ cl, w)
        v == IF flush THEN Emptied(w) ELSE w
    IN  /\ blk' = Append(bs, Header(i, f, seq, v))
        /\ idx' = i /\ wal' = v /\ lwf' = f
        /\ clean' = (flush \/ cl)
        /\ gprev' = IF t \in Writer THEN gprev ELSE Len(bs) + 1
        /\ UNCHANGED seq

(* fdb_commit of a handle that has no transaction; flush: the threshold was   *)
(* exceeded, or FDB_COMMIT_MANUAL_WAL_FLUSH.                                  *)
fdb_commit(flush) ==
    /\ Unlocked /\ ~flags.rollback
    /\ count.hdr < MaxHdr
    /\ CommitRest(blk, GlobalCommitted(wal), "none", clean, flush)
    /\ count' = [count EXCEPT !.hdr = @ + 1]
    /\ UNCHANGED <<cur, txn, flags, config, cp, new>>

(* fdb_end_transaction: commit marks, then the commit, then the transaction   *)
(* is taken off the list.                                                     *)
fdb_end_transaction(w, flush) ==
    /\ Unlocked /\ ~flags.rollback
    /\ txn[w].on
    /\ count.hdr < MaxHdr
    /\ LET m == Marked(blk, cur[w], txn[w].items)
       IN  /\ CommitRest(m.blk, TxnCommitted(wal, txn[w].items), w, FALSE, flush)
           /\ cur' = [cur EXCEPT ![w] = m.cur]
    /\ txn' = [txn EXCEPT ![w] = NoTxn]
    /\ count' = [count EXCEPT !.hdr = @ + 1]
    /\ UNCHANGED <<flags, config, cp, new>>

-----------------------------------------------------------------------------
(* Rollback and cancellation. *)

(* fdb_rollback, first part: writers are refused from here on. *)
RollbackBegin ==
    /\ Unlocked /\ ~flags.rollback
    /\ count.rollback < MaxRollback
    /\ \A w \in Writer : ~txn[w].on
    /\ flags' = [flags EXCEPT !.rollback = TRUE]
    /\ count' = [count EXCEPT !.rollback = @ + 1]
    /\ UNCHANGED <<old, config, cp, new>>

(* _fdb_restore_wal for header h: the documents behind its WAL flush header,  *)
(* in the order of the file.                                                  *)
Restored(h) ==
    LET entries == FlattenSeq([b \in 1..(h - 1) |->
                       IF b > blk[h].lwf THEN [i \in 1..Len(blk[b].docs) |-> <<b, i>>] ELSE <<>>])
        docs == SelectSeq(entries, LAMBDA l : At(l).type # "txn" /\ At(l).seq <= blk[h].seq)
    IN  FoldLeft(LAMBDA w, l : [w EXCEPT ![At(l).key].com =
                                    IF At(l).type = "mark" THEN At(l).ref ELSE l],
                 [k \in Key |-> [com |-> Nowhere, unc |-> Nowhere]], docs)

(* fdb_rollback, once no compaction is running: the WAL is dropped, the index *)
(* and the WAL of header h are read, flushed and committed.                   *)
RollbackEnd(h) ==
    /\ flags.rollback /\ cp.pc = "idle"
    /\ h \in Headers
    /\ LET i == Flushed(Restored(h), blk[h].idx)
           w == [k \in Key |-> [com |-> Nowhere, unc |-> Nowhere]]
       IN  /\ blk' = Append(blk, Header(i, Len(blk) + 1, blk[h].seq, w))
           /\ idx' = i /\ wal' = w /\ clean' = TRUE
           /\ lwf' = Len(blk) + 1 /\ gprev' = Len(blk) + 1
    /\ seq' = blk[h].seq
    /\ flags' = [flags EXCEPT !.rollback = FALSE]
    /\ UNCHANGED <<cur, txn, config, cp, new, count>>

(* fdb_cancel_compaction: raise the flag, wait for the end of the compaction, *)
(* clear it.                                                                  *)
CancelBegin ==
    /\ Unlocked /\ Compacting /\ ~flags.cancel
    /\ flags' = [flags EXCEPT !.cancel = TRUE]
    /\ UNCHANGED <<old, config, cp, new, count>>
CancelEnd ==
    /\ flags.cancel /\ ~Compacting
    /\ flags' = [flags EXCEPT !.cancel = FALSE]
    /\ UNCHANGED <<old, config, cp, new, count>>

-----------------------------------------------------------------------------
(* The first phase of the compaction. *)

IdleCp == [pc |-> "idle", lock |-> FALSE, marker |-> 0, todo |-> {}, last |-> 0, cur |-> 0,
           off |-> Nowhere, orig |-> 0, batch |-> <<>>, escape |-> FALSE]
NewFile == [k \in Key |-> NoDoc]
NewWal  == [k \in Key |-> [com |-> NoDoc, unc |-> NoDoc]]

(* A failed compaction: FILE_NORMAL again, _fdb_cleanup_compact_err.          *)
Discarded ==
    /\ cp' = IdleCp
    /\ nidx' = NewFile /\ nwal' = NewWal /\ nhdr' = <<>>
    /\ UNCHANGED ntxn
MustAbort == flags.rollback \/ flags.cancel

(* _fdb_compact_file up to the release of the locks; m is the marker of       *)
(* fdb_compact_upto, or 0.                                                    *)
CompactBegin(m) ==
    /\ cp.pc = "idle" /\ ~flags.rollback
    /\ count.compact < MaxCompact
    /\ m \in Headers \cup {0}
    /\ LET w == GlobalCommitted(wal)
           h == Len(blk) + 1
       IN  /\ idx' = Flushed(w, idx) /\ wal' = Emptied(w)
           /\ blk' = Append(blk, Header(idx', h, seq, wal'))
           /\ lwf' = h /\ clean' = TRUE
           /\ cp' = [IdleCp EXCEPT !.pc = "open", !.marker = m, !.cur = h]
    /\ nidx' = NewFile /\ nwal' = NewWal /\ nhdr' = <<>>
    /\ count' = [count EXCEPT !.compact = @ + 1]
    /\ UNCHANGED <<cur, seq, gprev, txn, flags, config, ntxn>>

(* Where _fdb_compact_move_docs and its caller go on once nothing is left. *)
AfterMove(todo) ==
    IF todo # {} THEN "move" ELSE IF cp.marker = 0 THEN "sync"
    ELSE IF blk[cp.marker].lwf < cp.marker THEN "wal" ELSE "upto"

(* The root the documents are found with: that of the marker, otherwise of    *)
(* the newest header (fdb_get_file_info has called fdb_sync_db_header).       *)
MoveDocsRoot == IF cp.marker # 0 THEN blk[cp.marker].idx ELSE blk[LastHdr].idx

MoveDocsBegin ==
    /\ cp.pc = "open"
    /\ LET todo == {MoveDocsRoot[k] : k \in Key} \ {Nowhere}
       IN  cp' = [cp EXCEPT !.todo = todo, !.pc = AfterMove(todo),
                            !.off = IF cp.marker = 0 THEN Nowhere ELSE <<blk[cp.marker].lwf + 1, 1>>,
                            !.orig = IF cp.marker = 0 THEN 0 ELSE blk[cp.marker].lwf + 1]
    /\ UNCHANGED <<old, flags, config, new, count>>

(* A deleted document is dropped once its purging interval is over. *)
Drops(dels) == IF config.purging_interval = 0 THEN {dels} ELSE SUBSET dels

(* docio_batch_read_docs: the next documents, by their offset. *)
Before(l, m) == l[1] < m[1] \/ (l[1] = m[1] /\ l[2] < m[2])
FirstOf(ls, n) == {l \in ls : Cardinality({m \in ls : Before(m, l)}) < n}

(* _fdb_compact_move_docs, one batch: each document is appended to the new    *)
(* file and put into its index (wal_flush_by_compactor).                      *)
MoveDocs ==
    /\ cp.pc = "move"
    /\ LET ls == FirstOf(cp.todo, BatchSize)
       IN  \E drop \in Drops({l \in ls : At(l).del}) :
             IF MustAbort THEN Discarded
             ELSE /\ nidx' = [k \in Key |-> LET mine == {l \in ls \ drop : At(l).key = k}
                                            IN  IF mine = {} THEN nidx[k] ELSE DocAt(CHOOSE l \in mine : TRUE)]
                  /\ cp' = [cp EXCEPT !.todo = @ \ ls, !.pc = AfterMove(cp.todo \ ls)]
                  /\ UNCHANGED <<nwal, nhdr, ntxn>>
    /\ UNCHANGED <<old, flags, config, count>>

-----------------------------------------------------------------------------
(* Scanning the old file. *)

(* Nothing is read at this place: the zero bytes behind the last document. *)
BlockEnd(off) == off[2] > Len(blk[off[1]].docs)

(* The document an entry stands for: of a commit mark the one it commits. *)
Target(off) == IF At(off).type = "mark" THEN At(off).ref ELSE off

(* Where the scan goes on: behind the document that was read last, which for  *)
(* a commit mark is the transaction's document, not the mark.                 *)
After(off) == <<Target(off)[1], Target(off)[2] + 1>>

(* The next block, never one before the block the scan was in. *)
NextBlock(c) ==
    LET b == (IF c.off[1] < c.orig THEN c.orig ELSE c.off[1]) + 1
    IN  [c EXCEPT !.off = <<b, 1>>, !.orig = b]

AtBlockStart == cp.off = <<cp.orig, 1>>

(* _fdb_move_wal_docs, one entry: what the marker's index lacks.  wal_insert  *)
(* of the compactor (WAL_INS_COMPACT_PHASE1) makes a committed item for a new *)
(* key and an uncommitted one for a key the WAL has.                          *)
Phase1Insert(w, k, item) ==
    IF w[k] = NewWal[k] THEN [w EXCEPT ![k].com = item] ELSE [w EXCEPT ![k].unc = item]

MoveWalDocs ==
    /\ cp.pc = "wal" /\ cp.off[1] < cp.marker
    /\ IF blk[cp.off[1]].type = "hdr" \/ BlockEnd(cp.off)
       THEN cp' = NextBlock(cp) /\ UNCHANGED nwal
       ELSE LET e == At(Target(cp.off))
            IN  /\ cp' = [cp EXCEPT !.off = After(cp.off)]
                /\ IF At(cp.off).type = "txn" \/ e.seq > blk[cp.marker].seq
                   THEN UNCHANGED nwal
                   ELSE \E drop \in Drops(IF e.del THEN {e} ELSE {}) :
                          nwal' = Phase1Insert(nwal, e.key, IF e \in drop THEN Gone ELSE DocAt(Target(cp.off)))
    /\ UNCHANGED <<old, flags, config, nidx, nhdr, ntxn, count>>

(* Its end: wal_flush, of committed items. *)
Applied(i, k, item) == IF item = NoDoc THEN i[k] ELSE IF item = Gone THEN NoDoc ELSE item
MoveWalDocsEnd ==
    /\ cp.pc = "wal" /\ cp.off[1] >= cp.marker
    /\ nidx' = [k \in Key |-> Applied(nidx, k, nwal[k].com)]
    /\ nwal' = [k \in Key |-> [nwal[k] EXCEPT !.com = NoDoc]]
    /\ cp' = [cp EXCEPT !.pc = "upto"]
    /\ UNCHANGED <<old, flags, config, nhdr, ntxn, count>>

(* _fdb_compact_move_docs_upto_marker: the marker's header in the new file.   *)
(* The replay starts from the marker.                                         *)
CommitMarker ==
    /\ cp.pc = "upto"
    /\ nhdr' = Append(nhdr, [of |-> cp.marker, idx |-> nidx])
    /\ cp' = [cp EXCEPT !.pc = "sync", !.cur = cp.marker, !.off = Nowhere, !.orig = 0]
    /\ UNCHANGED <<old, flags, config, nidx, nwal, ntxn, count>>

-----------------------------------------------------------------------------
(* The second phase. *)

ScanFrom(c, last, end) ==
    [c EXCEPT !.pc = "delta", !.last = last, !.cur = end, !.off = <<last + 1, 1>>, !.orig = last + 1]

(* The loop of _fdb_compact_file: the newest header is the end of the next    *)
(* scan; without a new one the writers' lock is needed.                       *)
DeltaSyncFromNewest ==
    /\ cp.pc = "sync"
    /\ cp' = [cp EXCEPT !.pc = "lock", !.last = LastHdr, !.cur = LastHdr]
    /\ UNCHANGED <<old, flags, config, new, count>>
DeltaSync ==
    /\ cp.pc = "sync"
    /\ cp' = IF LastHdr = cp.cur THEN [cp EXCEPT !.pc = "lock", !.last = cp.cur]
             ELSE ScanFrom(cp, cp.cur, LastHdr)
    /\ UNCHANGED <<old, flags, config, new, count>>

(* With the lock: the blocks behind the header, whatever they hold. *)
DeltaLockShort ==
    /\ cp.pc = "lock"
    /\ cp' = IF cp.cur < Len(blk) - 1
             THEN [ScanFrom(cp, cp.last, Len(blk) - 1) EXCEPT !.escape = TRUE, !.lock = TRUE]
             ELSE [cp EXCEPT !.pc = "finish", !.lock = TRUE]
    /\ UNCHANGED <<old, flags, config, new, count>>
DeltaLock ==
    /\ cp.pc = "lock"
    /\ cp' = IF cp.cur < Len(blk)
             THEN [ScanFrom(cp, cp.last, Len(blk)) EXCEPT !.escape = TRUE, !.lock = TRUE]
             ELSE [cp EXCEPT !.pc = "finish", !.lock = TRUE]
    /\ UNCHANGED <<old, flags, config, new, count>>

Full(b) == Len(b) >= BatchSize

(* _fdb_compact_move_delta, one document: a commit mark makes it read the     *)
(* document it skipped before; then it looks whether to stop.                 *)
MoveDelta ==
    /\ cp.pc = "delta" /\ ~Full(cp.batch)
    /\ ~(AtBlockStart /\ cp.off[1] > cp.cur)
    /\ blk[cp.off[1]].type = "doc"
    /\ IF BlockEnd(cp.off) THEN cp' = NextBlock(cp) /\ UNCHANGED new
       ELSE IF MustAbort THEN Discarded
       ELSE /\ cp' = [cp EXCEPT !.off = After(cp.off),
                                !.batch = IF At(cp.off).type = "txn" THEN @ ELSE Append(@, Target(cp.off))]
            /\ UNCHANGED new
    /\ UNCHANGED <<old, flags, config, count>>

(* A header: fdb_compact_upto repeats it in the new file, after the documents *)
(* read so far.                                                               *)
MoveDeltaHeaderFirst ==
    /\ cp.pc = "delta" /\ AtBlockStart /\ cp.off[1] <= cp.cur
    /\ blk[cp.off[1]].type = "hdr"
    /\ ~Full(cp.batch)
    /\ nhdr' = IF cp.marker = 0 THEN nhdr ELSE Append(nhdr, [of |-> cp.off[1], idx |-> nidx])
    /\ cp' = NextBlock(cp)
    /\ UNCHANGED <<old, flags, config, nidx, nwal, ntxn, count>>
MoveDeltaHeader ==
    /\ cp.pc = "delta" /\ AtBlockStart /\ cp.off[1] <= cp.cur
    /\ blk[cp.off[1]].type = "hdr"
    /\ cp.marker # 0 => cp.batch = <<>>
    /\ ~Full(cp.batch)
    /\ nhdr' = IF cp.marker = 0 THEN nhdr ELSE Append(nhdr, [of |-> cp.off[1], idx |-> nidx])
    /\ cp' = NextBlock(cp)
    /\ UNCHANGED <<old, flags, config, nidx, nwal, ntxn, count>>

(* _fdb_append_batched_delta is due: the batch is full, or a header or the    *)
(* end of the scan is reached with documents in it.                           *)
FlushDue ==
    /\ cp.batch # <<>>
    /\ \/ Full(cp.batch)
       \/ AtBlockStart /\ cp.off[1] > cp.cur
       \/ AtBlockStart /\ cp.off[1] <= cp.cur /\ blk[cp.off[1]].type = "hdr" /\ cp.marker # 0

(* The items go to the new WAL (a later one of the same key replaces the      *)
(* earlier), are committed and flushed.  A dropped document's key is taken    *)
(* out of the index.                                                          *)
BatchApplied(batch, drop) ==
    [k \in Key |->
        LET mine == {i \in 1..Len(batch) : At(batch[i]).key = k}
            last == CHOOSE i \in mine : \A j \in mine : j <= i
        IN  IF mine = {} THEN Applied(nidx, k, nwal[k].unc)
            ELSE IF last \in drop THEN NoDoc ELSE DocAt(batch[last])]

AppendBatchedDelta ==
    /\ cp.pc \in {"delta", "callback"} /\ FlushDue
    /\ cp.pc = "delta" => ~(config.move_cb /\ cp.escape)
    /\ \E drop \in IF config.move_cb THEN {{}} ELSE Drops({i \in 1..Len(cp.batch) : At(cp.batch[i]).del}) :
          nidx' = BatchApplied(cp.batch, drop)
    /\ nwal' = NewWal
    /\ cp' = [cp EXCEPT !.pc = "delta", !.lock = cp.escape, !.batch = <<>>]
    /\ UNCHANGED <<old, flags, config, nhdr, ntxn, count>>

(* The callback for a document is called without the writers' lock. *)
DeltaCallback ==
    /\ cp.pc = "delta" /\ FlushDue
    /\ config.move_cb /\ cp.escape
    /\ cp' = [cp EXCEPT !.pc = "callback", !.lock = FALSE]
    /\ UNCHANGED <<old, flags, config, new, count>>

MoveDeltaEnd ==
    /\ cp.pc = "delta" /\ AtBlockStart /\ cp.off[1] > cp.cur
    /\ cp.batch = <<>>
    /\ cp' = [cp EXCEPT !.pc = IF cp.escape THEN "finish" ELSE "sync", !.off = Nowhere, !.orig = 0]
    /\ UNCHANGED <<old, flags, config, new, count>>

(* wal_txn_migration: the documents of open transactions. *)
Migrated(items) ==
    [k \in Key |-> LET mine == {i \in 1..Len(items) : At(items[i]).key = k}
                   IN  IF mine = {} THEN NoDoc ELSE DocAt(items[CHOOSE i \in mine : TRUE])]

(* The end of _fdb_compact_file and _fdb_commit_and_remove_pending: the old   *)
(* WAL is committed and flushed, open transactions move, the old file gets    *)
(* its last header and the new one its first as the current file.             *)
CompactEnd ==
    /\ cp.pc = "finish"
    /\ LET w == GlobalCommitted(wal)
       IN  /\ idx' = Flushed(w, idx) /\ wal' = Emptied(w)
           /\ blk' = Append(blk, Header(idx', lwf, seq, wal'))
    /\ ntxn' = [w \in Writer |-> Migrated(txn[w].items)]
    /\ nidx' = [k \in Key |-> Applied(nidx, k, nwal[k].unc)]
    /\ nwal' = NewWal
    /\ cp' = [IdleCp EXCEPT !.pc = "done"]
    /\ UNCHANGED <<cur, seq, clean, lwf, gprev, txn, flags, config, nhdr, count>>

-----------------------------------------------------------------------------
CoInit ==
    /\ idx = [k \in Key |-> Nowhere]
    /\ wal = [k \in Key |-> [com |-> Nowhere, unc |-> Nowhere]]
    /\ blk = <<Header(idx, 1, 0, wal)>>
    /\ cur = [w \in Writer |-> 0] /\ seq = 0
    /\ clean = TRUE /\ lwf = 1 /\ gprev = 1
    /\ txn = [w \in Writer |-> NoTxn]
    /\ flags = [rollback |-> FALSE, cancel |-> FALSE]
    /\ config \in Configs
    /\ cp = IdleCp
    /\ nidx = NewFile /\ nwal = NewWal /\ nhdr = <<>>
    /\ ntxn = [w \in Writer |-> NewFile]
    /\ count = [doc |-> 0, hdr |-> 0, compact |-> 0, rollback |-> 0]

CompactorStep ==
    \/ MoveDocsBegin \/ MoveDocs \/ MoveWalDocs \/ MoveWalDocsEnd \/ CommitMarker
    \/ DeltaSync \/ DeltaLock \/ MoveDelta \/ MoveDeltaHeader
    \/ AppendBatchedDelta \/ DeltaCallback \/ MoveDeltaEnd \/ CompactEnd

CoNext ==
    \/ \E w \in Writer, d \in BOOLEAN : \E k \in KeysOf[w] : fdb_set(w, k, d)
    \/ \E w \in Writer : fdb_begin_transaction(w) \/ fdb_abort_transaction(w)
    \/ \E w \in Writer, f \in BOOLEAN : fdb_end_transaction(w, f)
    \/ \E f \in BOOLEAN : fdb_commit(f)
    \/ RollbackBegin \/ \E h \in Headers : RollbackEnd(h)
    \/ CancelBegin \/ CancelEnd
    \/ \E m \in Headers \cup {0} : CompactBegin(m)
    \/ CompactorStep

CoSpec == CoInit /\ [][CoNext]_covars
CoFairSpec == CoSpec /\ WF_covars(CompactorStep)

-----------------------------------------------------------------------------
(* Type correctness, with the bounds on places in the file: an index, a WAL   *)
(* item, a transaction's item and a commit mark refer to a document of the    *)
(* right key that is in the file.                                             *)
Places(k) == {l \in (1..Len(blk)) \X (1..BlockCap) :
                 l[2] <= Len(blk[l[1]].docs) /\ At(l).key = k /\ At(l).type # "mark"} \cup {Nowhere}
CoTypeOK ==
    /\ \A k \in Key : {idx[k], wal[k].com, wal[k].unc} \subseteq Places(k)
    /\ \A w \in Writer : \A i \in 1..Len(txn[w].items) :
          LET l == txn[w].items[i] IN l # Nowhere /\ l \in Places(At(l).key) /\ At(l).type = "txn"
    /\ \A b \in 1..Len(blk) : \A i \in 1..Len(blk[b].docs) :
          At(<<b, i>>).type = "mark" => At(At(<<b, i>>).ref).type = "txn"
    /\ cp.pc \in {"idle", "open", "move", "wal", "upto", "sync", "lock", "delta", "callback",
                  "finish", "done"}
    /\ cp.lock \in BOOLEAN /\ cp.cur \in 0..Len(blk) /\ lwf \in 0..Len(blk)
    /\ cp.pc = "delta" => cp.off[1] \in 1..(cp.cur + 1)

(* What the new file holds for a key, its WAL included. *)
NewDoc(k) == Applied(nidx, k, nwal[k].unc)

(* When the old file is replaced, the new one has every document that a       *)
(* reader of the old one would see, in its last version, whether it was there *)
(* before the compaction, committed during it or still uncommitted; and every *)
(* open transaction finds its own updates (_fdb_compact_file).                *)
SwitchExact ==
    cp.pc = "done" =>
        \A k \in Key :
           /\ Visible(nidx[k]) = Visible(DocAt(ViewOf(wal, idx)[k]))
           /\ \A w \in Writer : \A i \in 1..Len(txn[w].items) :
                 At(txn[w].items[i]).key = k => ntxn[w][k] = DocAt(txn[w].items[i])

(* "All *committed* delta documents are synchronized" (forestdb.cc): when the *)
(* loop finds no header newer than the last one it scanned, the new file has  *)
(* what the old one had at that header.                                       *)
DeltaSynchronized ==
    cp.pc = "lock" =>
        \A k \in Key : Visible(NewDoc(k)) = Visible(DocAt(blk[cp.cur].view[k]))

(* The headers that fdb_compact_upto repeats in the new file, the marker's    *)
(* among them, lead to the documents the old file had at them, so that        *)
(* snapshots taken there read the same from the new file.                     *)
UptoSnapshots ==
    \A i \in 1..Len(nhdr) : \A k \in Key :
        Visible(nhdr[i].idx[k]) = Visible(DocAt(blk[nhdr[i].of].view[k]))

(* A compaction comes to an end: the scan of the old file always moves on,    *)
(* and a cancelled or rolled back one is given up.                            *)
CompactionEnds == (cp.pc = "open") ~> (cp.pc \in {"idle", "done"})
=============================================================================
