----------------------------- MODULE BlockReuse -----------------------------
(***************************************************************************)
(* Circular block reuse of one database file: the superblock and its       *)
(* bitmap (superblock.cc), the stale-block lists and tree (staleblock.cc), *)
(* block allocation, header writes and the search for the header at open   *)
(* (filemgr.cc), and the part of _fdb_commit that ties them together.      *)
(*                                                                         *)
(* The unit is the block.  A write reaches the disk at once: block cache   *)
(* eviction may do so at any time, and nothing here depends on a later     *)
(* write.  The database is one key: its document lives in a block of its   *)
(* own, first in the WAL (uncommitted, then committed), then below the     *)
(* root node of the index.  Regions smaller than a block are the subject   *)
(* of StaleRegions.                                                        *)
(***************************************************************************)
EXTENDS Integers, FiniteSets, FiniteSetsExt

CONSTANTS NumSb,        \* sb_config.num_sb (SB_DEFAULT_NUM_SUPERBLOCKS)
          Keep,         \* num_keeping_headers
          Snaps,        \* snapshot handles
          Linked,       \* TRUE: snapshot handles are in fhandle->handles
          Reservation,  \* enable_reusable_block_reservation
          MaxBid,       \* bound: largest block of the file
          MaxRev,       \* bound: header revision numbers
          MaxExtra      \* bound: operations other than a first set and a commit

ASSUME ReuseAssumption ==
    /\ NumSb \in Nat \ {0, 1} /\ Keep \in Nat /\ MaxBid \in Nat
    /\ MaxRev \in Nat /\ MaxExtra \in Nat
    /\ Linked \in BOOLEAN /\ Reservation \in BOOLEAN

VARIABLES disk,   \* block -> content
          file,   \* struct filemgr with its superblock and stale lists
          hd,     \* the writer's handle and file->header
          pc,     \* where _fdb_commit stands, or "down"
          snap,   \* snapshot handle -> what it reads
          acked,  \* revision number of the last header fdb_commit returned for
          extra   \* operations counted against MaxExtra

vars == <<disk, file, hd, pc, snap, acked, extra>>

NF == MaxBid + 1                 \* BLK_NOT_FOUND, larger than every block
Room == 6                        \* most blocks one action may append
Blk == 0 .. MaxBid
Nothing == [k |-> "none"]
NoRsv == [st |-> "none", bmp |-> {}, size |-> 0, rev |-> 0, cur |-> NF,
          minRev |-> 0, doc |-> NF]
NoSnap == [rev |-> 0, bid |-> 0, need |-> {}]

-----------------------------------------------------------------------------
(* Allocation. *)

\* The blocks sb_alloc_block may still hand out.
FreeOf(b, cur) == {x \in b : x >= cur}

\* sb_switch_reserved_blocks: the reserved bitmap becomes the current one.
\* The current one is kept as bmp_prev, its system doc becomes stale.
sb_switch_reserved_blocks(f) ==
    IF f.rsv.st # "ready" THEN f
    ELSE [f EXCEPT !.stale = @ \cup ({f.sb.doc} \ {NF}),
                   !.sb = [@ EXCEPT !.bmp = f.rsv.bmp, !.size = f.rsv.size,
                                    !.bmpRev = f.rsv.rev, !.cur = f.rsv.cur,
                                    !.minRev = f.rsv.minRev, !.doc = f.rsv.doc,
                                    !.prev = <<f.sb.bmp, f.sb.size>>],
                   !.rsv = NoRsv]

AppendBlock(f) == [f EXCEPT !.ret = f.pos, !.pos = @ + 1]

\* sb_alloc_block hands out cur_alloc_bid and moves it to the next set bit;
\* an exhausted bitmap is replaced by the reserved one if that is ready.
NextFree(b, cur) == Min(FreeOf(b, cur) \cup {NF})
SwitchIfEmpty(f) == IF f.sb.cur = NF THEN sb_switch_reserved_blocks(f) ELSE f
TakeCur(f) == [f EXCEPT !.ret = f.sb.cur, !.sb.cur = NextFree(f.sb.bmp, @ + 1)]
sb_alloc_block(f) ==
    IF f.sb.cur = NF /\ f.rsv.st # "ready" THEN AppendBlock(f)
    ELSE SwitchIfEmpty(TakeCur(SwitchIfEmpty(f)))

\* filemgr_alloc: a reusable block, else a new one at the end of the file.
filemgr_alloc(f) == IF f.sb.bmpRev = 0 THEN AppendBlock(f) ELSE sb_alloc_block(f)

\* sb_bmp_is_writable / filemgr_is_writable: has the block been allocated
\* since the last commit?
sb_bmp_is_writable(f, b) ==
    IF f.sb.bmpRev = f.lwRev
    THEN /\ b >= f.lastCommit
         /\ b < f.sb.size => b \in f.sb.bmp /\ b < f.sb.cur
    ELSE \/ /\ b >= f.lastCommit
            /\ \/ f.sb.prev = <<>>
               \/ b \in f.sb.prev[1] \/ b \in f.sb.bmp \/ b >= f.sb.size
         \/ b \in f.sb.bmp /\ b < f.sb.cur

filemgr_is_writable(f, b) ==
    IF f.sb.bmpRev = 0 THEN b < f.pos /\ b >= f.lastCommit
    ELSE b < NumSb \/ sb_bmp_is_writable(f, b)

-----------------------------------------------------------------------------
(* The database: one document and the root of the index. *)

Put(d, b, c) == [d EXCEPT ![b] = c]
Some(b) == {b} \ {0}

\* What must be on disk for a header to be readable: index, documents, and
\* the header of the last WAL flush, where WAL recovery starts.
\* Each block is noted with the kind and revision of its content.
Need(d, h) ==
    {<<b, d[b].k, d[b].rev>> : b \in Some(h.root) \cup Some(h.idx)
                                     \cup Some(h.wal) \cup ({h.lw} \ {NF, h.nhb})}

Intact(d, need) == \A n \in need : d[n[1]].k = n[2] /\ d[n[1]].rev = n[3]

\* wal_commit: the committed version it replaces becomes stale.
WalCommit(s) ==
    IF s.hd.unc = 0 THEN s
    ELSE [s EXCEPT !.hd.wal = s.hd.unc, !.hd.unc = 0,
                   !.file.stale = @ \cup Some(s.hd.wal)]

\* wal_flush: the document moves below the index.  The root node is updated
\* in place while it is writable and copied to a new block otherwise.
PutRoot(s, f, old) ==
    [disk |-> Put(s.disk, f.ret, [k |-> "node", rev |-> s.hd.rev + 1,
                                  doc |-> s.hd.wal]),
     file |-> [f EXCEPT !.stale = @ \cup Some(s.hd.idx) \cup old],
     hd |-> [s.hd EXCEPT !.root = f.ret, !.idx = s.hd.wal, !.wal = 0]]
WalFlush(s) ==
    IF s.hd.wal = 0 THEN s
    ELSE IF s.hd.root # 0 /\ filemgr_is_writable(s.file, s.hd.root)
         THEN PutRoot(s, [s.file EXCEPT !.ret = s.hd.root], {})
         ELSE PutRoot(s, filemgr_alloc(s.file), Some(s.hd.root))

-----------------------------------------------------------------------------
(* Stale blocks. *)

\* fdb_gather_stale_blocks: everything in the stale list goes into a system
\* doc, keyed in the stale tree (on disk and in memory) by the revision
\* number of the header being committed; the doc is stale with its entry.
PutStaleDoc(s, f, entry) ==
    [disk |-> Put(s.disk, f.ret, [k |-> "stale", rev |-> s.hd.rev + 1]),
     file |-> [f EXCEPT !.stale = @ \ s.file.stale,
                        !.info = @ \cup entry \cup {<<s.hd.rev + 1, f.ret>>}],
     hd |-> [s.hd EXCEPT !.tree = @ \cup entry \cup {<<s.hd.rev + 1, f.ret>>}]]
fdb_gather_stale_blocks(s) ==
    IF s.file.stale = {} THEN s
    ELSE PutStaleDoc(s, filemgr_alloc(s.file),
                     {<<s.hd.rev + 1, b>> : b \in s.file.stale})

\* fdb_rollback_stale_blocks: entries made since the header rolled back to
\* are dropped from both trees.
fdb_rollback_stale_blocks(s) ==
    LET keep(t) == {e \in t : e[1] < s.hd.rollback}
    IN  IF s.hd.rollback = 0 THEN s
        ELSE [s EXCEPT !.file.info = keep(@), !.hd.tree = keep(@),
                       !.hd.rollback = 0]

\* filemgr_fetch_prev_header: the header before the one in block b, or NF.
PrevHeader(s, b) ==
    LET c == s.disk[b]
        p == c.prev
    IN  IF /\ b \notin {0, NF} /\ c.k = "hdr"
           /\ s.file.sb.bmpRev # 0 => c.rev > s.file.sb.minRev
           /\ p # 0 /\ s.disk[p].k = "hdr"
           /\ s.disk[p].rev < c.rev /\ s.disk[p].rev >= s.file.sb.minRev
        THEN p ELSE NF

\* The header n steps back from b, as far as the chain goes.
StepsBack(s, b, n) ==
    LET go[i \in 0 .. n] ==
          IF i = 0 THEN b
          ELSE LET q == go[i - 1]
                   p == PrevHeader(s, q)
               IN  IF p = NF THEN q ELSE p
    IN  go[n]

\* fdb_get_smallest_active_header: the oldest header a listed snapshot reads
\* (the header of this commit, not written yet, if there is none), Keep
\* headers further back, and then the header of its last WAL flush.
ActiveHeaderNoSnaps(s, sn) == [rev |-> s.hd.rev, bid |-> s.hd.nhb]
ActiveHeader(s, sn) ==
    LET here == [rev |-> s.hd.rev, bid |-> s.hd.nhb]
        seen == {[rev |-> sn[x].rev, bid |-> sn[x].bid] :
                   x \in {x \in Snaps : sn[x].rev # 0 /\ Linked}} \cup {here}
    IN  CHOOSE a \in seen : \A b \in seen : a.rev <= b.rev

\* The header not written yet is replaced by the one before it.
KeepFrom(s, a) ==
    IF a.bid = s.hd.nhb THEN [rev |-> s.hd.rev - 1, bid |-> s.hd.bid] ELSE a
KeepSteps(s, rev) == IF s.hd.rev - rev < Keep THEN Keep - (s.hd.rev - rev) ELSE 0
KeptAfter(a, from, n, back) == IF n > 0 /\ back = from THEN a.bid ELSE back
KeptHeaderNoKeeping(s, a, from) == a.bid
KeptHeader(s, a, from) ==
    IF Keep = 0 THEN a.bid
    ELSE KeptAfter(a, from.bid, KeepSteps(s, from.rev),
                   StepsBack(s, from.bid, KeepSteps(s, from.rev)))

\* The header of the last WAL flush before the header in block b.
FlushHeader(s, lw, unwritten) ==
    IF lw = NF THEN [rev |-> 0, bid |-> NF]
    ELSE [bid |-> lw, rev |-> IF unwritten \/ s.disk[lw].k # "hdr"
                              THEN s.hd.rev ELSE s.disk[lw].rev]
FlushHeaderOf(s, b) ==
    IF b = 0 THEN [rev |-> 0, bid |-> NF]
    ELSE IF b = s.hd.nhb THEN FlushHeader(s, s.hd.lw, TRUE)
    ELSE FlushHeader(s, s.disk[b].lw, FALSE)
SmallestFrom(s, a) == FlushHeaderOf(s, KeptHeader(s, a, KeepFrom(s, a)))
fdb_get_smallest_active_header(s, sn) == SmallestFrom(s, ActiveHeader(s, sn))

\* fdb_get_reusable_block: all entries up to the given header leave the two
\* trees, and their blocks can be reused.  The tree on disk is read only
\* when nothing is in memory.
Reusable(s, upto) ==
    {e \in (IF s.file.info = {} THEN s.hd.tree ELSE s.file.info) : e[1] <= upto}
DropRevsOnDiskOnly(s, revs) ==
    [s EXCEPT !.hd.tree = {e \in @ : e[1] \notin revs}]
DropRevs(s, revs) ==
    [s EXCEPT !.file.info = {e \in @ : e[1] \notin revs},
              !.hd.tree = {e \in @ : e[1] \notin revs}]
fdb_get_reusable_block(s, upto) == DropRevs(s, {e[1] : e \in Reusable(s, upto)})

-----------------------------------------------------------------------------
(* The superblock's part of a commit. *)

\* A system doc holding a bitmap.
PutBmpDoc(s, f, bmp, rev) ==
    [s EXCEPT !.file = f,
              !.disk = Put(@, f.ret, [k |-> "bmp", rev |-> rev, bmp |-> bmp])]

\* sb_reclaim_reusable_blocks: a new bitmap with the reusable blocks.
\* sb_bmp_append_doc: it is stored in a block it hands out itself.
NewBitmapStalingNoDoc(s, blocks, h) ==
    [s EXCEPT !.file.stale = @ \cup {s.file.sb.doc},
              !.file.sb = [@ EXCEPT !.bmp = blocks, !.size = s.file.pos,
                                    !.cur = IF @ = NF THEN Min(blocks) ELSE @,
                                    !.minRev = h.rev, !.bmpRev = @ + 1]]
NewBitmap(s, blocks, h) ==
    [s EXCEPT !.file.stale = @ \cup ({s.file.sb.doc} \ {NF}),
              !.file.sb = [@ EXCEPT !.bmp = blocks, !.size = s.file.pos,
                                    !.cur = IF @ = NF THEN Min(blocks) ELSE @,
                                    !.minRev = h.rev, !.bmpRev = @ + 1]]
DocIsRet(s) == [s EXCEPT !.file.sb.doc = s.file.ret]
sb_bmp_append_doc(s) ==
    DocIsRet(PutBmpDoc(s, filemgr_alloc(s.file), s.file.sb.bmp, s.file.sb.bmpRev))
ReclaimUpTo(s, h, blocks) ==
    IF h.bid = NF \/ blocks = {} THEN s
    ELSE sb_bmp_append_doc(NewBitmap(fdb_get_reusable_block(s, h.rev), blocks, h))
ReusableBlocks(s, h) == {e[2] : e \in Reusable(s, h.rev)}
Reclaim(s, h) == ReclaimUpTo(s, h, ReusableBlocks(s, h))
sb_reclaim_reusable_blocks(s, sn) ==
    Reclaim(s, fdb_get_smallest_active_header(s, sn))

\* sb_reserve_next_reusable_blocks and sb_rsv_append_doc: the reserved
\* bitmap is not available until its doc is written.
NewReserved(s, blocks, h) ==
    [s EXCEPT !.file.rsv =
        [st |-> "init", bmp |-> blocks, size |-> s.file.pos,
         rev |-> s.file.sb.bmpRev + 1, cur |-> Min(blocks),
         minRev |-> h.rev, doc |-> NF]]
RsvIsReady(s) == [s EXCEPT !.file.rsv.st = "ready", !.file.rsv.doc = s.file.ret]
sb_rsv_append_doc(s) ==
    RsvIsReady(PutBmpDoc(s, filemgr_alloc(s.file), s.file.rsv.bmp, s.file.rsv.rev))
ReserveUpTo(s, h, blocks) ==
    IF h.bid = NF \/ blocks = {} THEN s
    ELSE sb_rsv_append_doc(NewReserved(fdb_get_reusable_block(s, h.rev), blocks, h))
Reserve(s, h) == ReserveUpTo(s, h, ReusableBlocks(s, h))
sb_reserve_next_reusable_blocks(s, sn) ==
    IF s.file.rsv.st # "none" THEN s
    ELSE Reserve(s, fdb_get_smallest_active_header(s, sn))

\* sb_check_block_reusing: thresholds on file size and live ratio are left
\* open, so that NONE is always possible.
sb_check_block_reusing(s) ==
    {"NONE"} \cup
    (IF s.hd.rev <= s.file.sb.minRev + Keep THEN {}
     ELSE IF s.file.sb.bmpRev = 0 THEN {"RECLAIM"}
     ELSE IF s.file.sb.cur = NF
          THEN IF s.file.rsv.st # "none" THEN {"SWITCH"} ELSE {"RECLAIM"}
          ELSE IF Reservation THEN {"RESERVE"} ELSE {})

SbDecide(s, sn, decision) ==
    CASE decision = "RECLAIM" -> sb_reclaim_reusable_blocks(s, sn)
      [] decision = "RESERVE" -> sb_reserve_next_reusable_blocks(s, sn)
      [] decision = "SWITCH"  -> [s EXCEPT !.file = sb_switch_reserved_blocks(@)]
      [] OTHER -> s

\* sb_update_header: the superblock points to the header about to be
\* written; bmp_prev is dropped once a commit has happened in the bitmap.
sb_update_header(f, bid, rev) ==
    IF f.sb.hdrBid = bid \/ f.sb.hdrRev >= rev THEN f
    ELSE [f EXCEPT !.sb = [@ EXCEPT !.hdrBid = bid, !.hdrRev = rev,
                              !.prev = IF f.lwRev = f.sb.bmpRev THEN <<>> ELSE @]]

\* sb_write: the image of the superblock.  A bitmap is stored by the block
\* of its doc; the reserved one only when it is ready.
SbImage(f) ==
    [k |-> "sb", rev |-> f.sb.rev, bmpRev |-> f.sb.bmpRev, size |-> f.sb.size,
     cur |-> f.sb.cur, minRev |-> f.sb.minRev, hdrBid |-> f.sb.hdrBid,
     hdrRev |-> f.sb.hdrRev, doc |-> f.sb.doc,
     rsv |-> IF f.rsv.st = "ready"
             THEN [f.rsv EXCEPT !.bmp = {}, !.cur = NF] ELSE NoRsv]

\* sb_sync_circular
SbWrite(d, f) == Put(d, f.sb.rev % NumSb, SbImage(f))

-----------------------------------------------------------------------------
(* Opening the file: filemgr_open, _filemgr_load_sb, _filemgr_read_header. *)

FileEnd(d) == 1 + Max({b \in Blk : d[b] # Nothing})
SbImages(d) == {d[b] : b \in 0 .. NumSb - 1}

\* _filemgr_read_header: the block where the backward, circular scan that
\* starts at block b finds a header; NF if there is none, or if b is not in
\* the file.
ScanEnd(hdrs, end, b) ==
    LET below == {x \in hdrs : x <= b}
    IN  IF hdrs = {} \/ b >= end THEN NF
        ELSE IF below # {} THEN Max(below) ELSE Max(hdrs)

\* file->last_commit after that scan: each block that is no header moves it
\* to that block.
ScanCommit(e, end, b, before) ==
    IF e = b \/ b >= end \/ end <= NumSb THEN before
    ELSE (IF e = NF THEN b + 1 ELSE e + 1) % end

\* The loop of filemgr_open and sb_read_latest: superblocks are tried from
\* the newest, until the header found has the revision it names.  A
\* superblock with a reusable block sets file->last_commit.
Opening(d) ==
    LET end == FileEnd(d)
        hdrs == {x \in Blk : d[x].k = "hdr"}
        imgs == SbImages(d)
        start(i) == IF i.hdrBid = NF THEN end - 1 ELSE i.hdrBid
        rev(b) == IF b = NF THEN 0 ELSE d[b].rev
        ok == {i \in imgs : rev(ScanEnd(hdrs, end, start(i))) = i.hdrRev}
        best == CHOOSE i \in ok : \A j \in ok : j.rev <= i.rev
        tried == {i.rev : i \in {i \in imgs : i.rev >= best.rev}}
        lc[r \in tried] ==
          LET i == CHOOSE i \in imgs : i.rev = r
              newer == {x \in tried : x > r}
              before == IF i.cur # NF THEN i.cur
                        ELSE IF newer = {} THEN end ELSE lc[Min(newer)]
          IN  ScanCommit(ScanEnd(hdrs, end, start(i)), end, start(i), before)
    IN  IF ok = {} THEN [ok |-> FALSE]
        ELSE [ok |-> TRUE, sb |-> best, end |-> end, lastCommit |-> lc[best.rev],
              bid |-> ScanEnd(hdrs, end, start(best))]

\* sb_bmp_fetch_doc: the bitmap is read back from its doc.
FetchBmp(d, doc) == IF doc # NF /\ d[doc].k = "bmp" THEN d[doc].bmp ELSE {}

LoadFile(d, o) ==
    LET i == o.sb
        b == FetchBmp(d, i.rsv.doc)
    IN  [pos |-> o.end, lastCommit |-> o.lastCommit, lwRev |-> i.bmpRev,
         ret |-> 0, stale |-> {}, info |-> IF o.bid = NF THEN {} ELSE d[o.bid].tree,
         sb |-> [rev |-> i.rev + 1, bmp |-> FetchBmp(d, i.doc),
                 bmpRev |-> i.bmpRev, size |-> i.size, cur |-> i.cur,
                 minRev |-> i.minRev, hdrBid |-> i.hdrBid,
                 hdrRev |-> i.hdrRev, doc |-> i.doc, prev |-> <<>>],
         rsv |-> IF i.rsv.st = "ready" /\ b # {}
                 THEN [i.rsv EXCEPT !.bmp = b, !.cur = Min(b)] ELSE NoRsv]

FreshHd == [rev |-> 0, bid |-> 0, root |-> 0, idx |-> 0, wal |-> 0, unc |-> 0,
            lw |-> NF, tree |-> {}, nhb |-> 0, rollback |-> 0, pend |-> FALSE]
LoadHd(d, o) ==
    LET c == d[o.bid]
    IN  IF o.bid = NF THEN FreshHd
        ELSE [FreshHd EXCEPT !.rev = c.rev, !.bid = o.bid, !.root = c.root,
                             !.idx = c.idx, !.wal = c.wal, !.lw = c.lw,
                             !.tree = c.tree]

-----------------------------------------------------------------------------
\* sb_init: a new file starts with its superblocks.
EmptySb(n) == [rev |-> n, bmp |-> {}, bmpRev |-> 0, size |-> 0, cur |-> NF,
               minRev |-> 0, hdrBid |-> NF, hdrRev |-> 0, doc |-> NF,
               prev |-> <<>>]
EmptyFile(n) == [pos |-> NumSb, lastCommit |-> NumSb, lwRev |-> 0, ret |-> 0,
                 stale |-> {}, info |-> {}, sb |-> EmptySb(n), rsv |-> NoRsv]

Init ==
    /\ disk = [b \in Blk |-> IF b < NumSb THEN SbImage(EmptyFile(b)) ELSE Nothing]
    /\ file = EmptyFile(NumSb)
    /\ hd = FreshHd
    /\ pc = "run"
    /\ snap = [x \in Snaps |-> NoSnap]
    /\ acked = 0
    /\ extra = 0

State == [disk |-> disk, file |-> file, hd |-> hd]
Becomes(s) == disk' = s.disk /\ file' = s.file /\ hd' = s.hd
CountExtra == extra < MaxExtra /\ extra' = extra + 1
HasRoom == file.pos + Room <= MaxBid

\* fdb_set: the document is appended, the uncommitted version it replaces
\* is stale.
Set ==
    LET f == filemgr_alloc(file)
    IN  /\ pc = "run" /\ HasRoom
        /\ file' = [f EXCEPT !.stale = @ \cup Some(hd.unc)]
        /\ hd' = [hd EXCEPT !.unc = f.ret]
        /\ disk' = Put(disk, f.ret, [k |-> "doc", rev |-> hd.rev + 1])
        /\ IF hd.unc = 0 THEN UNCHANGED extra ELSE CountExtra
        /\ UNCHANGED <<pc, snap, acked>>

\* fdb_set with wal_flush_before_commit: a full WAL is flushed before the
\* commit.
SetFlush ==
    /\ pc = "run" /\ HasRoom /\ (hd.unc # 0 \/ hd.wal # 0)
    /\ Becomes([WalFlush(WalCommit(State)) EXCEPT !.hd.pend = TRUE])
    /\ CountExtra
    /\ UNCHANGED <<pc, snap, acked>>

\* _fdb_commit up to the superblock write: WAL, stale blocks, header block,
\* then the superblock's decision.
NewHeader(s, f) ==
    [s EXCEPT !.file = sb_update_header(f, f.ret, s.hd.rev + 1),
              !.hd = [@ EXCEPT !.nhb = f.ret, !.rev = @ + 1, !.pend = FALSE,
                               !.lw = IF s.hd.wal = 0 THEN f.ret ELSE @]]
Flushed(s) == fdb_gather_stale_blocks(fdb_rollback_stale_blocks(WalFlush(s)))
WithHeader(s) == NewHeader(s, filemgr_alloc(s.file))
CommitEnds(s) == Becomes(s) /\ pc' = "sb" /\ UNCHANGED <<snap, acked, extra>>
CommitDecides(s) ==
    \E decide \in sb_check_block_reusing(s) : CommitEnds(SbDecide(s, snap, decide))
CommitFlush == CommitDecides(WithHeader(Flushed(WalCommit(State))))

\* A flush is forced when an earlier flush is pending (SetFlush).
Commit ==
    /\ pc = "run" /\ HasRoom /\ hd.rev + 2 <= MaxRev
    /\ CommitFlush
CommitNoFlush ==
    /\ pc = "run" /\ HasRoom /\ hd.rev + 2 <= MaxRev
    /\ hd.unc # 0 /\ ~hd.pend
    /\ CommitEnds(WithHeader(WalCommit(State)))

\* sb_sync_circular: written before the header it names.
CommitSb ==
    /\ pc = "sb"
    /\ disk' = SbWrite(disk, file)
    /\ file' = [file EXCEPT !.sb.rev = @ + 1]
    /\ pc' = "hdr"
    /\ UNCHANGED <<hd, snap, acked, extra>>

\* filemgr_commit_bid: header block, stale previous header, last_commit and
\* last_writable_bmp_revnum.
HeaderOf(d, h) == [k |-> "hdr", rev |-> h.rev, root |-> h.root, idx |-> h.idx,
                wal |-> h.wal, lw |-> h.lw, tree |-> h.tree, prev |-> h.bid,
                need |-> Need(d, h)]
LastCommit(f) ==
    IF f.sb.bmpRev # 0 /\ f.sb.cur # NF
    THEN [f EXCEPT !.lastCommit = f.sb.cur, !.lwRev = f.sb.bmpRev]
    ELSE [f EXCEPT !.lastCommit = f.pos]
filemgr_commit_bid(s) ==
    [disk |-> Put(s.disk, s.hd.nhb, HeaderOf(s.disk, s.hd)),
     hd   |-> [s.hd EXCEPT !.bid = s.hd.nhb],
     file |-> LastCommit([s.file EXCEPT !.stale = @ \cup Some(s.hd.bid)])]

\* The in-memory header revision is increased once more after the commit.
CommitHdr ==
    LET s == filemgr_commit_bid(State)
    IN  /\ pc = "hdr"
        /\ Becomes([s EXCEPT !.hd.rev = @ + 1])
        /\ acked' = hd.rev
        /\ pc' = "run"
        /\ UNCHANGED <<snap, extra>>

\* _fdb_kvs_create commits a header of its own, without the superblock.
KvsCreate ==
    LET f == filemgr_alloc(file)
    IN  /\ pc = "run" /\ HasRoom /\ hd.rev + 1 <= MaxRev /\ hd.bid # 0
        /\ Becomes(filemgr_commit_bid(
              [disk |-> disk, file |-> f,
               hd |-> [hd EXCEPT !.nhb = f.ret, !.rev = @ + 1]]))
        /\ CountExtra
        /\ UNCHANGED <<pc, snap, acked>>

\* Headers reachable from the last one, newest first.
HeadersBack == {StepsBack(State, hd.bid, n) : n \in 0 .. MaxRev \div 2} \ {0}

\* fdb_snapshot_open on a committed header that has not been reclaimed.
SnapOpen(x) ==
    /\ pc # "down" /\ snap[x] = NoSnap /\ hd.bid # 0
    /\ \E b \in HeadersBack :
         /\ disk[b].k = "hdr" /\ disk[b].rev >= file.sb.minRev
         /\ snap' = [snap EXCEPT ![x] = [rev |-> disk[b].rev, bid |-> b,
                                         need |-> disk[b].need]]
    /\ CountExtra
    /\ UNCHANGED <<disk, file, hd, pc, acked>>

SnapClose(x) ==
    /\ snap[x] # NoSnap
    /\ snap' = [snap EXCEPT ![x] = NoSnap]
    /\ UNCHANGED <<disk, file, hd, pc, acked, extra>>

\* fdb_rollback: the handle is opened at an older header, the WAL is
\* discarded and restored from that header, and a commit with a WAL flush
\* follows.  The stale list stays as it is.
Rollback ==
    /\ pc = "run" /\ HasRoom /\ hd.rev + 2 <= MaxRev /\ hd.bid # 0
    /\ \E b \in HeadersBack \ {hd.bid} :
         LET c == disk[b]
         IN  /\ c.k = "hdr" /\ c.rev >= file.sb.minRev
             /\ hd' = [hd EXCEPT !.root = c.root, !.idx = c.idx, !.wal = c.wal,
                                 !.unc = 0, !.lw = c.lw, !.tree = c.tree,
                                 !.rollback = c.rev]
             /\ file' = [file EXCEPT !.stale = @ \cup Some(hd.unc)]
             /\ pc' = "rollback"
    /\ CountExtra
    /\ UNCHANGED <<disk, snap, acked>>
RollbackCommit == pc = "rollback" /\ CommitFlush

\* A crash loses everything that is in memory.
Crash ==
    /\ pc # "down"
    /\ pc' = "down"
    /\ snap' = [x \in Snaps |-> NoSnap]
    /\ CountExtra
    /\ UNCHANGED <<disk, file, hd, acked>>

\* _fdb_close_root: a header the superblock does not name yet is recorded.
Close ==
    LET f == sb_update_header(file, hd.bid, hd.rev)
    IN  /\ pc = "run"
        /\ disk' = IF f = file THEN disk ELSE SbWrite(disk, f)
        /\ pc' = "down"
        /\ snap' = [x \in Snaps |-> NoSnap]
        /\ CountExtra
        /\ UNCHANGED <<file, hd, acked>>

Open ==
    LET o == Opening(disk)
    IN  /\ pc = "down" /\ o.ok
        /\ file' = LoadFile(disk, o)
        /\ hd' = LoadHd(disk, o)
        /\ pc' = "run"
        /\ UNCHANGED <<disk, snap, acked, extra>>

Next ==
    \/ Set \/ SetFlush \/ Commit \/ CommitNoFlush \/ CommitSb \/ CommitHdr
    \/ KvsCreate \/ Rollback \/ RollbackCommit \/ Crash \/ Close \/ Open
    \/ \E x \in Snaps : SnapOpen(x) \/ SnapClose(x)

Spec == Init /\ [][Next]_vars

-----------------------------------------------------------------------------
(* Properties. *)

TypeOK ==
    /\ DOMAIN disk = Blk
    /\ file.pos \in NumSb .. NF /\ file.sb.bmp \subseteq Blk
    /\ file.sb.cur \in 0 .. NF /\ file.stale \subseteq Blk
    /\ hd.rev \in 0 .. MaxRev /\ hd.root \in Blk /\ hd.unc \in Blk
    /\ pc \in {"run", "rollback", "sb", "hdr", "down"}
    /\ acked \in 0 .. MaxRev /\ extra \in 0 .. MaxExtra

\* Wherever a crash happens, opening the file finds a superblock whose header
\* is the last one fdb_commit returned for or the one being written; all
\* that this header needs is as it was written, its bitmap can be read back,
\* and no block it needs is handed out by that bitmap.
RecoverExact ==
    LET o == Opening(disk)
    IN  /\ o.ok
        /\ o.sb.hdrRev >= acked
        /\ o.bid # NF =>
             LET h == disk[o.bid]
                 i == o.sb
             IN  /\ Intact(disk, h.need)
                 /\ i.doc # NF => disk[i.doc].k = "bmp" /\ disk[i.doc].rev = i.bmpRev
                 /\ FreeOf(FetchBmp(disk, i.doc), i.cur)
                      \cap {n[1] : n \in h.need} = {}

\* What an open snapshot reads is never overwritten.
SnapshotIntact == \A x \in Snaps : Intact(disk, snap[x].need)

\* A block that the last committed header needs is never taken for one
\* allocated since, so a node in it is never updated in place.
CommittedNotWritable ==
    pc = "run" /\ hd.bid # 0 =>
      \A n \in disk[hd.bid].need : ~filemgr_is_writable(file, n[1])

\* A block is not both in use and stale, and what is free is neither.
InUse == (Some(hd.root) \cup Some(hd.idx) \cup Some(hd.wal) \cup Some(hd.unc)
          \cup Some(hd.bid) \cup {file.sb.doc, file.rsv.doc}) \ {NF}
IsStale == file.stale \cup {e[2] : e \in file.info}
IsFree == FreeOf(file.sb.bmp, file.sb.cur) \cup file.rsv.bmp
NoDoubleUse ==
    pc = "run" =>
      InUse \cap IsStale = {} /\ InUse \cap IsFree = {} /\ IsStale \cap IsFree = {}
=============================================================================
