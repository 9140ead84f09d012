---------------------------- MODULE BlockCache ----------------------------
(***************************************************************************)
(* The block cache (blockcache.cc) below one file: filemgr_read and        *)
(* filemgr_write_offset go through it, a commit flushes it, a flusher      *)
(* thread writes its immutable blocks early (filemgr_flush_immutable: in   *)
(* this revision fdb_init does not start the background flusher, and only  *)
(* tests/unit/bcache_test.cc runs such a thread), and any thread that      *)
(* needs a free item evicts from it, flushing if it must.                  *)
(*                                                                         *)
(* A step is what runs under one shard lock.  The shard lock is released   *)
(* while an immutable block is written.  A block's content is a pair of    *)
(* versions, one for each half, so that a partial write is a               *)
(* read-modify-write.  One writer: filemgr's mutex is held by it.          *)
(***************************************************************************)
EXTENDS FiniteSetsExt, Sequences, Integers

CONSTANTS Blocks,      \* bids of the file, a range 1 .. n
          Index,       \* those that hold b-tree nodes (BLK_MARKER_BNODE)
          NumShards,   \* num_bcache_shards
          Slots,       \* ncacheblock
          FlushUnit,   \* bcache_flush_unit, in blocks
          Readahead,   \* num_blocks_readahead; 1: none
          NoDocCache,  \* do_not_cache_doc_blocks
          WriteFaults, \* bound: failing writes to the file
          MaxVer,      \* bound: writes to half a block
          Readers, Flushers, Others   \* threads, Others of another file

W == "writer"          \* the thread that holds filemgr's mutex

ASSUME CacheAssumption ==
    /\ IsFiniteSet(Blocks) /\ Blocks = 1 .. Cardinality(Blocks) /\ Index \subseteq Blocks
    /\ {NumShards, Slots, FlushUnit, Readahead, MaxVer} \subseteq Nat \ {0}
    /\ NoDocCache \in BOOLEAN /\ WriteFaults \in Nat
    /\ W \notin Readers \cup Flushers \cup Others

VARIABLES item,        \* block -> its bcache_item, Free if it has none
          bdisk,       \* block -> its content in the file
          bsync,       \* block -> its content at the last fsync
          nimmutable,  \* fname->nimmutable
          others,      \* items the blocks of other files occupy
          io_in_prog,  \* filemgr's flag
          fixed,       \* blocks of committed headers: no longer writable
          want,        \* block -> what was last written to it
          fname,       \* the file's fnamedic_item
          th,          \* thread -> where it is
          failed,      \* blocks whose write failed
          nfail        \* failing writes so far

cvars == <<item, bdisk, bsync, nimmutable, others, io_in_prog, fixed, want,
           fname, th, failed, nfail>>

Threads == {W} \cup Readers \cup Flushers \cup Others
Content == [1 .. 2 -> 0 .. MaxVer]
Zero == [p \in 1 .. 2 |-> 0]
Free == [on |-> FALSE, dirty |-> FALSE, imm |-> FALSE, tree |-> FALSE, val |-> Zero]
Clean(v) == [Free EXCEPT !.on = TRUE, !.val = v]
\* The file's size in blocks: nothing was written beyond it.
Size == Max({0} \cup {b \in Blocks : bdisk[b] # Zero})

\* A thread between calls.
NoFlush == [then |-> "idle", all |-> FALSE, imm |-> FALSE, sync |-> TRUE, db |-> {},
            idx |-> FALSE, prev |-> 0, count |-> 0, cur |-> 0]
NoRead == [b \in Blocks |-> Zero]
Idle == [pc |-> "idle", bid |-> 0, part |-> {}, fin |-> FALSE, buf |-> NoRead,
         locks |-> {}, todo |-> {}, ret |-> "idle", ref |-> FALSE, fl |-> NoFlush]
Go(t, pc) == th' = [th EXCEPT ![t].pc = pc]
Return(t) == th' = [th EXCEPT ![t] = Idle]

Shard(b) == b % NumShards
Dirty(s, idx) == {b \in Blocks : Shard(b) = s /\ item[b].tree /\ (b \in Index) = idx}
CleanList == {b \in Blocks : item[b].on /\ ~ item[b].dirty}
FreeCount == Slots - others - Cardinality({b \in Blocks : item[b].on})

-----------------------------------------------------------------------------
(* Writing dirty blocks back: _flush_dirty_blocks. *)

\* The call: the thread continues at `then' once it has returned.
StartFlush(x, then, all, imm, sync) ==
    [x EXCEPT !.pc = "load",
              !.fl = [NoFlush EXCEPT !.then = then, !.all = all, !.imm = imm, !.sync = sync]]
EndFlush(x) == [x EXCEPT !.pc = x.fl.then, !.fl = NoFlush]
\* A write failed: the commit gives up, an eviction returns no item.
FailFlush(x) ==
    [x EXCEPT !.pc = CASE x.fl.then = "header" -> "error"
                       [] x.fl.then = "evict" -> x.ret
                       [] OTHER -> x.fl.then,
              !.ref = FALSE, !.fl = NoFlush]

First(b, idx) == b = Min(Dirty(Shard(b), idx) \cup {Max(Blocks) + 1})
Loadable(f, b) == f.imm => item[b].imm

\* The first dirty block of each shard, of the data tree and then of the
\* index tree.
FirstOfShards(f) == {b \in Blocks : First(b, f.idx) /\ Loadable(f, b)}
NoMoreAfterData(f) == f.idx \/ f.count > 0
NoMore(f) == f.idx \/ (f.count > 0 /\ ~ f.all)
FlushLoad(t) ==
    LET f == th[t].fl
    IN  /\ th[t].pc = "load"
        /\ th' = [th EXCEPT ![t] =
              IF FirstOfShards(f) # {}
              THEN [@ EXCEPT !.pc = "take", !.fl.db = FirstOfShards(f)]
              ELSE IF NoMore(f)
              THEN EndFlush(@)
              ELSE [@ EXCEPT !.fl.idx = TRUE]]
        /\ UNCHANGED <<item, bdisk, bsync, nimmutable, others, io_in_prog, fixed,
                       want, fname, failed, nfail>>

\* After a block: the next one of the cross-shard list, or the batch ends.
Resume(x) == [x EXCEPT !.pc = IF x.fl.db = {} THEN "load" ELSE "take"]
EndOrResume(x) ==
    IF x.fl.count >= FlushUnit /\ x.fl.sync /\ ~ x.fl.all THEN EndFlush(x) ELSE Resume(x)
Written(x, b) == EndOrResume([x EXCEPT !.fl.prev = b, !.fl.count = @ + 1])

\* The block's item once it is clean.
AfterWriteStillImmutable(b) ==
    IF NoDocCache /\ b \notin Index THEN Free ELSE [Clean(item[b].val) EXCEPT !.imm = TRUE]
AfterWrite(b) == IF NoDocCache /\ b \notin Index THEN Free ELSE Clean(item[b].val)

\* The block leaves the cross-shard list; the next dirty block of its shard
\* joins it.
Followers(f, b) ==
    LET rest == {c \in Dirty(Shard(b), f.idx) : c > b}
    IN  IF rest = {} THEN {} ELSE {c \in {Min(rest)} : Loadable(f, c)}
Taken(x, b) == [x EXCEPT !.fl.db = (@ \ {b}) \cup Followers(x.fl, b)]

\* The block is no longer the first one of its shard: it is left out.
TakeGone(t, x, b) ==
    /\ ~ First(b, x.fl.idx)
    /\ th' = [th EXCEPT ![t] = IF x.fl.imm /\ nimmutable = 0 THEN EndFlush(x)
                               ELSE Resume([x EXCEPT !.fl.db = @ \ {b}])]
    /\ UNCHANGED <<item, bdisk, nimmutable, failed, nfail>>

\* Not consecutive, and not all blocks are asked for: the batch ends.
Apart(f, b) == f.sync /\ f.prev # 0 /\ b # f.prev + 1 /\ ~ f.all
TakeApart(t, x, b) ==
    /\ First(b, x.fl.idx) /\ Apart(x.fl, b)
    /\ th' = [th EXCEPT ![t] = EndFlush(x)]
    /\ UNCHANGED <<item, bdisk, nimmutable, failed, nfail>>

\* An immutable block leaves the tree and the lock is released.
TakeImmutable(t, x, b) ==
    /\ First(b, x.fl.idx) /\ ~ Apart(x.fl, b) /\ item[b].imm
    /\ item' = [item EXCEPT ![b].tree = FALSE]
    /\ nimmutable' = nimmutable - 1
    /\ th' = [th EXCEPT ![t] = [Taken(x, b) EXCEPT !.fl.cur = b, !.pc = "write"]]
    /\ UNCHANGED <<bdisk, failed, nfail>>

\* Any other block is written under the lock.
TakeMutable(t, x, b) ==
    /\ First(b, x.fl.idx) /\ ~ Apart(x.fl, b) /\ ~ item[b].imm
    /\ item' = [item EXCEPT ![b] = AfterWrite(b)]
    /\ bdisk' = IF x.fl.sync THEN [bdisk EXCEPT ![b] = item[b].val] ELSE bdisk
    /\ th' = [th EXCEPT ![t] = Written(Taken(x, b), b)]
    /\ UNCHANGED <<nimmutable, failed, nfail>>

\* The write fails: the block is in no tree any more and its item stays dirty.
TakeFails(t, x, b) ==
    /\ First(b, x.fl.idx) /\ ~ Apart(x.fl, b) /\ ~ item[b].imm
    /\ x.fl.sync /\ nfail < WriteFaults
    /\ item' = [item EXCEPT ![b].tree = FALSE]
    /\ failed' = failed \cup {b} /\ nfail' = nfail + 1
    /\ th' = [th EXCEPT ![t] = FailFlush(x)]
    /\ UNCHANGED <<bdisk, nimmutable>>

FlushTake(t) ==
    /\ th[t].pc = "take"
    /\ LET b == Min(th[t].fl.db)
       IN  \/ TakeGone(t, th[t], b)
           \/ TakeApart(t, th[t], b)
           \/ TakeImmutable(t, th[t], b)
           \/ TakeMutable(t, th[t], b)
           \/ TakeFails(t, th[t], b)
    /\ UNCHANGED <<bsync, others, io_in_prog, fixed, want, fname>>

\* The write of an immutable block, with no lock held.
FlushWrite(t) ==
    LET b == th[t].fl.cur
    IN  /\ th[t].pc = "write"
        /\ \/ /\ bdisk' = IF th[t].fl.sync THEN [bdisk EXCEPT ![b] = item[b].val] ELSE bdisk
              /\ Go(t, "clean")
              /\ UNCHANGED <<failed, nfail>>
           \/ /\ th[t].fl.sync /\ nfail < WriteFaults
              /\ failed' = failed \cup {b} /\ nfail' = nfail + 1
              /\ th' = [th EXCEPT ![t] = FailFlush(@)]
              /\ UNCHANGED bdisk
        /\ UNCHANGED <<item, bsync, nimmutable, others, io_in_prog, fixed, want, fname>>

\* The lock is taken again: DIRTY and IMMUTABLE are cleared.
FlushClean(t) ==
    LET b == th[t].fl.cur
    IN  /\ th[t].pc = "clean"
        /\ item' = [item EXCEPT ![b] = AfterWrite(b)]
        /\ th' = [th EXCEPT ![t] = Written([@ EXCEPT !.fl.cur = 0], b)]
        /\ UNCHANGED <<bdisk, bsync, nimmutable, others, io_in_prog, fixed, want,
                       fname, failed, nfail>>

-----------------------------------------------------------------------------
(* Getting a free item: _bcache_evict. *)

\* _bcache_get_victim selects this file, ...
SelectVictim(t) ==
    /\ th[t].pc = "victim"
    /\ fname = "live" /\ (\E b \in Blocks : item[b].on)
    /\ th' = [th EXCEPT ![t].pc = "evict", ![t].ref = TRUE]
    /\ UNCHANGED <<item, bdisk, bsync, nimmutable, others, io_in_prog, fixed, want,
                   fname, failed, nfail>>
\* ... or another one: one of its items becomes free.
OtherVictim(t) ==
    /\ th[t].pc = "victim" /\ others > 0
    /\ others' = others - 1
    /\ Go(t, th[t].ret)
    /\ UNCHANGED <<item, bdisk, bsync, nimmutable, io_in_prog, fixed, want, fname,
                   failed, nfail>>

\* A clean block is dropped from any shard; ...
EvictClean(t) ==
    /\ th[t].pc = "evict"
    /\ \E b \in CleanList : item' = [item EXCEPT ![b] = Free]
    /\ th' = [th EXCEPT ![t] = [@ EXCEPT !.pc = th[t].ret, !.ref = FALSE]]
    /\ UNCHANGED <<bdisk, bsync, nimmutable, others, io_in_prog, fixed, want, fname,
                   failed, nfail>>
\* ... a shard without one makes the evictor flush a batch; ...
EvictFlush(t) ==
    /\ th[t].pc = "evict"
    /\ \E b \in Blocks : item[b].tree /\ ~ \E c \in CleanList : Shard(c) = Shard(b)
    /\ th' = [th EXCEPT ![t] = StartFlush(@, "evict", FALSE, FALSE, TRUE)]
    /\ UNCHANGED <<item, bdisk, bsync, nimmutable, others, io_in_prog, fixed, want,
                   fname, failed, nfail>>
\* ... and when every shard was empty, flushed or gave its block a second
\* chance there is none: the caller tries again.
EvictNothing(t) ==
    /\ th[t].pc = "evict"
    /\ th' = [th EXCEPT ![t] = [@ EXCEPT !.pc = th[t].ret, !.ref = FALSE]]
    /\ UNCHANGED <<item, bdisk, bsync, nimmutable, others, io_in_prog, fixed, want,
                   fname, failed, nfail>>

-----------------------------------------------------------------------------
(* Writing: filemgr_write_offset, under the block's lock. *)

ReadLockedNever(b) == FALSE
ReadLocked(b) == \E t \in Readers : b \in th[t].locks
Bump(b, S) == [p \in 1 .. 2 |-> IF p \in S THEN want[b][p] + 1 ELSE want[b][p]]
Writable(b) == fname = "live" /\ b \notin fixed

\* What the layers above write: a document block is filled from its start, a
\* b-tree node is written as a whole and may be written again.
Part(b, S) ==
    IF b \in Index THEN S = {1, 2} /\ want[b][1] < MaxVer
    ELSE \/ S \in {{1}, {1, 2}} /\ want[b] = Zero
         \/ S = {2} /\ want[b] = <<1, 0>>

\* bcache_write_partial finds the block: a clean item becomes dirty.
PartialHit(b, S, fin) ==
    /\ item[b].on
    /\ item' = [item EXCEPT ![b] =
                  [on |-> TRUE, dirty |-> TRUE, imm |-> @.imm \/ fin,
                   tree |-> IF @.dirty THEN @.tree ELSE TRUE,
                   val |-> [p \in 1 .. 2 |-> IF p \in S THEN Bump(b, S)[p] ELSE @.val[p]]]]
    /\ nimmutable' = nimmutable + (IF fin /\ ~ item[b].imm THEN 1 ELSE 0)
    /\ want' = [want EXCEPT ![b] = Bump(b, S)]
    /\ UNCHANGED th
\* It does not: the old content is read first.
PartialMiss(b, S, fin) ==
    /\ ~ item[b].on
    /\ th' = [th EXCEPT ![W] = [Idle EXCEPT !.pc = "wread", !.bid = b, !.locks = {b},
                                            !.part = S, !.fin = fin]]
    /\ UNCHANGED <<item, nimmutable, want>>
WholeBlock(b, fin) ==
    /\ th' = [th EXCEPT ![W] =
                [Idle EXCEPT !.pc = "wput", !.bid = b, !.locks = {b}, !.part = {1, 2},
                             !.fin = fin, !.buf[b] = Bump(b, {1, 2})]]
    /\ UNCHANGED <<item, nimmutable, want>>
filemgr_write_offset(b, S) ==
    /\ th[W].pc = "idle" /\ Writable(b) /\ Part(b, S) /\ ~ ReadLocked(b)
    /\ LET fin == b \notin Index /\ 2 \in S
       IN  IF S = {1, 2} THEN WholeBlock(b, fin)
           ELSE PartialHit(b, S, fin) \/ PartialMiss(b, S, fin)
    /\ UNCHANGED <<bdisk, bsync, others, io_in_prog, fixed, fname, failed, nfail>>

\* Beyond the end of the file nothing is read: the rest of the temporary
\* buffer is whatever it was.
WriteRead ==
    LET b == th[W].bid
        S == th[W].part
    IN  /\ th[W].pc = "wread"
        /\ \E old \in IF b > Size THEN {Zero, [p \in 1 .. 2 |-> MaxVer]} ELSE {bdisk[b]} :
             th' = [th EXCEPT ![W].pc = "wput",
                              ![W].buf[b] = [p \in 1 .. 2 |-> IF p \in S THEN Bump(b, S)[p]
                                                              ELSE old[p]]]
        /\ UNCHANGED <<item, bdisk, bsync, nimmutable, others, io_in_prog, fixed, want,
                       fname, failed, nfail>>

\* bcache_write finds no free item.
NeedItem(t) == ~ item[th[t].bid].on /\ FreeCount = 0
Evicting(t, ret) == th' = [th EXCEPT ![t].pc = "victim", ![t].ret = ret]

\* bcache_write, BCACHE_REQ_DIRTY.
DirtyItem(old, v, imm) ==
    [on |-> TRUE, dirty |-> TRUE, val |-> v,
     imm |-> IF old.dirty THEN old.imm ELSE imm,
     tree |-> IF old.dirty THEN old.tree ELSE TRUE]
WritePut ==
    LET b == th[W].bid
        x == th[W]
    IN  /\ x.pc = "wput"
        /\ \/ /\ NeedItem(W) /\ Evicting(W, "wput")
              /\ UNCHANGED <<item, nimmutable, want>>
           \/ /\ ~ NeedItem(W)
              /\ item' = [item EXCEPT ![b] = DirtyItem(@, x.buf[b], x.fin)]
              /\ nimmutable' = nimmutable + (IF x.fin /\ ~ item[b].dirty THEN 1 ELSE 0)
              /\ want' = [want EXCEPT ![b] = Bump(b, x.part)]
              /\ Return(W)
        /\ UNCHANGED <<bdisk, bsync, others, io_in_prog, fixed, fname, failed, nfail>>

\* bcache_invalidate_block, of a b-tree node nobody will look at again.
bcache_invalidate_block(b) ==
    /\ th[W].pc = "idle" /\ Writable(b) /\ b \in Index /\ item[b].on
    /\ item' = [item EXCEPT ![b] = IF @.dirty THEN [@ EXCEPT !.imm = TRUE] ELSE Free]
    /\ nimmutable' = nimmutable + (IF item[b].dirty THEN 1 ELSE 0)
    /\ fixed' = fixed \cup {b}
    /\ UNCHANGED <<bdisk, bsync, others, io_in_prog, want, fname, th, failed, nfail>>

-----------------------------------------------------------------------------
(* Reading: filemgr_read. *)

\* The first look at the cache is a miss: the block's lock is asked for.
filemgr_read(t, b) ==
    /\ th[t].pc = "idle" /\ fname = "live" /\ want[b] # Zero /\ ~ item[b].on
    /\ th' = [th EXCEPT ![t] = [Idle EXCEPT !.pc = "rlock", !.bid = b]]
    /\ UNCHANGED <<item, bdisk, bsync, nimmutable, others, io_in_prog, fixed, want,
                   fname, failed, nfail>>

\* With the lock the second look may be a hit.  If not, and the block is in
\* the file, the blocks to read ahead are locked too.
Ahead(b) == {c \in b .. b + Readahead - 1 : c = b \/ c <= Size}
ReadLock(t) ==
    LET b == th[t].bid
    IN  /\ th[t].pc = "rlock" /\ b \notin th[W].locks
        /\ \/ item[b].on /\ Return(t)
           \/ /\ ~ item[b].on /\ b <= Size /\ Ahead(b) \cap th[W].locks = {}
              /\ th' = [th EXCEPT ![t].pc = "rdisk", ![t].locks = Ahead(b)]
        /\ UNCHANGED <<item, bdisk, bsync, nimmutable, others, io_in_prog, fixed,
                       want, fname, failed, nfail>>
ReadDisk(t) ==
    /\ th[t].pc = "rdisk"
    /\ th' = [th EXCEPT ![t].pc = "fill", ![t].todo = th[t].locks,
                        ![t].buf = [b \in Blocks |-> IF b \in th[t].locks THEN bdisk[b]
                                                     ELSE Zero]]
    /\ UNCHANGED <<item, bdisk, bsync, nimmutable, others, io_in_prog, fixed, want,
                   fname, failed, nfail>>

\* bcache_write, BCACHE_REQ_CLEAN, for each block read.  Without read-ahead an
\* item that is there is overwritten, dirty or not; with it the item is kept.
CleanItem(old, v) ==
    IF ~ old.on THEN Clean(v) ELSE IF Readahead > 1 THEN old ELSE [old EXCEPT !.val = v]
Cached(b) == Readahead > 1 \/ ~ NoDocCache \/ b \in Index
\* The locks are released after the last block.
ReadNext(t, b) ==
    LET rest == th[t].todo \ {b}
    IN  th' = [th EXCEPT ![t] = IF rest = {} THEN Idle ELSE [@ EXCEPT !.todo = rest]]
ReadFill(t) ==
    LET b == Min(th[t].todo)
    IN  /\ th[t].pc = "fill"
        /\ \/ /\ Cached(b) /\ ~ item[b].on /\ FreeCount = 0
              /\ Evicting(t, "fill")
              /\ UNCHANGED item
           \/ /\ Cached(b) => item[b].on \/ FreeCount > 0
              /\ item' = IF Cached(b) THEN [item EXCEPT ![b] = CleanItem(@, th[t].buf[b])]
                         ELSE item
              /\ ReadNext(t, b)
        /\ UNCHANGED <<bdisk, bsync, nimmutable, others, io_in_prog, fixed, want,
                       fname, failed, nfail>>

-----------------------------------------------------------------------------
(* Commit, background flushing, other files, close. *)

\* filemgr_commit_bid: the whole cache is flushed, ...
CCommit ==
    /\ th[W].pc = "idle" /\ fname = "live"
    /\ \E b \in Blocks \ fixed : want[b] # Zero
    /\ io_in_prog' = TRUE
    /\ th' = [th EXCEPT ![W] = StartFlush(Idle, "header", TRUE, FALSE, TRUE)]
    /\ UNCHANGED <<item, bdisk, bsync, nimmutable, others, fixed, want, fname,
                   failed, nfail>>
\* ... the header is written, and last_commit moves, ...
CommitHeader ==
    /\ th[W].pc = "header"
    /\ fixed' = {b \in Blocks : want[b] # Zero}
    /\ Go(W, "fsync")
    /\ UNCHANGED <<item, bdisk, bsync, nimmutable, others, io_in_prog, want, fname,
                   failed, nfail>>
\* ... and the file is synchronized.
CommitSync ==
    /\ th[W].pc = "fsync"
    /\ bsync' = bdisk
    /\ io_in_prog' = FALSE
    /\ Return(W)
    /\ UNCHANGED <<item, bdisk, nimmutable, others, fixed, want, fname, failed, nfail>>
CommitError ==
    /\ th[W].pc = "error"
    /\ io_in_prog' = FALSE
    /\ Return(W)
    /\ UNCHANGED <<item, bdisk, bsync, nimmutable, others, fixed, want, fname, failed,
                   nfail>>

\* filemgr_flush_immutable, by a background flusher.
filemgr_flush_immutable(t) ==
    /\ th[t].pc = "idle" /\ fname = "live"
    /\ ~ io_in_prog /\ nimmutable > 0
    /\ th' = [th EXCEPT ![t] = StartFlush(Idle, "idle", TRUE, TRUE, TRUE)]
    /\ UNCHANGED <<item, bdisk, bsync, nimmutable, others, io_in_prog, fixed, want,
                   fname, failed, nfail>>

\* A thread that works on another file caches a block of it.
OtherFile(t) ==
    /\ th[t].pc = "idle"
    /\ \/ FreeCount > 0 /\ others' = others + 1 /\ UNCHANGED th
       \/ FreeCount = 0 /\ Evicting(t, "idle") /\ UNCHANGED others
    /\ UNCHANGED <<item, bdisk, bsync, nimmutable, io_in_prog, fixed, want, fname,
                   failed, nfail>>

\* filemgr_close by the last handle: dirty blocks are discarded, ...
filemgr_close ==
    /\ fname = "live" /\ \A t \in {W} \cup Readers \cup Flushers : th[t].pc = "idle"
    /\ fname' = "closing"
    /\ th' = [th EXCEPT ![W] = StartFlush(Idle, "drop", TRUE, FALSE, FALSE)]
    /\ UNCHANGED <<item, bdisk, bsync, nimmutable, others, io_in_prog, fixed, want,
                   failed, nfail>>
\* ... then the clean ones, shard by shard, ...
bcache_remove_clean_blocks ==
    /\ th[W].pc = "drop"
    /\ item' = [b \in Blocks |-> IF b \in CleanList THEN Free ELSE item[b]]
    /\ Go(W, "remove")
    /\ UNCHANGED <<bdisk, bsync, nimmutable, others, io_in_prog, fixed, want, fname,
                   failed, nfail>>
fname_try_free == IF \E t \in Threads : th[t].ref THEN "zombie" ELSE "freed"
CEmptyFile == CleanList = {} /\ \A b \in Blocks : ~ item[b].tree
bcache_remove_file ==
    /\ th[W].pc = "remove"
    /\ fname' = IF CEmptyFile THEN fname_try_free ELSE "kept"
    /\ Return(W)
    /\ UNCHANGED <<item, bdisk, bsync, nimmutable, others, io_in_prog, fixed, want,
                   failed, nfail>>
garbage_collect_zombie_fnames ==
    /\ fname = "zombie" /\ \A t \in Threads : ~ th[t].ref
    /\ fname' = IF CEmptyFile THEN "freed" ELSE "kept"
    /\ UNCHANGED <<item, bdisk, bsync, nimmutable, others, io_in_prog, fixed, want, th,
                   failed, nfail>>

-----------------------------------------------------------------------------
CInit ==
    /\ item = [b \in Blocks |-> Free]
    /\ bdisk = [b \in Blocks |-> Zero] /\ bsync = [b \in Blocks |-> Zero]
    /\ nimmutable = 0 /\ others = 0 /\ io_in_prog = FALSE /\ fixed = {}
    /\ want = [b \in Blocks |-> Zero] /\ fname = "live"
    /\ th = [t \in Threads |-> Idle] /\ failed = {} /\ nfail = 0

FlushStep(t) == FlushLoad(t) \/ FlushTake(t) \/ FlushWrite(t) \/ FlushClean(t)
EvictStep(t) == \/ SelectVictim(t) \/ OtherVictim(t)
                \/ EvictClean(t) \/ EvictFlush(t) \/ EvictNothing(t)
WriterStep ==
    \/ \E b \in Blocks, S \in {{1}, {2}, {1, 2}} : filemgr_write_offset(b, S)
    \/ WriteRead \/ WritePut
    \/ \E b \in Blocks : bcache_invalidate_block(b)
    \/ CCommit \/ CommitHeader \/ CommitSync \/ CommitError
    \/ filemgr_close \/ bcache_remove_clean_blocks \/ bcache_remove_file
ReaderStep(t) == \/ \E b \in Blocks : filemgr_read(t, b)
                 \/ ReadLock(t) \/ ReadDisk(t) \/ ReadFill(t)
CNext ==
    \/ \E t \in Threads : FlushStep(t) \/ EvictStep(t)
    \/ WriterStep
    \/ \E t \in Readers : ReaderStep(t)
    \/ \E t \in Flushers : filemgr_flush_immutable(t)
    \/ \E t \in Others : OtherFile(t)
    \/ garbage_collect_zombie_fnames

CSpec == CInit /\ [][CNext]_cvars

-----------------------------------------------------------------------------
(* What is checked. *)

\* The immutable blocks that wait in a dirty tree.
Waiting == {b \in Blocks : item[b].tree /\ item[b].imm}

\* Types; the items in use never exceed ncacheblock, and nimmutable counts the
\* immutable blocks that wait in a dirty tree (and, at most, those whose write
\* failed: they are in no tree, and bcache_write_partial still counts them).
CTypeOK ==
    /\ item \in [Blocks -> [on : BOOLEAN, dirty : BOOLEAN, imm : BOOLEAN,
                            tree : BOOLEAN, val : Content]]
    /\ bdisk \in [Blocks -> Content] /\ want \in [Blocks -> Content]
    /\ fixed \subseteq Blocks /\ others \in 0 .. Slots /\ FreeCount >= 0
    /\ \A b \in Blocks : item[b].tree => item[b].on /\ item[b].dirty
    /\ nimmutable - Cardinality(Waiting) \in 0 .. Cardinality(failed)

\* What half a block holds counts once it was written.
Agrees(v, b) == \A p \in 1 .. 2 : want[b][p] # 0 => v[p] = want[b][p]

\* filemgr_read never returns a block older than its last filemgr_write_offset:
\* not from an item, not from the file when there is no item, and not from what
\* a reader has read and is about to put into the cache.
ReadCurrent ==
    fname = "live" =>
        /\ \A b \in Blocks : Agrees(IF item[b].on THEN item[b].val ELSE bdisk[b], b)
        /\ \A t \in Readers : th[t].pc = "fill" => Agrees(th[t].buf[th[t].bid], th[t].bid)

\* A thread that has the block out of its tree and has yet to write it.
InFlight(t, b) == th[t].pc = "write" /\ th[t].fl.cur = b

\* When a commit writes its header every block written so far is in the file,
\* but for those another thread is just writing and those whose write failed.
CommitFlushed ==
    th[W].pc = "header" =>
        \A b \in Blocks : \/ Agrees(bdisk[b], b)
                          \/ b \in failed
                          \/ \E t \in Threads \ {W} : InFlight(t, b)


\* "flush and synchronize all dirty blocks of the FILE": once a commit has
\* returned, the blocks below its header are safe in the file.
CommitDurable ==
    th[W].pc = "idle" /\ fname = "live" =>
        \A b \in fixed : Agrees(bsync[b], b) \/ item[b].tree
=============================================================================
