------------------------------- MODULE DocIO -------------------------------
(***************************************************************************)
(* Documents in blocks (docio.cc): a writer's handle appends documents one *)
(* after the other, over as many blocks as it takes, and a reader's handle *)
(* reads them back through its one-block buffer.  Documents become stale,  *)
(* and whole blocks of stale bytes are used again.                         *)
(*                                                                         *)
(* A byte of a block is the document it belongs to, 0 if none.  Of the     *)
(* file manager only what docio.cc uses is modelled: the blocks allocated  *)
(* since the last commit are writable, reusable blocks are allocated       *)
(* before the file grows, and bmpRev changes when blocks become reusable.  *)
(***************************************************************************)
EXTENDS StaleRegions, FiniteSetsExt

CONSTANTS Handles,   \* docio handles that append
          Sizes,     \* docsize of a document
          MaxDoc,    \* bound: documents appended
          DMaxBid     \* bound: blocks of the file

ASSUME DocAssumption ==
    /\ Sizes \subseteq Nat \ {0} /\ MaxDoc \in Nat /\ DMaxBid \in Nat

VARIABLES blk,       \* block -> [next, byte]
          pos,       \* file->pos, in blocks
          free,      \* reusable blocks
          writable,  \* blocks allocated since the last commit
          bmpRev,    \* bitmap revision number
          h,         \* handle -> [cur, at]: curblock and curpos
          docs,      \* document -> [off, len, live]
          list,      \* file->stale_list
          tree,      \* file->mergetree
          leak,      \* bytes a closed handle left behind
          rd         \* the reader's handle

dvars == <<blk, pos, free, writable, bmpRev, h, docs, list, tree, leak, rd>>

DNF == DMaxBid
DBlk == 0 .. DMaxBid - 1
NoDoc == [off |-> 0, len |-> 0, live |-> FALSE]
Empty == [next |-> DNF, byte |-> [p \in 0 .. DataSize - 1 |-> 0]]
NextOf(b) == [x \in DBlk |-> b[x].next]
DNoRead == [pc |-> "idle", doc |-> 0, at |-> 0, left |-> 0, good |-> TRUE,
           last |-> DNF, rev |-> 0, buf |-> Empty]

-----------------------------------------------------------------------------
(* Appending. *)

\* filemgr_alloc: the blocks and what is left of the reusable ones.
DAlloc(f) ==
    IF f.free # {}
    THEN [f EXCEPT !.got = Append(@, Min(f.free)), !.free = @ \ {Min(f.free)}]
    ELSE [f EXCEPT !.got = Append(@, f.pos), !.pos = @ + 1]
AllocN(f, n) ==
    LET go[i \in 0 .. n] == IF i = 0 THEN f ELSE DAlloc(go[i - 1])
    IN  go[n]

File == [pos |-> pos, free |-> free, got |-> <<>>, list |-> list, cur |-> DNF,
         at |-> 0, blk |-> blk]

\* The rest of the current block is given up.
GiveUpRest(f) ==
    IF f.cur = DNF THEN f
    ELSE [f EXCEPT !.list = filemgr_mark_stale(@, NextOf(f.blk),
                                f.cur * BlockSize + f.at, DataSize - f.at)]
StartBlock(f) ==
    [f EXCEPT !.cur = f.got[1], !.at = 0, !.got = <<>>]

\* docio_append_doc_raw, first part: a block of this handle to write to.
\* A current block that is not writable any more is given up.
CurrentBlock(f) ==
    IF f.cur # DNF /\ f.cur \in writable THEN f
    ELSE StartBlock(DAlloc(GiveUpRest(f)))

\* Write n bytes of document d at the position of f, in its current block.
WriteHere(f, d, n, next) ==
    [f EXCEPT !.blk[f.cur] =
                 [next |-> next,
                  byte |-> [p \in 0 .. DataSize - 1 |->
                              IF p >= f.at /\ p < f.at + n THEN d ELSE @.byte[p]]],
              !.at = @ + n]

\* _docio_fill_zero: the place of the next document's length (one byte here)
\* is cleared, if it is in this block.
FillZeroBefore(f) ==
    IF f.at = DataSize THEN f ELSE [f EXCEPT !.blk[f.cur].byte[f.at - 1] = 0]
docio_fill_zero(f) ==
    IF f.at = DataSize THEN f ELSE [f EXCEPT !.blk[f.cur].byte[f.at] = 0]

\* The document fits.
AppendFits(f, d, size) == docio_fill_zero(WriteHere(f, d, size, DNF))

\* It does not: the loop over block_list writes the rest block by block.
WriteList(f, d, size) ==
    LET n == Len(f.got)
        go[i \in 0 .. n] ==
          IF i = 0 THEN [f |-> f, left |-> size]
          ELSE LET g == go[i - 1]
                   part == IF g.left >= DataSize THEN DataSize ELSE g.left
                   nxt == IF i < n THEN f.got[i + 1] ELSE DNF
               IN  [f |-> WriteHere([g.f EXCEPT !.cur = f.got[i], !.at = 0],
                                    d, part, nxt),
                    left |-> g.left - part]
    IN  docio_fill_zero(go[n].f)

\* Continue in the current block if the first block allocated is the next
\* one or lies before it, otherwise start in the new block; the current block
\* then has no room or is given up.
FromCurrent(f, d, size) ==
    [off |-> f.cur * BlockSize + f.at,
     f |-> WriteList(WriteHere(f, d, DataSize - f.at, f.got[1]), d,
                     size - (DataSize - f.at))]
FromNew(f, d, size) ==
    [off |-> f.got[1] * BlockSize, f |-> WriteList(GiveUpRest(f), d, size)]

\* One block more is allocated when the document starts in a new block and
\* its last part would have gone into the current one.
StartsNew(f) == f.got[1] > f.cur + 1
MoreBlocks(f, size, n) ==
    IF StartsNew(f) /\ (size % DataSize) # 0 /\ n = size \div DataSize
    THEN AllocN(f, n) ELSE AllocN(f, n - 1)
NumBlocks(f, size) ==
    (size \div DataSize) + (IF (size % DataSize) > DataSize - f.at THEN 1 ELSE 0)
WriteSpanning(f, d, size) ==
    IF f.at < DataSize /\ ~StartsNew(f) THEN FromCurrent(f, d, size)
    ELSE FromNew(f, d, size)
AppendSpans(f, d, size) ==
    WriteSpanning(MoreBlocks(DAlloc(f), size, NumBlocks(f, size)), d, size)

AppendToIgnoringMeta(f, d, size) ==
    IF size <= BlockSize - f.at
    THEN [off |-> f.cur * BlockSize + f.at, f |-> AppendFits(f, d, size)]
    ELSE AppendSpans(f, d, size)
AppendTo(f, d, size) ==
    IF size <= DataSize - f.at
    THEN [off |-> f.cur * BlockSize + f.at, f |-> AppendFits(f, d, size)]
    ELSE AppendSpans(f, d, size)

Appended(x, d, size, r) ==
    /\ docs' = [docs EXCEPT ![d] = [off |-> r.off, len |-> size, live |-> TRUE]]
    /\ blk' = r.f.blk /\ pos' = r.f.pos /\ free' = r.f.free
    /\ list' = r.f.list
    /\ h' = [h EXCEPT ![x] = [cur |-> r.f.cur, at |-> r.f.at]]
    /\ writable' = (writable \cup (pos .. r.f.pos - 1)) \cup (free \ r.f.free)
    /\ UNCHANGED <<bmpRev, tree, leak, rd>>

\* docio_append_doc: documents are numbered in the order they are appended.
NextDoc == Min({d \in 1 .. MaxDoc : docs[d] = NoDoc})
docio_append_doc(x, size) ==
    /\ docs[MaxDoc] = NoDoc
    /\ pos + (size \div DataSize) + 2 <= DMaxBid
    /\ Appended(x, NextDoc, size,
                AppendTo(CurrentBlock([File EXCEPT !.cur = h[x].cur, !.at = h[x].at]),
                         NextDoc, size))

-----------------------------------------------------------------------------
(* Stale documents, commits, reuse. *)

\* A document that is replaced, deleted or moved is marked stale.
MarkStale(d) ==
    /\ docs[d].live
    /\ list' = filemgr_mark_stale(list, NextOf(blk), docs[d].off, docs[d].len)
    /\ docs' = [docs EXCEPT ![d].live = FALSE]
    /\ UNCHANGED <<blk, pos, free, writable, bmpRev, h, tree, leak, rd>>

\* filemgr_commit: nothing allocated so far is writable any more.
DCommit ==
    /\ writable # {}
    /\ writable' = {}
    /\ UNCHANGED <<blk, pos, free, bmpRev, h, docs, list, tree, leak, rd>>

\* fdb_get_reusable_block: the stale list has been gathered, all its regions
\* are merged; whole blocks become reusable, the rest stays in the tree.
Merged == FoldLeft(insert_n_merge, tree, list)
ReclaimFrom(t) ==
    /\ SplitBlocks(t) # {}
    /\ free' = SplitBlocks(t)
    /\ tree' = SplitRest(t)
DReclaim ==
    /\ free = {} /\ writable = {}
    /\ ReclaimFrom(Merged)
    /\ list' = <<>>
    /\ bmpRev' = bmpRev + 1
    /\ UNCHANGED <<blk, pos, writable, h, docs, leak, rd>>

\* docio_free and docio_init: a handle starts again without a block.
\* (Bound: one rest of a block is lost this way.)
docio_init(x) ==
    /\ h[x].cur # DNF /\ leak = {}
    /\ leak' = leak \cup {b \in h[x].cur * BlockSize + h[x].at ..
                              h[x].cur * BlockSize + BlockSize - 1 :
                            h[x].at < DataSize}
    /\ h' = [h EXCEPT ![x] = [cur |-> DNF, at |-> 0]]
    /\ UNCHANGED <<blk, pos, free, writable, bmpRev, docs, list, tree, rd>>

-----------------------------------------------------------------------------
(* Reading. *)

\* docio_read_doc starts at the block of the document.
ReadDoc(d) ==
    /\ rd.pc = "idle" /\ docs[d].live
    /\ rd' = [rd EXCEPT !.pc = "fetch", !.doc = d, !.at = docs[d].off,
                        !.left = docs[d].len, !.good = TRUE]
    /\ UNCHANGED <<blk, pos, free, writable, bmpRev, h, docs, list, tree, leak>>

\* _docio_read_through_buffer: the buffer is kept while its block cannot
\* change: same block, same bitmap revision.
BufferedAnyRev == rd.last = rd.at \div BlockSize
Buffered == rd.last = rd.at \div BlockSize /\ rd.rev = bmpRev
ReadBlock ==
    /\ rd.pc = "fetch"
    /\ rd' = IF Buffered THEN [rd EXCEPT !.pc = "copy"]
             ELSE [rd EXCEPT !.pc = "check", !.buf = blk[rd.at \div BlockSize]]
    /\ UNCHANGED <<blk, pos, free, writable, bmpRev, h, docs, list, tree, leak>>

\* ... and is remembered when the block just read is not writable.
CheckWritable ==
    /\ rd.pc = "check"
    /\ rd' = IF rd.at \div BlockSize \in writable
             THEN [rd EXCEPT !.pc = "copy", !.last = DNF]
             ELSE [rd EXCEPT !.pc = "copy", !.last = rd.at \div BlockSize,
                             !.rev = bmpRev]
    /\ UNCHANGED <<blk, pos, free, writable, bmpRev, h, docs, list, tree, leak>>

\* _docio_read_doc_component: copy from the buffer, follow next_bid.
Piece == IF SpaceAt(rd.at) >= rd.left THEN rd.left ELSE SpaceAt(rd.at)
PieceGood == \A i \in 0 .. Piece - 1 : rd.buf.byte[InBlock(rd.at) + i] = rd.doc
CopyPiece ==
    /\ rd.pc = "copy"
    /\ rd' = IF rd.left = Piece
             THEN [rd EXCEPT !.pc = "done", !.left = 0, !.good = @ /\ PieceGood]
             ELSE IF rd.buf.next >= pos
             THEN [rd EXCEPT !.pc = "done", !.good = FALSE]
             ELSE [rd EXCEPT !.pc = "fetch", !.left = @ - Piece,
                             !.at = rd.buf.next * BlockSize, !.good = @ /\ PieceGood]
    /\ UNCHANGED <<blk, pos, free, writable, bmpRev, h, docs, list, tree, leak>>

ReadDone ==
    /\ rd.pc = "done"
    /\ rd' = [DNoRead EXCEPT !.last = rd.last,
                            !.rev = IF rd.last = DNF THEN 0 ELSE rd.rev,
                            !.buf = IF rd.last = DNF THEN Empty ELSE rd.buf]
    /\ UNCHANGED <<blk, pos, free, writable, bmpRev, h, docs, list, tree, leak>>

-----------------------------------------------------------------------------
DInit ==
    /\ blk = [b \in DBlk |-> Empty]
    /\ pos = 0 /\ free = {} /\ writable = {} /\ bmpRev = 0
    /\ h = [x \in Handles |-> [cur |-> DNF, at |-> 0]]
    /\ docs = [d \in 1 .. MaxDoc |-> NoDoc]
    /\ list = <<>> /\ tree = {} /\ leak = {}
    /\ rd = DNoRead

DWriterStep == \/ \E x \in Handles, size \in Sizes : docio_append_doc(x, size)
               \/ DCommit
DReaderStep == \/ \E d \in 1 .. MaxDoc : ReadDoc(d)
               \/ ReadBlock \/ CheckWritable \/ CopyPiece \/ ReadDone
OtherStep ==  \/ \E d \in 1 .. MaxDoc : MarkStale(d)
              \/ \E x \in Handles : docio_init(x)
              \/ DReclaim

DNext == DWriterStep \/ DReaderStep \/ OtherStep

DSpec == DInit /\ [][DNext]_dvars

-----------------------------------------------------------------------------
(* Properties. *)

DTypeOK ==
    /\ pos \in 0 .. DMaxBid /\ free \subseteq DBlk /\ writable \subseteq DBlk
    /\ \A x \in Handles : h[x].cur \in DBlk \cup {DNF} /\ h[x].at \in 0 .. DataSize
    /\ \A d \in 1 .. MaxDoc : docs[d].len \in Sizes \cup {0}
    /\ \A r \in tree : r.len > 0

DocBytes(d) ==
    UNION {BytesOf(r) : r \in ToSet(filemgr_actual_stale_regions(
                                       NextOf(blk), docs[d].off, docs[d].len))}
RestBytes(x) ==
    IF h[x].cur = DNF \/ h[x].at = DataSize THEN {}
    ELSE h[x].cur * BlockSize + h[x].at .. (h[x].cur + 1) * BlockSize - 1
StaleBytes == BytesIn(ToSet(list)) \cup BytesIn(tree)

\* Every byte of every document block belongs to exactly one of: a live
\* document, the stale regions, the rest of a handle's current block (docio
\* appends there next), a rest lost with its handle, a reusable block.  So
\* neither docio_append_doc_raw, filemgr_mark_stale nor the merging and
\* splitting of regions loses a byte or counts one twice.
Holders(y) ==
    Cardinality({d \in 1 .. MaxDoc : docs[d].live /\ y \in DocBytes(d)})
    + Cardinality({x \in Handles : y \in RestBytes(x)})
    + Cardinality({i \in DOMAIN list : y \in BytesOf(list[i])})
    + Cardinality({r \in tree : y \in BytesOf(r)})
    + (IF y \in leak THEN 1 ELSE 0) + (IF y \div BlockSize \in free THEN 1 ELSE 0)
BytesAccounted == \A y \in 0 .. pos * BlockSize - 1 : Holders(y) = 1

\* A live document is on disk as it was written: nothing written later, by
\* any handle, into new or reused blocks, touches its bytes.
LiveIntact ==
    \A d \in 1 .. MaxDoc : docs[d].live =>
      \A y \in DocBytes(d) : InBlock(y) < DataSize =>
        blk[y \div BlockSize].byte[InBlock(y)] = d

\* What docio_read_doc returns for a document that is live is that document,
\* whatever was appended, committed and reused since its handle's buffer
\* was filled.
ReadExact == rd.pc = "done" /\ docs[rd.doc].live => rd.good
=============================================================================
