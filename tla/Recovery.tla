------------------------------ MODULE Recovery ------------------------------
(* Crash and recovery of one ForestDB file.  Wal is extended with the file    *)
(* itself, a sequence of blocks: headers, and document blocks that hold       *)
(* documents and commit marks.  Every handle fills a document block of its    *)
(* own until the next header closes it, so the file's order is not the order  *)
(* of the appends.  A crash loses all memory; behind the last header it also  *)
(* loses what the cache had not written back yet, but nothing takes away what *)
(* it had: the next fdb_open rebuilds the WAL up to the last header           *)
(* (_fdb_restore_wal) and appends behind the leftovers.                       *)
(* A block is known by its place in the file; 0 stands for "no block".        *)
EXTENDS Wal, Sequences, FiniteSetsExt

CONSTANTS Handles,      \* handles used outside transactions
          BlockCap,     \* documents and commit marks that fit in a block
          MaxHeaders,   \* bound on the headers appended
          MaxCrashes    \* bound on the crashes

(* A transaction's name is also the name of the handle that begins it; the    *)
(* handles used outside transactions may be among these.                      *)
AllHandles == Handles \cup Txns

ASSUME RecoveryAssumption ==
    Handles # {} /\ BlockCap \in Nat \ {0} /\ MaxHeaders \in Nat /\ MaxCrashes \in Nat

VARIABLES file,      \* the blocks of the file
          curblock,  \* dhandle->curblock of each handle
          seqnum,    \* file->header.seqnum
          revnum,    \* file->header.revnum
          prev,      \* prev_hdr_bid and prev_revnum of each transaction
          crashes,
          durable,   \* history: what the last header promises, per key
          promised,  \* history: the documents that some header promised
          odd,       \* history: keys with an exceptional replay, see below
          wrote,     \* history: documents of each transaction not yet committed
          asked      \* history: transactional documents a commit was asked for

histories == <<durable, promised, odd, wrote, asked>>
fileVars  == <<file, curblock, seqnum, revnum, prev, crashes>>
rvars     == <<vars, fileVars, histories>>

LastHdr == Max({0} \cup {b \in DOMAIN file : file[b].type = "hdr"})

(* handle->last_wal_flush_hdr_bid, as every handle has it from the header.    *)
LastWalFlush == IF LastHdr = 0 THEN 0 ELSE file[LastHdr].lwf

(* _fdb_get_header_revnum *)
HeaderRevnum(b) == IF b = 0 THEN 0 ELSE file[b].rev

HeaderSeqnum(b) == IF b = 0 THEN 0 ELSE file[b].seq

Empty == [k \in Keys |-> 0]

(* prev_hdr_bid and prev_revnum of no header, and of a transaction not begun. *)
NoHeader == [hdr |-> 0, rev |-> 0]

RInit ==
    /\ Init
    /\ file = <<>> /\ curblock = [h \in AllHandles |-> 0]
    /\ seqnum = 0 /\ revnum = 0 /\ crashes = 0
    /\ prev = [t \in Contexts |-> NoHeader]
    /\ durable = [k \in Keys |-> [doc |-> 0, odd |-> FALSE, settled |-> TRUE]]
    /\ promised = {} /\ odd = {} /\ asked = {}
    /\ wrote = [t \in Contexts |-> {}]

----------------------------------------------------------------------------
(* The contents of the document blocks.  A place is a block and an index in   *)
(* it; places are scanned in this order.                                      *)

Places == UNION {{<<b, n>> : n \in DOMAIN file[b].ents} :
                    b \in {c \in DOMAIN file : file[c].type = "doc"}}

At(p) == file[p[1]].ents[p[2]]

Precedes(p, q) == p[1] < q[1] \/ (p[1] = q[1] /\ p[2] < q[2])

(* docio_read_doc: the document at an offset, if it is still there.           *)
DocsAt(off) == {At(p) : p \in {q \in Places : At(q).type = "doc" /\ At(q).off = off}}

(* MUTANT: documents with the DOCIO_TXN_DIRTY flag are restored too. *)
RestoresDirty(e, k) == \E d \in DocsAt(e.off) : d.key = k

(* A document outside transactions counts for key k at its own place, one of  *)
(* a transaction where a commit mark points to it.                            *)
Restores(e, k) ==
    /\ e.type = "mark" \/ e.txn = Global
    /\ \E d \in DocsAt(e.off) : d.key = k

(* filemgr_is_writable: no header has closed the block, so that the handle    *)
(* goes on filling it while there is room.                                    *)
HasRoom(b) == b > LastHdr /\ Len(file[b].ents) < BlockCap

(* MUTANT: a handle goes on in its block after a header has closed it. *)
NextPlaceUnclosed(h) ==
    IF curblock[h] # 0 /\ Len(file[curblock[h]].ents) < BlockCap
    THEN <<curblock[h], Len(file[curblock[h]].ents) + 1>> ELSE <<Len(file) + 1, 1>>

(* Where docio_append_doc_raw puts the next document or mark of a handle.     *)
NextPlace(h) ==
    IF HasRoom(curblock[h])
    THEN <<curblock[h], Len(file[curblock[h]].ents) + 1>> ELSE <<Len(file) + 1, 1>>

DocioAppend(h, e) ==
    LET b == NextPlace(h)[1]
    IN  /\ file' = IF b \in DOMAIN file THEN [file EXCEPT ![b].ents = Append(@, e)]
                   ELSE Append(file, [type |-> "doc", ents |-> <<e>>])
        /\ curblock' = [curblock EXCEPT ![h] = b]

----------------------------------------------------------------------------
(* Appending a header. *)

(* wal_earliest_txn: of the other transactions with something on their list,  *)
(* the one whose prev_revnum is smallest.  The list ends with global_txn,     *)
(* which also replaces one whose prev_revnum is 0.                            *)
EarliestTxn(cur) ==
    LET others == {t \in txns \ {cur} : LinkedTo(t) # {}}
        first  == {t \in others : \A u \in others : prev[t].rev <= prev[u].rev}
    IN  IF cur # Global /\ LinkedTo(Global) # {} /\
           \A t \in first : prev[t].rev = 0 \/ prev[Global].rev < prev[t].rev
        THEN {Global}
        ELSE first

(* MUTANT: the block behind the new header is taken for it. *)
FlushPointPastHeader(cur, status) ==
    IF status = "CLEAN" /\ EarliestTxn(cur) = {} THEN Len(file) + 2 ELSE LastWalFlush

(* The header from which a recovery is to replay. *)
FlushPoint(cur, status) ==
    IF status # "CLEAN" THEN LastWalFlush
    ELSE IF EarliestTxn(cur) = {} THEN Len(file) + 1
    ELSE LET e == prev[CHOOSE t \in EarliestTxn(cur) : TRUE]
         IN  IF HeaderRevnum(LastWalFlush) < e.rev THEN e.hdr ELSE LastWalFlush

(* The part of _fdb_commit that allocates, fills and writes the header.  The  *)
(* revision number grows again after filemgr_commit.                          *)
AppendHeader(cur, root, status) ==
    /\ file' = Append(file, [type |-> "hdr", root |-> root, rev |-> revnum + 1,
                             seq |-> seqnum, lwf |-> FlushPoint(cur, status)])
    /\ revnum' = revnum + 2
    /\ prev' = IF cur = Global
               THEN [prev EXCEPT ![Global] = [hdr |-> Len(file) + 1, rev |-> revnum + 1]]
               ELSE prev
    /\ durable' = [k \in Keys |-> [doc |-> Expected(Global, k, latest, mine),
                                   odd |-> k \in odd',
                                   settled |-> mine[Global][k] = 0]]
    /\ promised' = promised \cup {durable'[k].doc : k \in Keys}
    /\ wrote' = [wrote EXCEPT ![cur] = {}]
    /\ UNCHANGED <<curblock, seqnum, crashes, asked>>

----------------------------------------------------------------------------
(* The writers of Wal, with what they do to the file. *)

RBegin(t) ==
    /\ FdbBeginTransaction(t)
    /\ prev' = [prev EXCEPT ![t] = [hdr |-> LastHdr, rev |-> revnum]]
    /\ UNCHANGED <<file, curblock, seqnum, revnum, crashes, histories>>

RAbort(t) ==
    /\ FdbAbortTransaction(t)
    /\ prev' = [prev EXCEPT ![t] = NoHeader]
    /\ wrote' = [wrote EXCEPT ![t] = {}]
    /\ UNCHANGED <<file, curblock, seqnum, revnum, crashes, durable, promised, odd, asked>>

REnd(t) ==
    /\ FdbEndTransaction(t)
    /\ prev' = [prev EXCEPT ![t] = NoHeader]
    /\ UNCHANGED <<file, curblock, seqnum, revnum, crashes, histories>>

(* A recovery replays a non-transactional document where it was written and a *)
(* transaction's where its commit mark is.  A key is odd                      *)
(*   - when an update of it lands in front of an earlier one, in a block that *)
(*     its handle began before: the earlier one is replayed last;             *)
(*   - when a transaction commits it while a non-transactional update of it   *)
(*     is pending: in memory that update, committed later, wins; in the file  *)
(*     the mark comes last;                                                   *)
(*   - when an update of it that a restart did not find is left in the file;  *)
(*   - when fdb_commit moves the flush point to its own header, the WAL being *)
(*     "clean", though the items it has just committed are only in the WAL.   *)
(* The next update of the key that lands behind the others ends this.         *)
OddAfter(k, h) ==
    IF \E p \in Places : Precedes(NextPlace(h), p) /\ Restores(At(p), k)
    THEN odd \cup {k} ELSE odd \ {k}

(* fdb_set through handle h takes the next sequence number and appends the    *)
(* document, with DOCIO_TXN_DIRTY in a transaction.                           *)
RSet(t, k, a, h) ==
    /\ FdbSet(t, k, a)
    /\ IF t = Global THEN h \in Handles \ txns ELSE h = t
    /\ seqnum' = seqnum + 1
    /\ DocioAppend(h, [type |-> "doc", off |-> last + 1, key |-> k, txn |-> t,
                       seq |-> seqnum + 1])
    /\ wrote' = [wrote EXCEPT ![t] = @ \cup {last + 1}]
    /\ odd' = IF t = Global THEN OddAfter(k, h) ELSE odd
    /\ UNCHANGED <<revnum, prev, crashes, durable, promised, asked>>

Headers == Cardinality({b \in DOMAIN file : file[b].type = "hdr"})

RCommit(t, op, manual) ==
    /\ FdbCommit(t, op, manual)
    /\ Headers < MaxHeaders
    /\ asked' = asked \cup wrote[t]
    /\ UNCHANGED <<fileVars, durable, promised, odd, wrote>>

(* wal_commit appends a commit mark for an item of a transaction, to the      *)
(* block of the handle that commits.                                          *)
RCommitItem(i) ==
    /\ WalCommitItem(i)
    /\ IF i.txn = Global
       THEN UNCHANGED <<file, curblock, odd>>
       ELSE /\ DocioAppend(i.txn, [type |-> "mark", off |-> i.off])
            /\ odd' = IF mine[Global][i.key] # 0 THEN odd \cup {i.key}
                      ELSE OddAfter(i.key, i.txn)
    /\ UNCHANGED <<seqnum, revnum, prev, crashes, durable, promised, wrote, asked>>

(* Without a flush the header follows at once, with the same index root.      *)
RCommitDone ==
    /\ WalCommitDone
    /\ IF pc' = "idle"
       THEN /\ odd' = odd \cup {i.key : i \in {j \in items : j.committed /\ wal_dirty' = "CLEAN"}}
            /\ AppendHeader(w.txn, hdr, wal_dirty')
       ELSE UNCHANGED <<fileVars, histories>>

RSetFileHeader ==
    /\ SetFileHeader
    /\ UNCHANGED odd
    /\ AppendHeader(w.txn, w.tree, wal_dirty)

----------------------------------------------------------------------------
(* Crash and restart. *)

(* What _fdb_restore_wal finds for key k: it scans the blocks between the     *)
(* header of the last flush and the last header, and passes over documents    *)
(* whose sequence number is beyond the header's.                              *)
Replayed(k) ==
    LET from == LastWalFlush
        to   == LastHdr
    IN  {p \in Places :
            /\ from < p[1] /\ p[1] < to
            /\ Restores(At(p), k)
            /\ \A d \in DocsAt(At(p).off) : d.seq <= HeaderSeqnum(to)}

(* Everything is inserted as an update of global_txn, where what is scanned   *)
(* later overwrites what was scanned earlier, and committed.  The scan is     *)
(* left out, and the WAL remains clean, if the file ends with the header of   *)
(* the last flush or one block later; index blocks, which are not in `file',  *)
(* count as well.                                                             *)
RestoreWal ==
    LET found == {k \in Keys : Replayed(k) # {}}
        off   == [k \in found |-> At(CHOOSE p \in Replayed(k) :
                                       \A q \in Replayed(k) \ {p} : Precedes(q, p)).off]
        short == Len(file') = LastWalFlush \/
                 (LastWalFlush # 0 /\ Len(file') = LastWalFlush + 1)
    IN  /\ items' = {[key |-> k, off |-> off[k], txn |-> Global, tag |-> 1,
                      act |-> IF off[k] \in dead THEN "LOGICAL_REMOVE" ELSE "INSERT",
                      born |-> off[k], at |-> 1, committed |-> TRUE, ready |-> FALSE,
                      out |-> FALSE, linked |-> FALSE] : k \in found}
        /\ handles' = [t \in {1 : k \in found} |->
                          [ndocs |-> Cardinality(found), flushed |-> FALSE]]
        /\ size' = Cardinality(found) /\ num_flushable' = Cardinality(found)
        /\ latest' = [k \in Keys |-> IF k \in found THEN off[k] ELSE hdr'[k]]
        /\ wal_dirty' \in IF short THEN {"CLEAN", "DIRTY"} ELSE {"DIRTY"}

(* What a crash may leave behind the last header: of each block as much as    *)
(* the cache had written back.  A block of which nothing was written is a     *)
(* hole, which no scan takes for a document block.                            *)
Leftovers ==
    LET tail == SubSeq(file, LastHdr + 1, Len(file))
    IN  {SelectSeq([b \in DOMAIN tail |-> [tail[b] EXCEPT !.ents = SubSeq(@, 1, kept[b])]],
                   LAMBDA blk : blk.ents # <<>>) :
            kept \in {f \in [DOMAIN tail -> 0 .. BlockCap] :
                         \A b \in DOMAIN tail : f[b] <= Len(tail[b].ents)}}

(* filemgr_open goes on at the end of the file, whatever is there; the last   *)
(* header gives the roots and the numbers.                                    *)
CrashAndOpen ==
    /\ crashes < MaxCrashes
    /\ crashes' = crashes + 1
    /\ \E left \in Leftovers :
          /\ file' = SubSeq(file, 1, LastHdr) \o left
          /\ odd' = {k \in Keys : (\E p \in Places : LastHdr < p[1] /\ Restores(At(p), k))'}
    /\ curblock' = [h \in AllHandles |-> 0]
    /\ revnum' = HeaderRevnum(LastHdr) /\ seqnum' = HeaderSeqnum(LastHdr)
    /\ hdr' = IF LastHdr = 0 THEN Empty ELSE file[LastHdr].root
    /\ RestoreWal
    /\ prev' = [t \in Contexts |-> IF t = Global THEN [hdr |-> Len(file'), rev |-> 0]
                                   ELSE NoHeader]
    /\ txns' = {} /\ ending' = {} /\ stamp' = 1 /\ dirty' = NoRoot
    /\ pc' = "idle" /\ w' = NoOp
    /\ mine' = [t \in Contexts |-> Empty]
    /\ wrote' = [t \in Contexts |-> {}]
    /\ UNCHANGED <<docVars, rd, durable, promised, asked>>

----------------------------------------------------------------------------
(* The steps that do nothing to the file. *)
InMemoryStep ==
    /\ \/ WalInsert
       \/ \E i \in items : WalCommitSkip(i)
       \/ \E i \in items : CommitMarkFails(i)
       \/ WalFlush
       \/ WalFlushFails
       \/ DirtyUpdateFinalize
       \/ \E i \in w.flush : WalReleaseItem(i)
       \/ WalReleaseDone
    /\ UNCHANGED <<fileVars, histories>>

(* The bounds are used up and no call is under way: the instance ends here,   *)
(* and a call that cannot go on is still a deadlock.                          *)
Bounded == pc = "idle" /\ Headers = MaxHeaders /\ UNCHANGED rvars

RNext ==
    \/ \E t \in Txns : RBegin(t)
    \/ \E t \in Txns : RAbort(t)
    \/ \E t \in Txns : REnd(t)
    \/ \E t \in Contexts, k \in Keys, a \in Acts, h \in AllHandles : RSet(t, k, a, h)
    \/ \E t \in Contexts, op \in {"commit", "end"}, m \in BOOLEAN : RCommit(t, op, m)
    \/ \E i \in items : RCommitItem(i)
    \/ RCommitDone
    \/ RSetFileHeader
    \/ InMemoryStep
    \/ CrashAndOpen
    \/ Bounded

RSpec == RInit /\ [][RNext]_rvars

----------------------------------------------------------------------------
(* Properties. *)

Entry == [type : {"doc"}, off : 1 .. last, key : Keys, txn : Contexts, seq : Nat]
         \cup [type : {"mark"}, off : 1 .. last]

RTypeOK ==
    /\ TypeOK
    /\ \A b \in DOMAIN file :
          \/ /\ file[b].type = "doc" /\ Len(file[b].ents) \in 1 .. BlockCap
             /\ \A n \in DOMAIN file[b].ents : file[b].ents[n] \in Entry
          \/ /\ file[b].type = "hdr" /\ file[b].root \in Trees
             /\ file[b].rev \in Nat /\ file[b].seq \in Nat /\ file[b].lwf \in 0 .. b
    /\ curblock \in [AllHandles -> 0 .. Len(file)]
    /\ seqnum \in Nat /\ revnum \in Nat /\ crashes \in 0 .. MaxCrashes
    /\ prev \in [Contexts -> [hdr : 0 .. Len(file), rev : Nat]]

(* After a crash, fdb_open brings back exactly the state readers were shown   *)
(* when the last header was written: every key's newest version,              *)
(* transactional or not, whichever handles wrote it and its neighbours,       *)
(* whether its flush into the index went through or its item was still in the *)
(* WAL, and nothing else.  Odd keys are left out.                             *)
RestartExact ==
    [][crashes' # crashes =>
          \A k \in Keys : ~durable[k].odd => InstantGet(Global, k)' = durable[k].doc]_rvars

(* The part of RestartExact that odd keys may break: the committed version    *)
(* that was the current one when the last header was written, if it is in the *)
(* replayed part of the file, is the one a restart shows.                     *)
ReplayInCommitOrder ==
    [][crashes' # crashes =>
          \A k \in Keys : \A p \in Replayed(k) :
              At(p).off = durable[k].doc /\ durable[k].settled
                  => latest'[k] = durable[k].doc]_rvars

(* Uncommitted documents are not read after the file is reopened, not even    *)
(* after a crash: a restart shows only what some header promised.             *)
NothingUnpromised ==
    [][crashes' # crashes =>
          \A k \in Keys : InstantGet(Global, k)' \in promised \cup {0}]_rvars

(* "There is no other transaction .. now WAL is empty", says _fdb_commit when *)
(* it moves last_wal_flush_hdr_bid to its own header: every committed item is *)
(* then in the index that this header refers to.                              *)
WalEmptyAtFlushPoint ==
    [][Len(file') > Len(file) /\ file'[Len(file')].type = "hdr" =>
          LET h == file'[Len(file')]
          IN  h.lwf = Len(file') =>
                 \A i \in items : i.committed => h.root[i.key] = i.off]_rvars

(* A restart shows no document of a transaction that nobody asked to commit,  *)
(* whatever appends and flushes failed, and whatever half of a commit's marks *)
(* an earlier crash left in the file.                                         *)
NoUnaskedCommit ==
    [][crashes' # crashes =>
          \A k \in Keys : \A d \in DocsAt(latest'[k]) :
              d.txn # Global => d.off \in asked]_rvars
=============================================================================
