-------------------------------- MODULE Wal --------------------------------
(* The in-memory write-ahead-log index of one ForestDB file (wal.cc) together *)
(* with the callers that drive it: fdb_set, fdb_commit, the transaction API   *)
(* and fdb_get (forestdb.cc, transaction.cc).                                 *)
(*                                                                            *)
(* Writers hold the file manager mutex for a whole call, so one writer record *)
(* `w' with a program counter `pc' is enough; what they do is still split at  *)
(* every release of a WAL shard lock, because readers take no other lock.     *)
(* A reader is an fdb_get: it looks at the WAL, then at the last header, then *)
(* at the latest dirty root, each at a different time.                        *)
(*                                                                            *)
(* A document is its offset (documents are appended, so offsets grow, and so  *)
(* do sequence numbers: one number stands for both).  A WAL item's place in   *)
(* its header's list is the number `at': push_front takes a number below all  *)
(* others, push_back one above all others.  The build is the default one, in  *)
(* which _MVCC_WAL_ENABLE is off and every item may be discarded.             *)
EXTENDS Integers, FiniteSets

CONSTANTS Keys,              \* keys of one KV store, each in its own shard
          Txns,              \* transactions that may be begun, each once
          Global,            \* file->global_txn: the non-transactional updates
          ReadUncommitted,   \* transactions begun as FDB_ISOLATION_READ_UNCOMMITTED
          Readers,           \* threads inside fdb_get
          Acts,              \* the kinds of update made, among Actions
          MaxDocs,           \* bound on the documents appended
          Threshold,         \* wal_threshold
          FlushBeforeCommit, \* config.wal_flush_before_commit
          Faults             \* what may fail: a commit mark's append, a flush

ASSUME WalAssumption ==
    /\ Keys # {} /\ Global \notin Txns
    /\ ReadUncommitted \subseteq Txns
    /\ Acts \subseteq {"INSERT", "LOGICAL_REMOVE", "REMOVE"}
    /\ MaxDocs \in Nat
    /\ Threshold \in Nat
    /\ FlushBeforeCommit \in BOOLEAN
    /\ Faults \subseteq {"mark", "flush"}

VARIABLES items,          \* all wal_items, in every header's list
          handles,        \* wal_snapshot_tree: tag -> shared snapshot handle
          txns,           \* wal->txn_list without global_txn
          ending,         \* committed, wal_remove_transaction still to come
          size,           \* wal->size
          num_flushable,  \* wal->num_flushable
          wal_dirty,      \* wal->wal_dirty
          last,           \* offset of the last document appended
          dead,           \* documents appended with the DOCIO_DELETED flag
          stamp,          \* the largest list position given by push_back
          hdr,            \* main index as of the last header
          dirty,          \* main index of file->latest_dirty_update
          pc, w,          \* the call that holds the file manager mutex
          rd,             \* the fdb_get of each reader
          latest,         \* history: the document committed last, per key
          mine            \* history: each transaction's own last write, per key

vars == <<items, handles, txns, ending, size, num_flushable, wal_dirty, last,
          dead, stamp, hdr, dirty, pc, w, rd, latest, mine>>

walVars    == <<items, handles, size, num_flushable, stamp>>
indexVars  == <<hdr, dirty, wal_dirty>>
histVars   == <<latest, mine>>
docVars    == <<last, dead>>

Contexts == Txns \cup {Global}
Actions  == {"INSERT", "LOGICAL_REMOVE", "REMOVE"}
Offsets  == 0 .. MaxDocs             \* 0: no document
Trees    == [Keys -> Offsets]
NoRoot   == [k \in Keys |-> -1]      \* BLK_NOT_FOUND

Item == [key : Keys, off : Offsets, act : Actions, txn : Contexts, tag : Nat,
         born : Offsets, at : Int, committed : BOOLEAN, ready : BOOLEAN,
         out : BOOLEAN, linked : BOOLEAN]

SnapHandle == [ndocs : Int, flushed : BOOLEAN]

WriterCalls == [op : {"none", "set", "dirty_flush", "commit", "end"}, txn : Contexts,
                manual : BOOLEAN, key : Keys \cup {0}, act : Actions, tag : Nat,
                tree : Trees \cup {NoRoot}, flush : SUBSET Item]

NoOp == [op |-> "none", txn |-> Global, manual |-> FALSE, key |-> 0,
         act |-> "INSERT", tag |-> 0, tree |-> NoRoot, flush |-> {}]

Gets == [pc : {"idle", "header", "index", "done"}, key : Keys \cup {0}, txn : Contexts,
         root : Trees \cup {NoRoot}, res : Offsets, acc : SUBSET Offsets]

Resting == [pc |-> "idle", key |-> 0, txn |-> Global, root |-> NoRoot,
            res |-> 0, acc |-> {}]

----------------------------------------------------------------------------
(* The header lists. *)

ListOf(k) == {i \in items : i.key = k}
Behind(i) == {j \in items : j.key = i.key /\ j.at > i.at}
Before(i) == {j \in items : j.key = i.key /\ j.at < i.at}

(* The committed items met when the list is walked backwards from i until    *)
(* the first uncommitted one: the scans of wal_commit and _wal_release_items. *)
CommittedRun(i) ==
    {j \in Before(i) :
        /\ j.committed
        /\ \A m \in Before(i) : m.at > j.at => m.committed}

LinkedTo(t) == {i \in items : i.txn = t /\ i.linked}

Flushable(i) == i.committed \/ i.txn = Global

(* MUTANT: the handle is freed one item too early. *)
FreeItemsEarly(hs, S) ==
    LET left(t) == hs[t].ndocs - Cardinality({i \in S : i.tag = t})
    IN  [t \in {u \in DOMAIN hs : u \in {i.tag : i \in S} => left(u) > 1} |->
            [hs[t] EXCEPT !.ndocs = left(t)]]

(* _wal_free_item: the handle of an item goes with its last item. *)
FreeItems(hs, S) ==
    LET left(t) == hs[t].ndocs - Cardinality({i \in S : i.tag = t})
        touched == {i.tag : i \in S}
        kept    == {t \in DOMAIN hs : t \in touched => left(t) # 0}
    IN  [t \in kept |-> [hs[t] EXCEPT !.ndocs = left(t)]]

(* MUTANT: the committed item is put in front of the list. *)
PushBackInFront == -(stamp + 1) - MaxDocs

(* list_push_back: a position behind every other. *)
PushBack == stamp + 1

(* list_push_front of the document just appended. *)
PushFront == -last

----------------------------------------------------------------------------
Init ==
    /\ items = {} /\ handles = [t \in {} |-> [ndocs |-> 0, flushed |-> FALSE]]
    /\ txns = {} /\ ending = {}
    /\ size = 0 /\ num_flushable = 0 /\ wal_dirty = "CLEAN"
    /\ last = 0 /\ dead = {} /\ stamp = 0
    /\ hdr = [k \in Keys |-> 0] /\ dirty = NoRoot
    /\ pc = "idle" /\ w = NoOp
    /\ rd = [r \in Readers |-> Resting]
    /\ latest = [k \in Keys |-> 0]
    /\ mine = [t \in Contexts |-> [k \in Keys |-> 0]]

(* A file handle has one KV store handle here, and this is used by one       *)
(* thread at a time (handle_busy is a flag of the KV store handle), so a     *)
(* transaction does nothing while an fdb_get on its handle is under way.     *)
HandleFree(t) == t # Global => \A r \in Readers : rd[r].pc # "idle" => rd[r].txn # t

(* What a document amounts to for a reader. *)
Value(v) == IF v \in dead THEN 0 ELSE v

(* What a reader of context t is to be told about key k, from the history.   *)
Expected(t, k, lt, mn) == Value(IF mn[t][k] # 0 THEN mn[t][k] ELSE lt[k])

(* Every fdb_get under way may from now on also answer with the new state.   *)
(* One outside transactions shares its context with other handles, and need  *)
(* not see what those wrote, without committing, after it started.           *)
Observe(lt, mn) ==
    rd' = [r \in Readers |->
              IF rd[r].pc \in {"header", "index"}
              THEN [rd[r] EXCEPT !.acc = @ \cup {Expected(rd[r].txn, rd[r].key, lt, mn)}
                        \cup (IF rd[r].txn = Global THEN {Value(lt[rd[r].key])} ELSE {})]
              ELSE rd[r]]

----------------------------------------------------------------------------
(* Transactions. *)

FdbBeginTransaction(t) ==
    /\ pc = "idle" /\ t \notin txns
    /\ \A i \in items : i.txn # t      \* ++transaction_id: the id is fresh
    /\ txns' = txns \cup {t}
    /\ UNCHANGED <<walVars, ending, indexVars, docVars, pc, w, rd, histVars>>

(* MUTANT: committed items left on the list are not taken off num_flushable. *)
AbortMiscounting(t) ==
    /\ pc = "idle" /\ t \in txns \ ending /\ HandleFree(t)
    /\ items' = items \ LinkedTo(t)
    /\ size' = size - Cardinality(LinkedTo(t))
    /\ txns' = txns \ {t}
    /\ mine' = [mine EXCEPT ![t] = [k \in Keys |-> 0]]
    /\ UNCHANGED <<num_flushable, handles, ending, stamp, indexVars, docVars, pc, w,
                   rd, latest>>

(* _fdb_abort_transaction: wal_discard drops what is still on the list of t  *)
(* (the handles of the items are not told), then the transaction goes.       *)
FdbAbortTransaction(t) ==
    /\ pc = "idle" /\ t \in txns \ ending /\ HandleFree(t)
    /\ items' = items \ LinkedTo(t)
    /\ size' = size - Cardinality(LinkedTo(t))
    /\ num_flushable' = num_flushable - Cardinality({i \in LinkedTo(t) : i.committed})
    /\ txns' = txns \ {t}
    /\ mine' = [mine EXCEPT ![t] = [k \in Keys |-> 0]]
    /\ UNCHANGED <<handles, ending, stamp, indexVars, docVars, pc, w, rd, latest>>

(* MUTANT: the transaction is removed though its list is not empty. *)
EndWithItems(t) ==
    /\ pc = "idle" /\ t \in txns /\ HandleFree(t)
    /\ txns' = txns \ {t}
    /\ ending' = ending \ {t}
    /\ mine' = [mine EXCEPT ![t] = [k \in Keys |-> 0]]
    /\ UNCHANGED <<walVars, indexVars, docVars, pc, w, rd, latest>>

(* The last part of fdb_end_transaction, under the mutex a second time, and   *)
(* all of it when nothing is on the list of t.                                *)
FdbEndTransaction(t) ==
    /\ pc = "idle" /\ t \in txns /\ HandleFree(t)
    /\ t \in ending \/ LinkedTo(t) = {}
    /\ txns' = txns \ {t}
    /\ ending' = ending \ {t}
    /\ mine' = [mine EXCEPT ![t] = [k \in Keys |-> 0]]
    /\ UNCHANGED <<walVars, indexVars, docVars, pc, w, rd, latest>>

----------------------------------------------------------------------------
(* fdb_set and fdb_del. *)

(* _wal_fetch_snapshot: the newest handle, or a new one if there is none or  *)
(* the newest was marked flushed.  The document being inserted is counted.   *)
NewestTag(hs) == CHOOSE t \in DOMAIN hs : \A u \in DOMAIN hs : u <= t

(* MUTANT: snapshot ids begin at 0. *)
FetchTagFromZero(hs) ==
    IF DOMAIN hs = {} THEN 0
    ELSE IF hs[NewestTag(hs)].flushed THEN NewestTag(hs) + 1
    ELSE NewestTag(hs)

FetchTag(hs) ==
    IF DOMAIN hs = {} THEN 1
    ELSE IF hs[NewestTag(hs)].flushed THEN NewestTag(hs) + 1
    ELSE NewestTag(hs)

WalFetchSnapshot(hs) ==
    [t \in DOMAIN hs \cup {FetchTag(hs)} |->
        IF t \notin DOMAIN hs THEN [ndocs |-> 1, flushed |-> FALSE]
        ELSE IF t = FetchTag(hs) THEN [hs[t] EXCEPT !.ndocs = @ + 1]
        ELSE hs[t]]

(* The document is appended to the file and _wal_insert fetches the handle,  *)
(* under wal->lock, before it takes the lock of the shard.                   *)
FdbSet(t, k, a) ==
    /\ pc = "idle" /\ last < MaxDocs
    /\ t \in (txns \ ending) \cup {Global} /\ HandleFree(t)
    /\ last' = last + 1
    /\ dead' = IF a = "INSERT" THEN dead ELSE dead \cup {last + 1}
    /\ handles' = WalFetchSnapshot(handles)
    /\ pc' = "insert"
    /\ w' = [NoOp EXCEPT !.op = "set", !.txn = t, !.key = k, !.act = a,
                         !.tag = FetchTag(handles)]
    /\ UNCHANGED <<items, txns, ending, size, num_flushable, stamp, indexVars,
                   rd, histVars>>

(* The item an insertion overwrites in place. *)
Overwritten ==
    {i \in ListOf(w.key) : i.txn = w.txn /\ ~i.committed /\ i.tag = w.tag}

(* _wal_insert under the lock of the shard. *)
InsertItem ==
    IF Overwritten # {}
    THEN LET i == CHOOSE i \in Overwritten : \A j \in Overwritten : i.at <= j.at
         IN  /\ items' = (items \ {i}) \cup
                         {[i EXCEPT !.off = last, !.act = w.act, !.at = PushFront,
                                    !.ready = FALSE]}
             /\ handles' = [handles EXCEPT ![w.tag].ndocs = @ - 1]
             /\ UNCHANGED <<size, num_flushable>>
    ELSE /\ items' = items \cup
                     {[key |-> w.key, off |-> last, act |-> w.act, txn |-> w.txn,
                       tag |-> w.tag, born |-> last, at |-> PushFront,
                       committed |-> FALSE, ready |-> FALSE, out |-> FALSE,
                       linked |-> TRUE]}
         /\ size' = size + 1
         /\ num_flushable' = num_flushable + (IF w.txn = Global THEN 1 ELSE 0)
         /\ UNCHANGED handles

(* The rest of fdb_set: with wal_flush_before_commit, a WAL that has grown   *)
(* past the threshold is committed and flushed into a dirty update.          *)
WalInsert ==
    /\ pc = "insert"
    /\ InsertItem
    /\ wal_dirty' = IF wal_dirty = "CLEAN" THEN "DIRTY" ELSE wal_dirty
    /\ IF FlushBeforeCommit /\ num_flushable' > Threshold
       THEN pc' = "commit" /\ w' = [NoOp EXCEPT !.op = "dirty_flush"]
       ELSE pc' = "idle" /\ w' = NoOp
    /\ mine' = [mine EXCEPT ![w.txn][w.key] = last]
    /\ Observe(latest, mine')
    /\ UNCHANGED <<txns, ending, stamp, hdr, dirty, docVars, latest>>

----------------------------------------------------------------------------
(* _fdb_commit: by fdb_commit, or by fdb_end_transaction if the transaction   *)
(* has anything on its list.                                                  *)

FdbCommit(t, op, manual) ==
    /\ pc = "idle" /\ t \in (txns \ ending) \cup {Global} /\ HandleFree(t)
    /\ op = "end" => t # Global /\ LinkedTo(t) # {}
    /\ pc' = "commit"
    /\ w' = [NoOp EXCEPT !.op = op, !.txn = t, !.manual = manual]
    /\ UNCHANGED <<walVars, txns, ending, indexVars, docVars, rd, histVars>>

(* The next item on the transaction's list. *)
NextLinked(i) == i \in LinkedTo(w.txn) /\ \A j \in LinkedTo(w.txn) : i.born <= j.born

(* wal_commit for one item, under the lock of its shard: the item moves to   *)
(* the end of its list and replaces the committed items it finds there,      *)
(* unless a flush has claimed them.                                          *)
WalCommitItem(i) ==
    /\ pc = "commit" /\ NextLinked(i) /\ ~i.committed
    /\ LET it   == [i EXCEPT !.committed = TRUE, !.linked = FALSE, !.at = PushBack]
           dups == {j \in items \ {i} :
                      /\ j.key = i.key /\ j.committed /\ ~j.ready
                      /\ \A m \in Behind(j) \ {i} : m.committed}
       IN  /\ items' = ((items \ {i}) \ dups) \cup {it}
           /\ size' = size - Cardinality(dups)
           /\ num_flushable' = num_flushable + (IF i.txn = Global THEN 0 ELSE 1)
                               - Cardinality(dups)
           /\ handles' = FreeItems(handles, dups)
    /\ stamp' = stamp + 1
    /\ latest' = [latest EXCEPT ![i.key] = i.off]
    /\ mine' = IF mine[i.txn][i.key] = i.off THEN [mine EXCEPT ![i.txn][i.key] = 0] ELSE mine
    /\ Observe(latest', mine')
    /\ UNCHANGED <<txns, ending, indexVars, docVars, pc, w>>

(* MUTANT: the item is not taken off the transaction's list. *)
CommitSkipForever(i) ==
    /\ pc = "commit" /\ NextLinked(i) /\ i.committed
    /\ UNCHANGED vars

(* An item that an earlier, failed wal_commit left flagged: it is unlinked   *)
(* and neither marked in the file nor moved.                                 *)
WalCommitSkip(i) ==
    /\ pc = "commit" /\ NextLinked(i) /\ i.committed
    /\ items' = (items \ {i}) \cup {[i EXCEPT !.linked = FALSE]}
    /\ UNCHANGED <<handles, txns, ending, size, num_flushable, stamp, indexVars,
                   docVars, pc, w, rd, histVars>>

(* _fdb_append_commit_mark fails: the item is already flagged and counted,    *)
(* and still on the transaction's list.  A flush by another handle may then  *)
(* claim and free it; the list would be left with a dangling link, of which  *)
(* the model, see ClaimedUnlinked, only shows that it can arise.             *)
CommitMarkFails(i) ==
    /\ "mark" \in Faults
    /\ pc = "commit" /\ w.txn # Global /\ NextLinked(i) /\ ~i.committed
    /\ items' = (items \ {i}) \cup {[i EXCEPT !.committed = TRUE]}
    /\ num_flushable' = num_flushable + 1
    /\ pc' = "idle" /\ w' = NoOp
    /\ UNCHANGED <<handles, txns, ending, size, stamp, indexVars, docVars, rd, histVars>>

(* The mutex is given back; fdb_end_transaction will come for it again.      *)
Return ==
    /\ pc' = "idle" /\ w' = NoOp
    /\ ending' = IF w.op = "end" THEN ending \cup {w.txn} ELSE ending

(* The list is empty: _fdb_commit decides whether to flush. *)
WalCommitDone ==
    /\ pc = "commit" /\ LinkedTo(w.txn) = {}
    /\ LET st == IF w.txn # Global /\ wal_dirty = "CLEAN" THEN "DIRTY" ELSE wal_dirty
       IN  /\ wal_dirty' = st
           /\ IF w.op = "dirty_flush" \/ w.manual \/ num_flushable > Threshold
                 \/ st = "PENDING"
              THEN pc' = "flush" /\ UNCHANGED <<w, ending>>
              ELSE Return
    /\ UNCHANGED <<walVars, txns, hdr, dirty, docVars, rd, histVars>>

----------------------------------------------------------------------------
(* wal_flush. *)

(* Walking a list backwards, the flush passes over the items an earlier,      *)
(* failed flush claimed; it stops at an uncommitted or flushed-out item.     *)
Reached(i) == \A j \in Behind(i) : j.committed /\ j.ready /\ ~j.out

(* MUTANT: uncommitted items are claimed as well. *)
CollectedUncommitted == {i \in items : ~i.ready /\ ~i.out /\ Reached(i)}

Collected == {i \in items : i.committed /\ ~i.ready /\ ~i.out /\ Reached(i)}

(* A flushed-out item met on the way is released at once with those before. *)
Expired == {i \in items : i.committed /\ i.out /\ Reached(i)}

ReleasedWith(S) == S \cup UNION {CommittedRun(i) : i \in S}

(* The root the writer's handle works on: _fdb_dirty_update_ready. *)
BaseTree == IF dirty # NoRoot THEN dirty ELSE hdr

(* Nothing to do in the index: it holds the document already, or the key of  *)
(* an immediate removal is not in it.                                        *)
NoNeed(i, tree) == tree[i.key] = i.off \/ (i.act = "REMOVE" /\ tree[i.key] = 0)

Claimed(i, tree) == [i EXCEPT !.ready = TRUE, !.out = NoNeed(i, tree)]

(* _wal_flush up to its second loop: one item per key is claimed.            *)
CollectItems(tree, gone) ==
    /\ items' = ((items \ gone) \ Collected) \cup {Claimed(i, tree) : i \in Collected}
    /\ size' = size - Cardinality(gone)
    /\ num_flushable' = num_flushable - Cardinality(gone)
    /\ handles' = FreeItems(handles, gone)

(* _fdb_wal_flush_func for all the claimed items. *)
Flushed(tree, S) ==
    [k \in Keys |->
        IF \E i \in S : i.key = k /\ ~i.out
        THEN LET i == CHOOSE i \in S : i.key = k /\ ~i.out
             IN  IF i.act = "REMOVE" THEN 0 ELSE i.off
        ELSE tree[k]]

WalFlush ==
    /\ pc = "flush"
    /\ LET claimed == {Claimed(i, BaseTree) : i \in Collected}
       IN  w' = [w EXCEPT !.tree = Flushed(BaseTree, claimed), !.flush = claimed]
    /\ CollectItems(BaseTree, ReleasedWith(Expired))
    /\ pc' = "finalize"
    /\ UNCHANGED <<txns, ending, stamp, indexVars, docVars, rd, histVars>>

(* A flush callback fails: the old roots are restored, the claimed items      *)
(* stay claimed, and the caller returns the error.                           *)
WalFlushFails ==
    /\ "flush" \in Faults
    /\ pc = "flush" /\ \E i \in Collected : ~NoNeed(i, BaseTree)
    /\ CollectItems(BaseTree, ReleasedWith(Expired))
    /\ pc' = "idle" /\ w' = NoOp
    /\ UNCHANGED <<txns, ending, stamp, indexVars, docVars, rd, histVars>>

(* _wal_snap_mark_flushed. *)
MarkFlushed(hs) == [t \in DOMAIN hs |-> [hs[t] EXCEPT !.flushed = TRUE]]

(* MUTANT: a commit releases the flushed items before it sets the header. *)
FinalizeThenRelease ==
    /\ pc = "finalize"
    /\ dirty' = (IF w.op = "dirty_flush" THEN w.tree ELSE NoRoot)
    /\ wal_dirty' = (IF w.op = "dirty_flush" THEN "PENDING" ELSE "CLEAN")
    /\ pc' = "release" /\ handles' = MarkFlushed(handles)
    /\ UNCHANGED <<items, size, num_flushable, stamp, txns, ending, hdr, docVars,
                   w, rd, histVars>>

(* _fdb_dirty_update_finalize: fdb_set publishes the new roots as the latest  *)
(* dirty update; a commit writes them back and drops every dirty update.      *)
DirtyUpdateFinalize ==
    /\ pc = "finalize"
    /\ IF w.op = "dirty_flush"
       THEN /\ dirty' = w.tree /\ wal_dirty' = "PENDING"
            /\ pc' = "release" /\ handles' = MarkFlushed(handles)
       ELSE /\ dirty' = NoRoot /\ wal_dirty' = "CLEAN"
            /\ pc' = "header" /\ UNCHANGED handles
    /\ UNCHANGED <<items, size, num_flushable, stamp, txns, ending, hdr, docVars,
                   w, rd, histVars>>

(* fdb_set_file_header and filemgr_commit: the new root becomes the header's. *)
SetFileHeader ==
    /\ pc = "header"
    /\ hdr' = w.tree
    /\ handles' = MarkFlushed(handles)
    /\ pc' = "release"
    /\ UNCHANGED <<items, size, num_flushable, stamp, txns, ending, dirty,
                   wal_dirty, docVars, w, rd, histVars>>

(* wal_release_flushed_items for one item, under the lock of its shard.      *)
WalReleaseItem(i) ==
    /\ pc = "release" /\ i \in w.flush
    /\ LET gone == ReleasedWith({i})
       IN  /\ items' = items \ gone
           /\ size' = size - Cardinality(gone)
           /\ num_flushable' = num_flushable - Cardinality(gone)
           /\ handles' = FreeItems(handles, gone)
    /\ w' = [w EXCEPT !.flush = @ \ {i}]
    /\ UNCHANGED <<stamp, txns, ending, indexVars, docVars, pc, rd, histVars>>

WalReleaseDone ==
    /\ pc = "release" /\ w.flush = {}
    /\ Return
    /\ UNCHANGED <<walVars, txns, indexVars, docVars, rd, histVars>>

----------------------------------------------------------------------------
(* fdb_get. *)

(* What the isolation level of context t lets it see. *)
Visible(t, i) == i.committed \/ i.txn = t \/ t \in ReadUncommitted

(* _wal_find without a snapshot: forward over the uncommitted items, then     *)
(* from the end back over the committed ones.  At most one item qualifies.   *)
WalFound(t, k) ==
    LET comm  == {i \in ListOf(k) : i.committed}
        first == {i \in comm : \A j \in comm : i.at <= j.at}
        front == {i \in ListOf(k) : Visible(t, i) /\ \A c \in comm : i.at < c.at}
        back  == {i \in ListOf(k) : \E c \in first : i.at > c.at}
        stop  == {i \in (IF back = {} THEN first ELSE back) : i.out \/ Visible(t, i)}
    IN  IF front # {} THEN {i \in front : \A j \in front : i.at <= j.at}
        ELSE {i \in stop : ~i.out /\ \A j \in stop : j.at <= i.at}

ItemValue(i) == IF i.act = "INSERT" THEN i.off ELSE 0

Answer(r, v) == rd' = [rd EXCEPT ![r].pc = "done", ![r].res = v, ![r].root = NoRoot]

(* MUTANT: the reader's own uncommitted items are passed over. *)
WalFindCommitted(r, t, k) ==
    /\ rd[r].pc = "idle" /\ t \in (txns \ ending) \cup {Global}
    /\ HandleFree(t) /\ (t # Global /\ pc # "idle" => w.txn # t)
    /\ LET get == [pc |-> "header", key |-> k, txn |-> t, root |-> NoRoot,
                   res |-> 0, acc |-> {Expected(t, k, latest, mine)}]
           hit == {i \in WalFound(t, k) : i.committed}
       IN  rd' = [rd EXCEPT ![r] =
                    IF hit = {} THEN get
                    ELSE [get EXCEPT !.pc = "done",
                                     !.res = ItemValue(CHOOSE i \in hit : TRUE)]]
    /\ UNCHANGED <<walVars, txns, ending, indexVars, docVars, pc, w, histVars>>

(* wal_find, under the lock of the shard. *)
WalFind(r, t, k) ==
    /\ rd[r].pc = "idle" /\ t \in (txns \ ending) \cup {Global}
    /\ HandleFree(t) /\ (t # Global /\ pc # "idle" => w.txn # t)
    /\ LET get == [pc |-> "header", key |-> k, txn |-> t, root |-> NoRoot,
                   res |-> 0, acc |-> {Expected(t, k, latest, mine)}]
           hit == WalFound(t, k)
       IN  rd' = [rd EXCEPT ![r] =
                    IF hit = {} THEN get
                    ELSE [get EXCEPT !.pc = "done",
                                     !.res = ItemValue(CHOOSE i \in hit : TRUE)]]
    /\ UNCHANGED <<walVars, txns, ending, indexVars, docVars, pc, w, histVars>>

(* fdb_sync_db_header *)
SyncDbHeader(r) ==
    /\ rd[r].pc = "header"
    /\ rd' = [rd EXCEPT ![r].pc = "index", ![r].root = hdr]
    /\ UNCHANGED <<walVars, txns, ending, indexVars, docVars, pc, w, histVars>>

(* _fdb_sync_dirty_root and the lookup in the main index, whose roots no      *)
(* writer modifies once they are published.                                  *)
SyncDirtyRoot(r) ==
    /\ rd[r].pc = "index"
    /\ LET tree == IF dirty # NoRoot THEN dirty ELSE rd[r].root
           v    == tree[rd[r].key]
       IN  Answer(r, Value(v))
    /\ UNCHANGED <<walVars, txns, ending, indexVars, docVars, pc, w, histVars>>

GetReturns(r) ==
    /\ rd[r].pc = "done"
    /\ rd' = [rd EXCEPT ![r] = Resting]
    /\ UNCHANGED <<walVars, txns, ending, indexVars, docVars, pc, w, histVars>>

----------------------------------------------------------------------------
WriterCall ==
    \/ \E t \in Txns : FdbBeginTransaction(t)
    \/ \E t \in Txns : FdbAbortTransaction(t)
    \/ \E t \in Txns : FdbEndTransaction(t)
    \/ \E t \in Contexts, k \in Keys, a \in Acts : FdbSet(t, k, a)
    \/ \E t \in Contexts, op \in {"commit", "end"}, m \in BOOLEAN : FdbCommit(t, op, m)

(* What the thread that holds the mutex does. *)
WriterStep ==
    \/ WalInsert
    \/ \E i \in items : WalCommitItem(i)
    \/ \E i \in items : WalCommitSkip(i)
    \/ \E i \in items : CommitMarkFails(i)
    \/ WalCommitDone \/ WalFlush \/ WalFlushFails \/ DirtyUpdateFinalize
    \/ SetFileHeader \/ WalReleaseDone
    \/ \E i \in w.flush : WalReleaseItem(i)

ReaderStep(r) == SyncDbHeader(r) \/ SyncDirtyRoot(r) \/ GetReturns(r)

Next ==
    \/ WriterCall
    \/ WriterStep
    \/ \E r \in Readers, t \in Contexts, k \in Keys : WalFind(r, t, k)
    \/ \E r \in Readers : ReaderStep(r)

Spec == Init /\ [][Next]_vars

(* A thread that holds the mutex runs on, and so does one inside fdb_get.    *)
FairSpec == Spec /\ WF_vars(WriterStep) /\ \A r \in Readers : WF_vars(ReaderStep(r))

----------------------------------------------------------------------------
(* Properties. *)

TypeOK ==
    /\ items \subseteq Item /\ IsFiniteSet(items)
    /\ handles \in [DOMAIN handles -> SnapHandle] /\ DOMAIN handles \subseteq 1 .. last
    /\ txns \subseteq Txns /\ ending \subseteq txns
    /\ size \in Int /\ num_flushable \in Int
    /\ wal_dirty \in {"CLEAN", "DIRTY", "PENDING"}
    /\ last \in Offsets /\ dead \subseteq 1 .. last /\ stamp \in Nat
    /\ hdr \in Trees /\ dirty \in Trees \cup {NoRoot}
    /\ pc \in {"idle", "insert", "commit", "flush", "finalize", "header", "release"}
    /\ w \in WriterCalls /\ w.flush \subseteq items
    /\ pc = "insert" => w.key \in Keys
    /\ pc \in {"finalize", "header"} => w.tree \in Trees
    /\ rd \in [Readers -> Gets]
    /\ \A r \in Readers : rd[r].pc # "idle" => rd[r].key \in Keys
    /\ \A r \in Readers : rd[r].pc = "index" => rd[r].root \in Trees
    /\ latest \in Trees /\ mine \in [Contexts -> Trees]

(* wal->size counts the items in all lists and wal->num_flushable those that *)
(* are committed or non-transactional, whatever insertions, commits,         *)
(* discards, flushes and failures came before: the flush decisions of        *)
(* fdb_set and _fdb_commit rest on these counters.                           *)
CountersExact ==
    /\ size = Cardinality(items)
    /\ num_flushable = Cardinality({i \in items : Flushable(i)})

(* An item's snapshot handle is in the snapshot tree, and its count of        *)
(* documents never falls below the items that point to it (plus the one      *)
(* being inserted), so _wal_free_item never frees a handle still in use.     *)
HandlesAlive ==
    \A t \in {i.tag : i \in items} \cup (IF pc = "insert" THEN {w.tag} ELSE {}) :
        /\ t \in DOMAIN handles
        /\ handles[t].ndocs >= Cardinality({i \in items : i.tag = t})
                               + (IF pc = "insert" /\ w.tag = t THEN 1 ELSE 0)

(* An uncommitted item is on the list of a transaction that still exists, so  *)
(* that a commit or an abort will reach it: ending or aborting a transaction *)
(* leaves nothing of it behind that is not committed.                        *)
NoOrphanItem ==
    \A i \in items : ~i.committed => i.linked /\ i.txn \in txns \cup {Global}

(* The list of a header reads "uncommitted, newest first, then committed,     *)
(* oldest first", which is what lets _wal_find stop early and the flush take *)
(* the last item.                                                            *)
ListOrder ==
    \A i, j \in items :
        i.key = j.key /\ i # j =>
            /\ i.at # j.at
            /\ i.committed /\ ~j.committed => j.at < i.at
            /\ ~i.committed /\ ~j.committed /\ i.off > j.off => i.at < j.at

(* An item claimed by a flush ("this item becomes immutable, so that no other *)
(* concurrent thread modifies it") is off its transaction's list, which a    *)
(* commit or an abort would walk: wal_item keeps both links in one union.    *)
ClaimedUnlinked == \A i \in items : i.ready => ~i.linked

(* The value an fdb_get would return if it took no time. *)
InstantGet(t, k) ==
    LET hit == WalFound(t, k)
    IN  IF hit # {} THEN ItemValue(CHOOSE i \in hit : TRUE) ELSE Value(BaseTree[k])

(* At every moment of every commit, flush and release, WAL and index together *)
(* hold for each key the reader's own uncommitted write, or else the version *)
(* committed last: nothing is lost between the two, nothing of another       *)
(* transaction shows, and a removed document stays removed.                  *)
NothingLostInFlush ==
    \A t \in (txns \ ReadUncommitted) \cup {Global}, k \in Keys :
        InstantGet(t, k) = Expected(t, k, latest, mine)

(* fdb_get reads WAL, header and dirty root at three different times while    *)
(* writers go on; still its answer is the one that was due at some moment    *)
(* between its start and its end.                                            *)
GetLinearizable ==
    \A r \in Readers :
        rd[r].pc = "done" /\ rd[r].txn \notin ReadUncommitted => rd[r].res \in rd[r].acc

(* Whoever takes the mutex gives it back, and every fdb_get returns: the      *)
(* loops of wal_commit and wal_release_flushed_items end.                    *)
CallsReturn ==
    /\ pc # "idle" ~> pc = "idle"
    /\ \A r \in Readers : rd[r].pc # "idle" ~> rd[r].pc = "idle"
=============================================================================
