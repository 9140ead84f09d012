---------------------------- MODULE WalSnapshot ----------------------------
(* In-memory snapshots (fdb_snapshot_open with FDB_SNAPSHOT_INMEM) of the      *)
(* default build, in which a snapshot takes a private copy of the WAL.  The    *)
(* open holds no mutex: it reads the header, the latest dirty root, the list   *)
(* of active transactions and then one WAL shard after the other, while the    *)
(* writers of Wal go on.                                                       *)
EXTENDS Wal, FiniteSetsExt

CONSTANT Snaps      \* snapshot handles

VARIABLE snap       \* the snapshot of each handle

svars == <<vars, snap>>

(* `changed' and `moved' are histories: the keys whose value for the opener,   *)
(* or whose place in WAL and index, has changed since the open began; `blurred' *)
(* are those of which the copy skipped a partially committed item.             *)
Closed == [pc |-> "closed", txn |-> Global, seq |-> 0, root |-> NoRoot, active |-> {},
           todo |-> {}, copy |-> [k \in Keys |-> {}], expect |-> NoRoot,
           changed |-> {}, moved |-> {}, blurred |-> {}]

Opening(s) == snap[s].pc \notin {"closed", "open"}

(* What an in-memory snapshot is to contain: "it carries the latest version of *)
(* all the keys at the point of the snapshot and can even be taken out of      *)
(* uncommitted transaction".                                                   *)
Current(t, k, lt, mn) ==
    LET own == Max({mn[t][k], mn[Global][k]})
    IN  Value(IF own # 0 THEN own ELSE lt[k])

SInit == Init /\ snap = [s \in Snaps |-> Closed]

----------------------------------------------------------------------------
(* fdb_snapshot_open *)

(* _fdb_open for the new handle: root and sequence number of file->header.     *)
SnapshotOpenHeader(s, t) ==
    /\ snap[s].pc = "closed" /\ t \in (txns \ ending) \cup {Global}
    /\ t # Global /\ pc # "idle" => w.txn # t
    /\ snap' = [snap EXCEPT ![s] =
          [Closed EXCEPT !.pc = "dirty", !.txn = t, !.seq = last, !.root = hdr,
                         !.expect = [k \in Keys |-> Current(t, k, latest, mine)]]]
    /\ UNCHANGED vars

(* MUTANT: the root of the dirty update is imported unchecked. *)
SnapshotDirtyRootUnchecked(s) ==
    /\ snap[s].pc = "dirty"
    /\ snap' = [snap EXCEPT ![s].pc = "init", ![s].root = dirty]
    /\ UNCHANGED vars

(* The latest dirty update, if there is one, replaces the root.                *)
SnapshotDirtyRoot(s) ==
    /\ snap[s].pc = "dirty"
    /\ snap' = [snap EXCEPT ![s].pc = "init",
                            ![s].root = IF dirty # NoRoot THEN dirty ELSE @]
    /\ UNCHANGED vars

(* wal_dur_snapshot_open: under wal->lock, the transactions there are now.     *)
WalDurSnapshotOpen(s) ==
    /\ snap[s].pc = "init"
    /\ snap' = [snap EXCEPT ![s].pc = "copy", ![s].active = txns, ![s].todo = Keys]
    /\ UNCHANGED vars

(* _wal_item_partially_committed *)
PartiallyCommitted(s, i) ==
    i.committed /\ i.txn \notin {Global, snap[s].txn} /\ i.txn \in snap[s].active

(* MUTANT: uncommitted items of other transactions are copied too. *)
CopyableUncommitted(s, i) ==
    ~PartiallyCommitted(s, i) /\ i.off <= snap[s].seq

(* The items the copy does not pass over. *)
Copyable(s, i) ==
    /\ i.committed \/ i.txn \in {Global, snap[s].txn}
    /\ ~PartiallyCommitted(s, i)
    /\ i.off <= snap[s].seq

(* wal_copyto_snapshot for the shard of k: the first item that qualifies.      *)
WalCopyToSnapshot(s, k) ==
    /\ snap[s].pc = "copy" /\ k \in snap[s].todo
    /\ LET good == {i \in ListOf(k) : Copyable(s, i)}
           skip == {i \in ListOf(k) : PartiallyCommitted(s, i)}
       IN  snap' = [snap EXCEPT
              ![s].copy[k] = {i \in good : \A j \in good : i.at <= j.at},
              ![s].todo    = @ \ {k},
              ![s].blurred = IF skip # {} THEN @ \cup {k} ELSE @,
              ![s].pc      = IF snap[s].todo = {k} THEN "open" ELSE "copy"]
    /\ UNCHANGED vars

(* fdb_kvs_close on the snapshot handle. *)
SnapshotClose(s) ==
    /\ snap[s].pc = "open"
    /\ snap' = [snap EXCEPT ![s] = Closed]
    /\ UNCHANGED vars

(* fdb_get on the snapshot: _wal_snap_find, then the index root it keeps.      *)
SnapGet(s, k) ==
    IF snap[s].copy[k] # {} THEN ItemValue(CHOOSE i \in snap[s].copy[k] : TRUE)
    ELSE Value(snap[s].root[k])

----------------------------------------------------------------------------
(* A step of a writer, seen by the snapshots that are being opened.            *)
WriterMoves ==
    /\ WriterCall \/ WriterStep
    /\ snap' = [s \in Snaps |->
          IF ~Opening(s) THEN snap[s]
          ELSE [snap[s] EXCEPT
                  !.changed = @ \cup {k \in Keys :
                      Current(snap[s].txn, k, latest', mine') # snap[s].expect[k]},
                  !.moved = @ \cup {k \in Keys :
                      ListOf(k)' # ListOf(k) \/ hdr'[k] # hdr[k] \/ dirty'[k] # dirty[k]}]]

OpenStep(s) ==
    \/ SnapshotDirtyRoot(s)
    \/ WalDurSnapshotOpen(s)
    \/ \E k \in Keys : WalCopyToSnapshot(s, k)

SNext ==
    \/ WriterMoves
    \/ \E s \in Snaps, t \in Contexts : SnapshotOpenHeader(s, t)
    \/ \E s \in Snaps : OpenStep(s)
    \/ \E s \in Snaps : SnapshotClose(s)

SSpec == SInit /\ [][SNext]_svars

----------------------------------------------------------------------------
(* Properties. *)

STypeOK ==
    /\ TypeOK
    /\ \A s \in Snaps :
          /\ snap[s].pc \in {"closed", "dirty", "init", "copy", "open"}
          /\ snap[s].txn \in Contexts /\ snap[s].seq \in 0 .. last
          /\ snap[s].root \in Trees \cup {NoRoot} /\ snap[s].active \subseteq Txns
          /\ \A k \in Keys : snap[s].copy[k] \subseteq Item
          /\ snap[s].pc = "open" => snap[s].todo = {} /\ snap[s].root \in Trees

(* A snapshot, opened while writers insert, commit and flush, has the value    *)
(* its opener would have read for every key whose WAL list and index entry     *)
(* stayed as they were, and that no unfinished transaction has committed: of   *)
(* several items of a key it takes the right one, and nothing uncommitted of   *)
(* another transaction.                                                        *)
SnapshotExact ==
    \A s \in Snaps : snap[s].pc = "open" =>
        \A k \in Keys \ (snap[s].moved \cup snap[s].blurred) : SnapGet(s, k) = snap[s].expect[k]

(* "It ... carries the latest version of all the keys at the point of the      *)
(* snapshot": a key whose value did not change while the snapshot was opened   *)
(* has that value in the snapshot, though a flush moved it from WAL to index.  *)
SnapshotSurvivesFlush ==
    \A s \in Snaps : snap[s].pc = "open" =>
        \A k \in Keys \ (snap[s].changed \cup snap[s].blurred) : SnapGet(s, k) = snap[s].expect[k]
=============================================================================
