---------------------------- MODULE MCCompaction ----------------------------
(* Compaction with a choice of workloads, and without the schedules whose     *)
(* outcome README.md describes as observations: a transaction that commits    *)
(* during the compaction is alone in an earlier block, handles write          *)
(* different keys, a marker's WAL has one document for a key and no commit    *)
(* marks, no marker is older than a rollback, no transaction commits without  *)
(* updates, and a callback's time is not used for writing.                    *)
EXTENDS Compaction

CONSTANTS wa, wb, k1, k2, k3, Loads
VARIABLE load

MCKeysOf == [w \in Writer |-> IF w = wa THEN {k1, k2} ELSE Key \ {k1, k2}]

(* The commit marks of w lie behind a header that is behind their documents. *)
MarksApart(w) == Compacting =>
    /\ Len(txn[w].items) = 1
    /\ txn[w].items[1][1] < LastHdr

(* No key has two documents between the WAL flush of header m and m. *)
NoMarks == \A b1 \in 1..Len(blk) : \A i \in 1..Len(blk[b1].docs) : At(<<b1, i>>).type # "mark"
OneEach(m) == NoMarks /\ \A l1, l2 \in (blk[m].lwf + 1..m - 1) \X (1..BlockCap) :
    l1 # l2 /\ l1[2] <= Len(blk[l1[1]].docs) /\ l2[2] <= Len(blk[l2[1]].docs) => At(l1).key # At(l2).key

(* Deletions and cancellations are left to the workloads that are small       *)
(* enough for them; without deletions the purging interval is of no interest. *)
MCConfigs == [purging_interval : {0, 1}, move_cb : BOOLEAN]
ConfigsOf(l) == {c \in Configs : c.move_cb = (l = "callback")
                                 /\ (l \notin {"plain", "upto"} => c.purging_interval = 0)}
MCInit == CoInit /\ load \in Loads /\ config \in ConfigsOf(load)

WritersOf(l) == IF l = "txn" THEN Writer ELSE {wa}

(* Nobody writes while the callback of the last round runs. *)
Quiet == cp.pc # "callback"

MCNext ==
    \/ \E w \in WritersOf(load), d \in BOOLEAN : \E k \in KeysOf[w] :
          /\ UNCHANGED load /\ Quiet
          /\ (w # wa => txn[w].on) /\ (d => k = k1) /\ (load = "txn" => k # k2)
          /\ (load \notin {"plain", "upto"} => ~d)
          /\ fdb_set(w, k, d)
    \/ \E w \in WritersOf(load) \ {wa} : UNCHANGED load /\ Quiet /\ fdb_begin_transaction(w)
    \/ \E w \in WritersOf(load) \ {wa} : UNCHANGED load /\ txn[w].items # <<>> /\ fdb_abort_transaction(w)
    \/ \E w \in WritersOf(load) \ {wa}, f \in BOOLEAN :
          UNCHANGED load /\ txn[w].items # <<>> /\ MarksApart(w) /\ fdb_end_transaction(w, f)
    \/ \E f \in BOOLEAN : UNCHANGED load /\ Quiet /\ fdb_commit(f)
    \/ UNCHANGED load /\ load = "rollback" /\ RollbackBegin
    \/ \E h \in Headers : UNCHANGED load /\ RollbackEnd(h)
    \/ UNCHANGED load /\ load = "plain" /\ CancelBegin
    \/ UNCHANGED load /\ CancelEnd
    \/ UNCHANGED load /\ CompactBegin(0)
    \/ \E m \in Headers : UNCHANGED load /\ load \in {"upto", "txn"} /\ OneEach(m) /\ CompactBegin(m)
    \/ UNCHANGED load /\ MoveDocsBegin
    \/ UNCHANGED load /\ MoveDocs
    \/ UNCHANGED load /\ MoveWalDocs
    \/ UNCHANGED load /\ MoveWalDocsEnd
    \/ UNCHANGED load /\ CommitMarker
    \/ UNCHANGED load /\ DeltaSync
    \/ UNCHANGED load /\ DeltaLock
    \/ UNCHANGED load /\ MoveDelta
    \/ UNCHANGED load /\ MoveDeltaHeader
    \/ UNCHANGED load /\ AppendBatchedDelta
    \/ UNCHANGED load /\ DeltaCallback
    \/ UNCHANGED load /\ MoveDeltaEnd
    \/ UNCHANGED load /\ CompactEnd

(* Without those restrictions, and with the scheduling the thread of the      *)
(* compaction can count on.                                                   *)
MCFairSpec ==
    /\ CoInit /\ load = "any"
    /\ [][CoNext /\ UNCHANGED load]_<<covars, load>>
    /\ WF_covars(CompactorStep)

MCSpec == MCInit /\ [][MCNext]_<<covars, load>>
=============================================================================
