----------------------------- MODULE MCStorage -----------------------------
(***************************************************************************)
(* The modules of the file layer side by side, one run for all of them.    *)
(* load says which one runs; the state of the others never changes.        *)
(*   reuse         BlockReuse;                                             *)
(*   append, scan  DocIO: several handles append and nobody reads, or one  *)
(*                 handle appends while another one reads;                 *)
(***************************************************************************)
EXTENDS BlockReuse, DocIO

CONSTANT Loads

VARIABLE load

-----------------------------------------------------------------------------
(* BlockReuse.  ReuseNext leaves out the steps that the observations on     *)
(* rollback in the README start from, and LastCommitSound cuts behaviours   *)
(* where the finding on last_commit has happened: what follows is not       *)
(* explored.                                                                *)

\* file->last_commit is the end of the file unless a block is reusable.
LastCommitSound ==
    file.sb.cur = NF /\ pc = "run" /\ hd.unc = 0 /\ ~hd.pend
      => file.lastCommit >= hd.bid

\* The header rolled back to was committed before anything in the stale list
\* became stale, and no block was reclaimed since.
RollbackSound ==
    /\ (Some(hd'.root) \cup Some(hd'.idx) \cup Some(hd'.wal)) \cap file.stale = {}
    /\ {e \in hd'.tree : e[1] < hd'.rollback} \subseteq file.info
    /\ \A b \in Blk : disk[b].k = "hdr" /\ disk[b].rev = hd'.rollback
                        => Intact(disk, disk[b].need)

\* A crash after a reclaim has written to a reclaimed block, and before its
\* superblock and header are written, leaves older headers reachable that are
\* no longer intact: they are not opened here.
OpenedSound(x) == Intact(disk, snap'[x].need)

ReuseNext ==
    \/ Set \/ SetFlush \/ Commit \/ CommitNoFlush \/ CommitSb \/ CommitHdr
    \/ KvsCreate \/ RollbackCommit \/ Crash \/ Close \/ Open
    \/ Rollback /\ RollbackSound
    \/ \E x \in Snaps : SnapOpen(x) /\ OpenedSound(x)
    \/ \E x \in Snaps : SnapClose(x)

-----------------------------------------------------------------------------
(* DocIO. *)
Appenders == IF load = "scan" THEN {CHOOSE x \in Handles : TRUE} ELSE Handles
Appending ==
    \/ /\ load = "scan" => docs[MaxDoc - 1] = NoDoc
       /\ \E x \in Appenders, size \in Sizes : docio_append_doc(x, size)
    \/ DCommit
Staling ==
    \/ \E d \in 1 .. MaxDoc : MarkStale(d)
    \/ load = "append" /\ \E x \in Handles : docio_init(x)
    \/ rd.pc = "idle" /\ DReclaim

\* A block just read does not change before the check whether it can, and no
\* block is reclaimed while a read is under way: the headers kept by
\* num_keeping_headers cover it.
DocNext ==
    \/ rd.pc # "check" /\ Appending
    \/ load = "scan" /\ DReaderStep
    \/ Staling

-----------------------------------------------------------------------------
StorageInit == Init /\ DInit /\ load \in Loads
StorageNext ==
    \/ load = "reuse" /\ ReuseNext /\ UNCHANGED <<dvars, load>>
    \/ load \in {"append", "scan"} /\ DocNext /\ UNCHANGED <<vars, load>>
StorageSpec == StorageInit /\ [][StorageNext]_<<vars, dvars, load>>

\* The type invariants of the two modules.
StorageTypeOK == TypeOK /\ DTypeOK
=============================================================================
