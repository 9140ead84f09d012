------------------------------ MODULE MCFiles ------------------------------
(***************************************************************************)
(* Files for TLC.  A workload chooses which threads run and what can go    *)
(* wrong.                                                                  *)
(***************************************************************************)
EXTENDS Files

CONSTANT Loads
VARIABLE load
mcvars == <<fvars, load>>

Runs(t) == \/ load = "apps" /\ t \in App
           \/ load # "apps" /\ t \in Daemon
           \/ load # "apps" /\ t = CHOOSE a \in App : TRUE

\* Five schedules the code does not exclude, each of which loses the current
\* file (see the README): a compaction replaces the file whose name another
\* thread has just looked up; the metafile is looked up, or another name is
\* stored in it, while the store of a newly registered file is pending; a
\* daemon picks the file a user's compaction has just switched to, whose flag
\* that compaction is still going to clear; a commit is made on a file that a
\* recovery has linked to itself; and a compaction up to a marker fails, or the
\* process ends, after it has committed the new file.
Ending == {"cstore", "remove", "cclose", "cend"}
Quiet(t) ==
    /\ t \in Daemon /\ thr[t].pc = "idle" => \A u \in App : thr[u].pc \notin Ending
    /\ thr[t].pc = "remove" => \A u \in Thread : thr[u].pc # "fopen"
    /\ thr[t].pc \in {"switch", "idle", "open"} => \A u \in Thread : thr[u].pc # "store"
Partial(t) == thr[t].nf # 0 /\ hdr[inst[thr[t].nf].ino] # Empty
SelfLinked(i) == inst[i].nw = inst[i].name

Commit(t) == /\ thr[t].h # 0 /\ ~ SelfLinked(thr[t].h)
             /\ load = "daemon" => ncommit = 0
             /\ fdb_commit(t)

MCInit == FInit /\ load \in Loads
MCNext ==
    \/ UNCHANGED load /\ \E t \in Thread : Runs(t) /\ Quiet(t) /\ OpenName(t)
    \/ UNCHANGED load /\ \E t \in Thread : OpenFile(t)
    \/ UNCHANGED load /\ \E t \in Thread : RecoverFile(t)
    \/ UNCHANGED load /\ \E t \in Thread : Register(t)
    \/ UNCHANGED load /\ \E t \in Thread : StoreMeta(t)
    \/ UNCHANGED load /\ \E t \in Thread : fdb_close(t)
    \/ UNCHANGED load /\ \E t \in Thread : fdb_check_file_reopen(t)
    \/ UNCHANGED load /\ \E t \in Thread : CloseFile(t)
    \/ UNCHANGED load /\ \E t \in Thread : Commit(t)
    \/ UNCHANGED load /\ \E t \in Thread : fdb_compact(t) /\ (load = "apps" \/ ~ thr'[t].up)
    \/ UNCHANGED load /\ \E t \in Thread : CompactBegin(t)
    \/ UNCHANGED load /\ \E t \in Thread : AlreadyCompacted(t)
    \/ UNCHANGED load /\ \E t \in Thread : CommitUpto(t)
    \/ UNCHANGED load /\ load # "crash" /\ \E t \in Thread : ~ Partial(t) /\ CompactFail(t)
    \/ UNCHANGED load /\ \E t \in Thread : CompactFinish(t)
    \/ UNCHANGED load /\ \E t \in Thread : Quiet(t) /\ SwitchFile(t)
    \/ UNCHANGED load /\ \E t \in Thread : StoreSwitched(t)
    \/ UNCHANGED load /\ \E t \in Thread : Quiet(t) /\ RemoveOld(t)
    \/ UNCHANGED load /\ \E t \in Thread : CloseOld(t)
    \/ UNCHANGED load /\ \E t \in Thread : CompactEnd(t)
    \/ UNCHANGED load /\ \E t \in Daemon : Runs(t) /\ Quiet(t) /\ DPick(t)
    \/ UNCHANGED load /\ \E t \in Daemon : Runs(t) /\ DDrop(t)
    \/ UNCHANGED load /\ \E t \in Daemon : DRead(t)
    \/ UNCHANGED load /\ \E t \in Daemon : DCmp(t)
    \/ UNCHANGED load /\ \E t \in Daemon : DOpenFail(t)
    \/ UNCHANGED load /\ \E t \in Daemon : DName(t)
    \/ UNCHANGED load /\ \E t \in Daemon : DClose(t)
    \/ UNCHANGED load /\ \E t \in Daemon : Runs(t) /\ DRemove(t)
    \/ UNCHANGED load /\ \E t \in Daemon : DFree(t)
    \/ UNCHANGED load /\ load = "crash" /\ Crash
    \/ UNCHANGED load /\ Fault
MCSpec == MCInit /\ [][MCNext]_mcvars
=============================================================================
