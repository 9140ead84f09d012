------------------------------- MODULE Files -------------------------------
(***************************************************************************)
(* The files of one database in automatic compaction mode: their names on  *)
(* disk (db.0, db.1, ... and the metafile that names the current one), the *)
(* filemgr instances that are open on them, and the compactor's registry   *)
(* of elements with its daemon threads.                                    *)
(*                                                                         *)
(* Application threads open, commit to, compact and close the database;    *)
(* daemon threads compact it in the background and close files that were   *)
(* replaced.  What a compaction copies is one step here: a file's data is  *)
(* the set of commits it holds.  A step is what runs under one lock.       *)
(***************************************************************************)
EXTENDS FiniteSetsExt, Integers

CONSTANTS App, Daemon,  \* application threads, compactor threads
          MaxName,      \* bound: the largest compaction number
          MaxInst,      \* bound: filemgr instances and inodes at a time
          MaxElem,      \* bound: elements of the registry at a time
          MaxCommit,    \* bound: commits
          MaxFail,      \* bound: compactions and opens that fail
          MaxCrash,     \* bound: crashes of the process
          Torn,         \* whether a crash can damage the metafile it writes
          Upto          \* whether applications call fdb_compact_upto

ASSUME FilesAssumption ==
    /\ {MaxName, MaxInst, MaxElem, MaxCommit} \subseteq Nat \ {0}
    /\ {MaxFail, MaxCrash} \subseteq Nat /\ {Torn, Upto} \subseteq BOOLEAN
    /\ App \cap Daemon = {}

VARIABLES dir,     \* name -> the inode linked under it, 0 if none
          hdr,     \* inode -> its last header
          meta,    \* the name in the metafile, None if it cannot be read
          inst,    \* instance -> struct filemgr
          elem,    \* element -> struct openfiles_elem
          thr,     \* thread -> where it is
          ncommit, nfail, ncrash

fvars == <<dir, hdr, meta, inst, elem, thr, ncommit, nfail, ncrash>>

Names == 0 .. MaxName
None == -1
Insts == 1 .. MaxInst
Elems == 1 .. MaxElem
Thread == App \cup Daemon

\* A DB header: the commits in the file, new_filename and old_filename.
Empty == [has |-> {}, nw |-> None, od |-> None]
\* struct filemgr: st is file->status, or "none" (not allocated) or "gone"
\* (taken out of the hash, waiting for its removal).
NoInst == [name |-> None, ino |-> 0, ref |-> 0, st |-> "none", nw |-> None, od |-> None,
           rip |-> FALSE]
InHash == {"normal", "old", "new", "pending", "closed"}
NoElem == [name |-> None, file |-> 0, count |-> 0, cflag |-> FALSE, dflag |-> FALSE,
           rem |-> FALSE, live |-> FALSE]
\* A thread: its handle h, the file it compacts from and to, the element a
\* daemon holds and its copy of elem->file, the name it is working with, and
\* where it continues after opening or closing a file.
Idle == [pc |-> "idle", h |-> 0, of |-> 0, nf |-> 0, e |-> 0, fp |-> 0, n |-> None,
         ret |-> "idle", up |-> FALSE]

\* The part of the state the helpers below work on.
World == [dir |-> dir, hdr |-> hdr, inst |-> inst, elem |-> elem]
Become(w) == dir' = w.dir /\ hdr' = w.hdr /\ inst' = w.inst /\ elem' = w.elem
Go(t, pc) == thr' = [thr EXCEPT ![t].pc = pc]

-----------------------------------------------------------------------------
(* The compactor's registry (compactor.cc). *)

\* avl_search of a name; 0 if it is not in the tree.
Search(w, n) ==
    LET S == {e \in Elems : w.elem[e].live /\ w.elem[e].name = n}
    IN  IF S = {} THEN 0 ELSE CHOOSE e \in S : TRUE
FreeElem(w, e) == [w EXCEPT !.elem[e] = NoElem]
FreshElem(w) == Min({e \in Elems : ~ w.elem[e].live /\ \A t \in Thread : thr[t].e # e})
HasElem(w) == \E e \in Elems : ~ w.elem[e].live /\ \A t \in Thread : thr[t].e # e

\* The last handle of a file: the element goes, unless a daemon is at work.
DeregisterAlways(w, i) ==
    LET e == Search(w, w.inst[i].name)
    IN  IF e = 0
        THEN w
        ELSE IF w.elem[e].count > 1
        THEN [w EXCEPT !.elem[e].count = @ - 1]
        ELSE FreeElem(w, e)
compactor_deregister_file(w, i) ==
    LET e == Search(w, w.inst[i].name)
    IN  IF e = 0
        THEN w
        ELSE IF w.elem[e].count > 1 \/ ~ w.elem[e].dflag
        THEN DeregisterAlways(w, i)
        ELSE [w EXCEPT !.elem[e].count = 0, !.elem[e].file = 0]

\* Nothing is registered for a file that is being or has been compacted.
Ignored(w, i) == w.inst[i].st \in {"old", "pending"}
compactor_register_file(w, i) ==
    LET e == Search(w, w.inst[i].name)
    IN  IF Ignored(w, i)
        THEN w
        ELSE IF e # 0
        THEN [w EXCEPT !.elem[e].file = IF @ = 0 THEN i ELSE @,
                       !.elem[e].count = @ + 1]
        ELSE [w EXCEPT !.elem[FreshElem(w)] =
                 [NoElem EXCEPT !.name = w.inst[i].name, !.file = i, !.count = 1,
                                !.live = TRUE]]

\* A file to be closed by a daemon thread gets an element of its own.
compactor_register_file_removing(w, i) ==
    IF Search(w, w.inst[i].name) # 0
    THEN w
    ELSE [w EXCEPT !.inst[i].rip = TRUE,
                   !.elem[FreshElem(w)] =
                       [name |-> w.inst[i].name, file |-> i, count |-> 1, cflag |-> TRUE,
                        dflag |-> TRUE, rem |-> FALSE, live |-> TRUE]]

\* The element of the old file becomes the new file's.  avl_insert does not
\* insert it next to another one of that name.
compactor_switch_file(w, i, j) ==
    LET e == Search(w, w.inst[i].name)
    IN  IF e = 0
        THEN w
        ELSE IF Search(w, w.inst[j].name) # 0
        THEN FreeElem(w, e)
        ELSE [w EXCEPT !.elem[e] =
                 [name |-> w.inst[j].name, file |-> j, count |-> 1, cflag |-> FALSE,
                  dflag |-> FALSE, rem |-> @.rem, live |-> TRUE]]

\* The metafile's name if that file exists, else the largest number found in
\* the directory, else number 0.
ReadMetafile == IF meta # None /\ dir[meta] # 0 THEN meta ELSE None
compactor_get_actual_filename ==
    IF ReadMetafile # None
    THEN ReadMetafile
    ELSE Max({0} \cup {n \in Names : dir[n] # 0})

NextFree(n) == {m \in Names : m > n /\ dir[m] = 0}
compactor_get_next_filename(n) == Min(NextFree(n))

-----------------------------------------------------------------------------
(* filemgr instances (filemgr.cc). *)

Find(w, n) ==
    LET S == {i \in Insts : w.inst[i].st \in InHash /\ w.inst[i].name = n}
    IN  IF n = None \/ S = {} THEN 0 ELSE CHOOSE i \in S : TRUE

Linked(w) == {w.dir[n] : n \in Names}

\* Nobody points to a freed instance any more: its memory can be used again.
Unused(w, i) ==
    /\ \A t \in Thread : i \notin {thr[t].h, thr[t].of, thr[t].nf, thr[t].fp}
    /\ \A e \in Elems : w.elem[e].file # i
FreshInsts(w) == {i \in Insts : w.inst[i].st = "none" /\ Unused(w, i)}
FreshInos(w) == Insts \ (Linked(w) \cup {w.inst[i].ino : i \in Insts})
\* An unlinked inode goes with the last descriptor on it.
filemgr_free_func(w, i) ==
    [w EXCEPT !.inst[i] = NoInst,
              !.hdr[w.inst[i].ino] = IF w.inst[i].ino \in Linked(w) THEN @ ELSE Empty]

\* A new struct filemgr on the file of that name, which is created if it does
\* not exist.
NewInst(w, n, k) ==
    [w EXCEPT !.dir[n] = k,
              !.hdr[k] = IF w.dir[n] = k THEN @ ELSE Empty,
              !.inst[Min(FreshInsts(w))] = [NoInst EXCEPT !.name = n, !.ino = k, !.ref = 1,
                                                          !.st = "normal"]]
Create(w, n) == NewInst(w, n, IF w.dir[n] # 0 THEN w.dir[n] ELSE Min(FreshInos(w)))
Closed(w, n) == Find(w, n) # 0 /\ w.inst[Find(w, n)].st = "closed"

\* Whether filemgr_open gives an instance: without O_CREAT the file must exist.
CanOpen(w, n, create) ==
    create \/ w.dir[n] # 0 \/ (Find(w, n) # 0 /\ ~ Closed(w, n))
filemgr_open(w, n) ==
    LET i == Find(w, n)
    IN  IF i = 0
        THEN Create(w, n)
        ELSE IF ~ Closed(w, n)
        THEN [w EXCEPT !.inst[i].ref = @ + 1]
        ELSE IF w.dir[n] # 0
        THEN [w EXCEPT !.inst[i].ref = @ + 1, !.inst[i].st = "normal"]
        ELSE Create(filemgr_free_func(w, i), n)

\* The last reference: a file to be removed leaves the hash and is handed to
\* the compactor, any other one is closed; its instance is freed if the cache
\* is to be cleaned up, and kept otherwise.
CloseLastInHash(w, i, cleanup) ==
    IF w.inst[i].st = "pending"
    THEN compactor_register_file_removing(w, i)
    ELSE [w EXCEPT !.inst[i].st = "closed"]
CloseLast(w, i, cleanup) ==
    CASE w.inst[i].st = "pending" ->
             compactor_register_file_removing([w EXCEPT !.inst[i].st = "gone"], i)
      [] w.inst[i].st # "pending" /\ cleanup -> filemgr_free_func(w, i)
      [] OTHER -> [w EXCEPT !.inst[i].st = "closed"]
CloseAlways(w, i, cleanup) == CloseLast([w EXCEPT !.inst[i].ref = @ - 1], i, cleanup)
filemgr_close(w, i, cleanup) ==
    IF w.inst[i].ref > 1
    THEN [w EXCEPT !.inst[i].ref = @ - 1]
    ELSE CloseAlways(w, i, cleanup)

\* The file is replaced by j's: unlinked now, closed with its last handle.
filemgr_remove_pending(w, i, j) ==
    [w EXCEPT !.inst[i].nw = w.inst[j].name, !.inst[i].st = "pending",
              !.dir[w.inst[i].name] = 0,
              !.inst[j].od = w.inst[i].name]

\* What a commit of the file writes into its header.
Header(w, i) == [has |-> w.hdr[w.inst[i].ino].has, nw |-> w.inst[i].nw, od |-> w.inst[i].od]
filemgr_commit(w, i) == [w EXCEPT !.hdr[w.inst[i].ino] = Header(w, i)]
-----------------------------------------------------------------------------
(* Opening a file (_fdb_open and what it calls). *)

\* _fdb_open of a file read-only, by name, up to its registration: linkage
\* from its header, and the file it replaces is unlinked on its first open.
Prev(w, i) == w.hdr[w.inst[i].ino].od
RemovePrev(w, i) ==
    LET p == Prev(w, i)
        v == [w EXCEPT !.inst[i].od = p]
    IN  IF ~ CanOpen(v, p, FALSE)
        THEN v
        ELSE LET x == filemgr_open(v, p)
             IN  filemgr_close(filemgr_remove_pending(x, Find(x, p), i), Find(x, p), FALSE)
LinkPrev(w, i) ==
    IF Prev(w, i) \in {None, w.inst[i].name} \/ w.inst[i].od # None
    THEN w
    ELSE RemovePrev(w, i)
Link(w, i, nw) == IF nw = None THEN w ELSE [w EXCEPT !.inst[i].nw = nw]
OpenTail(w, i) == LinkPrev(Link(w, i, w.hdr[w.inst[i].ino].nw), i)

\* The file named by the header was compacted to completely if it says so
\* itself: the handle moves there and the old file is removed.  Otherwise the
\* new file is removed.  Result: the state, and the file of the handle.
RecoveredAlwaysNew(w, i, j) ==
    [w |-> filemgr_close(filemgr_remove_pending(w, i, j), i, FALSE), i |-> j]
Recovered(w, i, j) ==
    IF w.inst[j].od = w.inst[i].name
    THEN [w |-> filemgr_close(filemgr_remove_pending(w, i, j), i, FALSE), i |-> j]
    ELSE [w |-> filemgr_close(filemgr_remove_pending(w, j, i), j, TRUE), i |-> i]
OpenedNew(w, n) == OpenTail(filemgr_open(w, n), Find(filemgr_open(w, n), n))
Recover1(w, i, n) == Recovered(w, i, Find(w, n))
fdb_recover_compaction(w, i, n) == Recover1(OpenedNew(w, n), i, n)

-----------------------------------------------------------------------------
(* The steps of the threads. *)

FInit ==
    /\ dir = [n \in Names |-> 0] /\ hdr = [k \in Insts |-> Empty] /\ meta = None
    /\ inst = [i \in Insts |-> NoInst] /\ elem = [e \in Elems |-> NoElem]
    /\ thr = [t \in Thread |-> Idle]
    /\ ncommit = 0 /\ nfail = 0 /\ ncrash = 0

At(t, pc) == thr[t].pc = pc
Status(i) == inst[i].st
Counters == <<ncommit, nfail, ncrash>>

\* Room for what a step may allocate (the bounds).
Room == /\ Cardinality(FreshInsts(World)) >= 2 /\ Cardinality(FreshInos(World)) >= 2
        /\ Cardinality({e \in Elems : ~ elem[e].live}) > Cardinality(Daemon)

\* A lock held over several steps: the writer locks at the end of a compaction.
LockedOldOnly(i) == \E t \in Thread :
    thr[t].pc \in {"switch", "cstore", "remove"} /\ i = thr[t].of
Locked(i) == \E t \in Thread :
    \/ thr[t].pc \in {"switch", "cstore", "remove"} /\ i \in {thr[t].of, thr[t].h}
    \/ thr[t].pc = "cclose" /\ i = thr[t].h

\* fdb_open, and a handle that is opened again: the name of the current file.
OpenName(t) ==
    /\ At(t, "open") \/ (t \in App /\ At(t, "idle") /\ thr[t].h = 0)
    /\ thr' = [thr EXCEPT ![t].pc = "fopen", ![t].n = compactor_get_actual_filename]
    /\ UNCHANGED <<dir, hdr, meta, inst, elem, Counters>>

OpenFile(t) ==
    /\ At(t, "fopen") /\ Room
    /\ Become(filemgr_open(World, thr[t].n))
    /\ thr' = [thr EXCEPT ![t].pc = "recover",
                          ![t].h = Find(filemgr_open(World, thr[t].n), thr[t].n),
                          ![t].n = None]
    /\ UNCHANGED <<meta, Counters>>

\* The rest of _fdb_open: recovery of an interrupted compaction, linkage, and
\* the removal of the file this one replaced.
Recovery(w, i, nw) ==
    IF nw = None \/ w.inst[i].st # "normal"
    THEN [w |-> w, i |-> i]
    ELSE fdb_recover_compaction(w, i, nw)
LinkFile(r, nw, t) ==
    /\ Become(LinkPrev(Link(r.w, r.i, nw), r.i))
    /\ thr' = [thr EXCEPT ![t].pc = "register", ![t].h = r.i]
RecoverFile(t) ==
    /\ At(t, "recover") /\ Room
    /\ LET nw == hdr[inst[thr[t].h].ino].nw
       IN  LinkFile(Recovery(World, thr[t].h, nw), nw, t)
    /\ UNCHANGED <<meta, Counters>>

\* Under cpt_lock; the metafile is stored after its release.
Register(t) ==
    /\ At(t, "register") /\ Room
    /\ Become(compactor_register_file(World, thr[t].h))
    /\ Go(t, IF Ignored(World, thr[t].h) \/ Search(World, inst[thr[t].h].name) # 0
             THEN thr[t].ret ELSE "store")
    /\ UNCHANGED <<meta, Counters>>
StoreMeta(t) ==
    /\ At(t, "store")
    /\ meta' = inst[thr[t].h].name /\ Go(t, thr[t].ret)
    /\ UNCHANGED <<dir, hdr, inst, elem, Counters>>

\* _fdb_close: the registry first, then the file.
Deregister(t, next) ==
    /\ Become(compactor_deregister_file(World, thr[t].h))
    /\ thr' = [thr EXCEPT ![t].pc = "fclose", ![t].ret = next]
    /\ UNCHANGED <<meta, Counters>>
fdb_close(t) == t \in App /\ At(t, "idle") /\ thr[t].h # 0 /\ Deregister(t, "idle")
\* A handle on a file that was replaced is closed and opened again.
fdb_check_file_reopen(t) ==
    /\ t \in App /\ At(t, "idle") /\ thr[t].h # 0 /\ Status(thr[t].h) = "pending"
    /\ Deregister(t, "open")
\* The cache is cleaned up by default, but not by the daemon's handles.
CloseFile(t) ==
    /\ At(t, "fclose") /\ Room
    /\ Become(filemgr_close(World, thr[t].h, t \in App))
    /\ thr' = [thr EXCEPT ![t] = [Idle EXCEPT !.pc = thr[t].ret]]
    /\ UNCHANGED <<meta, Counters>>

\* fdb_commit of the next change.
fdb_commit(t) ==
    /\ t \in App /\ At(t, "idle") /\ thr[t].h # 0 /\ ncommit < MaxCommit
    /\ Status(thr[t].h) # "pending" /\ ~ Locked(thr[t].h)
    /\ LET k == inst[thr[t].h].ino
       IN  hdr' = [filemgr_commit(World, thr[t].h).hdr EXCEPT ![k].has = @ \cup {ncommit + 1}]
    /\ ncommit' = ncommit + 1
    /\ UNCHANGED <<dir, meta, inst, elem, thr, nfail, ncrash>>

-----------------------------------------------------------------------------
(* Compaction (_fdb_compact, fdb_compact_file, _fdb_compact_file). *)

\* fdb_compact or fdb_compact_upto: refused while the file's flag is set.
fdb_compact(t) ==
    LET e == Search(World, inst[thr[t].h].name)
    IN  /\ t \in App /\ At(t, "idle") /\ thr[t].h # 0
        /\ e # 0 /\ ~ elem[e].cflag /\ NextFree(inst[thr[t].h].name) # {}
        /\ elem' = [elem EXCEPT ![e].cflag = TRUE]
        /\ \E up \in {FALSE, Upto} :
               thr' = [thr EXCEPT ![t].pc = "begin", ![t].ret = "cend", ![t].up = up,
                                  ![t].n = compactor_get_next_filename(inst[thr[t].h].name)]
        /\ UNCHANGED <<dir, hdr, meta, inst, Counters>>

\* Under the old file's writer lock: checks, the new file, and a commit of the
\* old file whose header names the new one.
Compactable(i) == Status(i) = "normal" /\ inst[i].nw = None
BeginOn(w, i, j) ==
    filemgr_commit([w EXCEPT !.inst[i].st = "old", !.inst[i].nw = w.inst[j].name,
                             !.inst[j].st = "new", !.inst[j].od = w.inst[i].name], i)
Begin(w, i, n) == BeginOn(filemgr_open(w, n), i, Find(filemgr_open(w, n), n))
CompactBegin(t) ==
    /\ At(t, "begin") /\ Room /\ ~ Locked(thr[t].h) /\ Compactable(thr[t].h)
    /\ Become(Begin(World, thr[t].h, thr[t].n))
    /\ thr' = [thr EXCEPT ![t].pc = "move", ![t].of = thr[t].h, ![t].n = None,
                          ![t].nf = Find(filemgr_open(World, thr[t].n), thr[t].n)]
    /\ UNCHANGED <<meta, Counters>>
AlreadyCompacted(t) ==
    /\ At(t, "begin") /\ ~ Locked(thr[t].h) /\ ~ Compactable(thr[t].h)
    /\ Go(t, thr[t].ret)
    /\ UNCHANGED <<dir, hdr, meta, inst, elem, Counters>>

\* fdb_compact_upto commits the new file at each header after the marker,
\* while the documents up to there are copied.
CommitUpto(t) ==
    /\ At(t, "move") /\ thr[t].up
    /\ \E c \in SUBSET hdr[inst[thr[t].of].ino].has :
          /\ \A a \in c : 1 .. a \subseteq c
          /\ hdr' = [hdr EXCEPT ![inst[thr[t].nf].ino] =
                        [has |-> c, nw |-> None, od |-> inst[thr[t].nf].od]]
    /\ thr' = [thr EXCEPT ![t].up = FALSE]
    /\ UNCHANGED <<dir, meta, inst, elem, Counters>>

\* A failed or cancelled copy: the new file is closed as REMOVED_PENDING, and
\* the old file is a normal one again.
Cleanup(w, i, j) ==
    filemgr_close([w EXCEPT !.inst[j].st = "pending", !.inst[i].st = "normal",
                            !.inst[i].nw = None], j, TRUE)
CompactFail(t) ==
    /\ At(t, "move") /\ nfail < MaxFail /\ Room
    /\ Become(Cleanup(World, thr[t].of, thr[t].nf))
    /\ nfail' = nfail + 1
    /\ thr' = [thr EXCEPT ![t].pc = thr[t].ret, ![t].of = 0, ![t].nf = 0, ![t].up = FALSE]
    /\ UNCHANGED <<meta, ncommit, ncrash>>

\* Both writer locks: the last documents, a commit of the old file, the handle
\* moves, a commit of the new file.
FinishOn(w, i, j) ==
    filemgr_commit([w EXCEPT !.hdr[w.inst[j].ino].has = w.hdr[w.inst[i].ino].has,
                             !.inst[j].st = "normal"], j)
CompactFinish(t) ==
    /\ At(t, "move") /\ ~ Locked(thr[t].of)
    /\ Become(FinishOn(filemgr_commit(World, thr[t].of), thr[t].of, thr[t].nf))
    /\ thr' = [thr EXCEPT ![t].pc = "switch", ![t].h = thr[t].nf, ![t].up = FALSE]
    /\ UNCHANGED <<meta, Counters>>
SwitchFile(t) ==
    /\ At(t, "switch")
    /\ Become(compactor_switch_file(World, thr[t].of, thr[t].nf))
    /\ Go(t, IF Search(World, inst[thr[t].of].name) # 0 THEN "cstore" ELSE "remove")
    /\ UNCHANGED <<meta, Counters>>
StoreSwitched(t) ==
    /\ At(t, "cstore")
    /\ meta' = inst[thr[t].nf].name /\ Go(t, "remove")
    /\ UNCHANGED <<dir, hdr, inst, elem, Counters>>

\* Files that were replaced by the old one now lead to the new one.
filemgr_redirect_old_file(w, i, j) ==
    [w EXCEPT !.inst = [k \in Insts |->
        IF w.inst[k].st = "pending" /\ w.inst[k].nw = w.inst[i].name
        THEN [w.inst[k] EXCEPT !.nw = w.inst[j].name] ELSE w.inst[k]]]
RemoveOld(t) ==
    /\ At(t, "remove")
    /\ Become(filemgr_remove_pending(filemgr_redirect_old_file(World, thr[t].of, thr[t].nf),
                                     thr[t].of, thr[t].nf))
    /\ Go(t, "cclose")
    /\ UNCHANGED <<meta, Counters>>
CloseOld(t) ==
    /\ At(t, "cclose") /\ Room
    /\ Become(filemgr_close(World, thr[t].of, FALSE))
    /\ thr' = [thr EXCEPT ![t].pc = thr[t].ret, ![t].of = 0, ![t].nf = 0]
    /\ UNCHANGED <<meta, Counters>>

\* The end of a user's compaction: compactor_switch_compaction_flag(FALSE).
CompactEnd(t) ==
    LET e == Search(World, inst[thr[t].h].name)
    IN  /\ At(t, "cend")
        /\ elem' = IF e = 0 THEN elem ELSE [elem EXCEPT ![e].cflag = FALSE]
        /\ thr' = [thr EXCEPT ![t] = [Idle EXCEPT !.h = thr[t].h]]
        /\ UNCHANGED <<dir, hdr, meta, inst, Counters>>

-----------------------------------------------------------------------------
(* A compactor thread.  Whether a file is over its threshold, and which      *)
(* element its walk of the tree is at, is left open.                         *)

InTree(e) == elem[e].live
\* _compactor_is_threshold_satisfied, _compactor_check_file_removal.
ThresholdSatisfied(e) == elem[e].file # 0 /\ ~ elem[e].cflag
FileRemoval(e) == elem[e].file # 0 /\ inst[elem[e].file].rip /\ ~ elem[e].rem
DPick(t) ==
    /\ t \in Daemon /\ At(t, "idle")
    /\ \E e \in Elems :
          /\ InTree(e) /\ ThresholdSatisfied(e)
          /\ elem' = [elem EXCEPT ![e].cflag = TRUE, ![e].dflag = TRUE]
          /\ thr' = [thr EXCEPT ![t].pc = "dread", ![t].e = e]
    /\ UNCHANGED <<dir, hdr, meta, inst, Counters>>

\* An element without a file belongs to nobody.
DDrop(t) ==
    /\ t \in Daemon /\ At(t, "idle")
    /\ \E e \in Elems : /\ InTree(e) /\ elem[e].file = 0
                        /\ elem' = [elem EXCEPT ![e] = NoElem]
    /\ UNCHANGED <<dir, hdr, meta, inst, thr, Counters>>

\* The pointers a thread is about to follow: the element while it prepares and
\* starts a compaction, and its copy of elem->file.
BadElem(t) == thr[t].pc \in {"dread", "dcmp", "dname"} /\ ~ InTree(thr[t].e)
BadFile(t) == thr[t].pc = "dcmp" /\ thr[t].fp # 0 /\ Status(thr[t].fp) = "none"

\* fdb_cmp_func_list_from_filemgr(elem->file) reads the pointer, then the file.
DRead(t) ==
    /\ At(t, "dread") /\ ~ BadElem(t)
    /\ thr' = [thr EXCEPT ![t].pc = "dcmp", ![t].fp = elem[thr[t].e].file]
    /\ UNCHANGED <<dir, hdr, meta, inst, elem, Counters>>
DCmp(t) ==
    /\ At(t, "dcmp") /\ ~ BadElem(t) /\ ~ BadFile(t)
    /\ thr' = [thr EXCEPT ![t].pc = "open", ![t].fp = 0, ![t].ret = "dname"]
    /\ UNCHANGED <<dir, hdr, meta, inst, elem, Counters>>
\* fdb_open_for_compactor fails: the flags are cleared.
DOpenFail(t) ==
    /\ t \in Daemon /\ At(t, "fopen") /\ nfail < MaxFail /\ InTree(thr[t].e)
    /\ elem' = [elem EXCEPT ![thr[t].e].cflag = FALSE, ![thr[t].e].dflag = FALSE]
    /\ nfail' = nfail + 1
    /\ thr' = [thr EXCEPT ![t] = Idle]
    /\ UNCHANGED <<dir, hdr, meta, inst, ncommit, ncrash>>
DName(t) ==
    /\ At(t, "dname") /\ ~ BadElem(t) /\ NextFree(elem[thr[t].e].name) # {}
    /\ thr' = [thr EXCEPT ![t].pc = "begin", ![t].ret = "dclose", ![t].e = 0,
                          ![t].n = compactor_get_next_filename(elem[thr[t].e].name)]
    /\ UNCHANGED <<dir, hdr, meta, inst, elem, Counters>>
DClose(t) == t \in Daemon /\ At(t, "dclose") /\ Deregister(t, "idle")

\* A replaced file: closed without the lock, then freed with its element.
DRemove(t) ==
    /\ t \in Daemon /\ At(t, "idle")
    /\ \E e \in Elems :
          /\ InTree(e) /\ FileRemoval(e)
          /\ elem' = [elem EXCEPT ![e].rem = TRUE]
          /\ thr' = [thr EXCEPT ![t].pc = "dfree", ![t].e = e]
    /\ UNCHANGED <<dir, hdr, meta, inst, Counters>>
DFree(t) ==
    /\ At(t, "dfree")
    /\ Become(FreeElem(filemgr_free_func(World, elem[thr[t].e].file), thr[t].e))
    /\ thr' = [thr EXCEPT ![t] = Idle]
    /\ UNCHANGED <<meta, Counters>>

\* The process ends; a metafile that is being written may be damaged.
Storing == {t \in Thread : thr[t].pc \in {"store", "cstore"}}
Die ==
    /\ inst' = [i \in Insts |-> NoInst] /\ elem' = [e \in Elems |-> NoElem]
    /\ thr' = [t \in Thread |-> Idle]
    /\ meta' \in {meta} \cup (IF Torn /\ Storing # {} THEN {None} ELSE {})
    /\ hdr' = [k \in Insts |-> IF k \in Linked(World) THEN hdr[k] ELSE Empty]
    /\ UNCHANGED dir
Crash == /\ ncrash < MaxCrash /\ Die
         /\ ncrash' = ncrash + 1 /\ UNCHANGED <<ncommit, nfail>>
\* Following a pointer to freed memory.
Fault == (\E t \in Daemon : BadElem(t) \/ BadFile(t)) /\ Die /\ UNCHANGED Counters

AppStep(t) ==
    \/ OpenName(t) \/ OpenFile(t) \/ RecoverFile(t) \/ Register(t) \/ StoreMeta(t)
    \/ fdb_close(t) \/ fdb_check_file_reopen(t) \/ CloseFile(t) \/ fdb_commit(t)
    \/ fdb_compact(t) \/ CompactBegin(t) \/ AlreadyCompacted(t) \/ CommitUpto(t)
    \/ CompactFail(t) \/ CompactFinish(t) \/ SwitchFile(t) \/ StoreSwitched(t)
    \/ RemoveOld(t) \/ CloseOld(t) \/ CompactEnd(t)
DaemonStep(t) ==
    \/ DPick(t) \/ DDrop(t) \/ DRead(t) \/ DCmp(t) \/ DOpenFail(t) \/ DName(t) \/ DClose(t)
    \/ DRemove(t) \/ DFree(t)
FNext == (\E t \in Thread : AppStep(t)) \/ (\E t \in Daemon : DaemonStep(t)) \/ Crash \/ Fault
FSpec == FInit /\ [][FNext]_fvars

-----------------------------------------------------------------------------
(* Properties. *)

FTypeOK ==
    /\ dir \in [Names -> 0 .. MaxInst] /\ meta \in Names \cup {None}
    /\ hdr \in [Insts -> [has : SUBSET (1 .. MaxCommit), nw : Names \cup {None},
                           od : Names \cup {None}]]
    /\ \A i \in Insts : /\ inst[i].st \in InHash \cup {"none", "gone"}
                         /\ inst[i].rip => inst[i].st = "gone"
                         /\ inst[i].ref \in 0 .. Cardinality(Thread)
    /\ \A e \in Elems : elem[e].count \in 0 .. Cardinality(Thread) /\ elem[e].file \in 0 .. MaxInst
    /\ ncommit \in 0 .. MaxCommit /\ nfail \in 0 .. MaxFail /\ ncrash \in 0 .. MaxCrash

\* References are counted exactly: a file instance has as many references as
\* there are handles and compactions on it (filemgr_open and filemgr_close along
\* every path of open, recovery, compaction and its failure), so no handle and
\* no element of the compactor's registry points to an instance that was freed.
Holders(i) == {t \in Thread : i \in {thr[t].h, thr[t].of, thr[t].nf}}
HandleFilesAlive ==
    /\ \A i \in Insts : inst[i].ref = Cardinality(Holders(i))
    /\ \A e \in Elems : InTree(e) /\ elem[e].file # 0
                         => Status(elem[e].file) # "none"

\* A handle that is at rest on a file that was not replaced sees every commit
\* any thread made before: opening by name, recovery after a crash, compaction
\* and its failure never lead to a file that lacks a commit
\* (compactor_get_actual_filename, _fdb_open, _fdb_recover_compaction).
OpenLatest ==
    \A t \in App : At(t, "idle") /\ thr[t].h # 0 /\ Status(thr[t].h) # "pending"
                   => hdr[inst[thr[t].h].ino].has = 1 .. ncommit

\* A database is compacted by one thread at a time, whichever mixture of calls
\* and daemon threads starts compactions (compaction_flag, and the status check
\* of _fdb_compact_file_checks under the writer lock).
OneCompaction == Cardinality({t \in Thread : thr[t].of # 0}) <= 1
=============================================================================
