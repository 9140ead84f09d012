---------------------------- MODULE MCBlockCache ----------------------------
(* Instances of BlockCache.  Two workloads, one per behaviour: readers next to *)
(* the background flusher, and another file's thread while writes fail and     *)
(* the file is closed.                                                         *)
EXTENDS BlockCache

VARIABLE load

Active == IF load = "read" THEN Readers \cup Flushers ELSE Others

LoadNext ==
    \/ UNCHANGED load /\ \E t \in {W} \cup Active : FlushLoad(t)
    \/ UNCHANGED load /\ \E t \in {W} \cup Active : FlushTake(t) /\ (load = "close" \/ nfail' = 0)
    \/ UNCHANGED load /\ \E t \in {W} \cup Active : FlushWrite(t) /\ (load = "close" \/ nfail' = 0)
    \/ UNCHANGED load /\ \E t \in {W} \cup Active : FlushClean(t)
    \/ UNCHANGED load /\ \E t \in {W} \cup Active : EvictStep(t)
    \/ UNCHANGED load /\ WriterStep /\ (load = "close" \/ fname' = "live")
    \/ UNCHANGED load /\ \E t \in Readers \cap Active : ReaderStep(t)
    \/ UNCHANGED load /\ \E t \in Flushers \cap Active : filemgr_flush_immutable(t)
    \/ UNCHANGED load /\ \E t \in Others \cap Active : OtherFile(t)
    \/ UNCHANGED load /\ garbage_collect_zombie_fnames
LoadInit == CInit /\ load \in {"read", "close"}
LoadSpec == LoadInit /\ [][LoadNext]_<<cvars, load>>
=============================================================================
