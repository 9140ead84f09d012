--------------------------- MODULE WalListProofs ---------------------------
(* The lists of the WAL index: the list of a transaction and the list of a     *)
(* header.                                                                     *)
EXTENDS WalProofs

(* NoOrphanItem needs that nothing is left on the list of a transaction from   *)
(* the moment its commit has walked the list.                                  *)
Orphans == NoOrphanItem /\ NoLeftover

LEMMA OrphansInit == Init => Orphans
BY DEF Init, Orphans, NoOrphanItem, NoLeftover, LinkedTo, NoOp

(* What a step that changes, drops or claims items has to respect. *)
LEMMA OrphansKept ==
    ASSUME Base, Orphans, UNCHANGED <<txns, ending>>,
           \A x \in items' : \E y \in items :
              /\ x.txn = y.txn
              /\ ~x.committed => ~y.committed /\ x.linked = y.linked
              /\ x.linked => y.linked,
           pc' \in {"flush", "finalize", "header", "release"}
              => w'.txn = w.txn /\ pc \in {"flush", "finalize", "header", "release"}
    PROVE  Orphans'
<1>1. NoOrphanItem'
  BY DEF Orphans, NoOrphanItem
<1>2. NoLeftover'
  BY DEF Orphans, NoLeftover, LinkedTo
<1> QED
  BY <1>1, <1>2 DEF Orphans

LEMMA OrphansTransactions ==
    ASSUME Base, Orphans, NEW t \in Txns,
           FdbBeginTransaction(t) \/ FdbAbortTransaction(t) \/ FdbEndTransaction(t)
    PROVE  Orphans'
<1>1. CASE FdbBeginTransaction(t)
  BY <1>1 DEF FdbBeginTransaction, Orphans, NoOrphanItem, NoLeftover, LinkedTo, walVars
<1>2. CASE FdbAbortTransaction(t)
  BY <1>2 DEF FdbAbortTransaction, Orphans, NoOrphanItem, NoLeftover, LinkedTo
<1>3. CASE FdbEndTransaction(t)
  BY <1>3 DEF FdbEndTransaction, Orphans, NoOrphanItem, NoLeftover, LinkedTo, walVars
<1> QED
  BY <1>1, <1>2, <1>3

LEMMA OrphansInsert ==
    ASSUME Base, Orphans, WalInsert
    PROVE  Orphans'
<1>0. /\ InsertItem /\ pc = "insert" /\ pc' \in {"idle", "commit"} /\ UNCHANGED <<txns, ending>>
      /\ last \in Offsets /\ w.act \in Actions /\ items \subseteq Item
      /\ w.txn \in (txns \ ending) \cup {Global}
  BY DEF WalInsert, Base, TypeOK, Calls, WriterCalls
<1>1. CASE \E i \in Overwritten : items' = (items \ {i}) \cup {Rewritten(i)}
  <2>1. PICK i \in Overwritten : items' = (items \ {i}) \cup {Rewritten(i)}
    BY <1>1
  <2>2. i \in items /\ i \in Item
    BY <1>0 DEF Overwritten, ListOf
  <2>3. /\ Rewritten(i).txn = i.txn /\ Rewritten(i).committed = i.committed
        /\ Rewritten(i).linked = i.linked
    BY <1>0, <2>2, RewrittenType
  <2> QED
    BY <1>0, <2>1, <2>2, <2>3, OrphansKept
<1>2. CASE items' = items \cup {Inserted}
  <2>1. /\ Inserted.txn = w.txn /\ Inserted.linked = TRUE /\ Inserted.committed = FALSE
    BY DEF Inserted
  <2>2. NoOrphanItem'
    BY <1>0, <1>2, <2>1 DEF Orphans, NoOrphanItem
  <2>3. Global \notin ending
    BY WalAssumption DEF Base, TypeOK
  <2>4. \A t \in ending : t # w.txn
    BY <1>0, <2>3
  <2>5. NoLeftover'
    BY <1>0, <1>2, <2>1, <2>4 DEF Orphans, NoLeftover, LinkedTo
  <2> QED
    BY <2>2, <2>5 DEF Orphans
<1> QED
  BY <1>0, <1>1, <1>2, InsertCases

LEMMA OrphansCommit ==
    ASSUME Base, Orphans, NEW i \in items,
           WalCommitItem(i) \/ WalCommitSkip(i) \/ CommitMarkFails(i)
    PROVE  Orphans'
<1>0. i \in Item /\ stamp \in Nat /\ UNCHANGED <<txns, ending>>
      /\ pc' \notin {"flush", "finalize", "header", "release"}
  BY DEF WalCommitItem, WalCommitSkip, CommitMarkFails, Base, TypeOK
<1>1. CASE WalCommitItem(i)
  <2>1. items' = ((items \ {i}) \ Dups(i)) \cup {Committed(i)}
    BY <1>1 DEF WalCommitItem, Committed, Dups
  <2>2. Committed(i).txn = i.txn /\ Committed(i).committed = TRUE /\ Committed(i).linked = FALSE
    BY <1>0, CommittedType
  <2> QED
    BY <1>0, <2>1, <2>2, OrphansKept
<1>2. CASE WalCommitSkip(i)
  <2> DEFINE it == [i EXCEPT !.linked = FALSE]
  <2>1. items' = (items \ {i}) \cup {it} /\ i.committed
    BY <1>2 DEF WalCommitSkip
  <2>2. it.txn = i.txn /\ it.committed = i.committed /\ it.linked = FALSE
    BY <1>0 DEF Item
  <2> HIDE DEF it
  <2> QED
    BY <1>0, <2>1, <2>2, OrphansKept
<1>3. CASE CommitMarkFails(i)
  <2> DEFINE it == [i EXCEPT !.committed = TRUE]
  <2>1. items' = (items \ {i}) \cup {it}
    BY <1>3 DEF CommitMarkFails
  <2>2. it.txn = i.txn /\ it.committed = TRUE /\ it.linked = i.linked
    BY <1>0 DEF Item
  <2> HIDE DEF it
  <2> QED
    BY <1>0, <2>1, <2>2, OrphansKept
<1> QED
  BY <1>1, <1>2, <1>3

(* The mutex is given back once the list has been walked. *)
LEMMA OrphansReturn ==
    ASSUME Base, Orphans, UNCHANGED <<items, txns>>, LinkedTo(w.txn) = {}, Return
    PROVE  Orphans'
BY DEF Return, Orphans, NoOrphanItem, NoLeftover, LinkedTo

LEMMA OrphansStep ==
    ASSUME Base, Orphans, WriterStep
    PROVE  Orphans'
<1>1. CASE WalCommitDone
  <2>1. LinkedTo(w.txn) = {} /\ UNCHANGED <<items, txns>>
    BY <1>1 DEF WalCommitDone, walVars
  <2>2. CASE pc' = "flush" /\ UNCHANGED <<w, ending>>
    BY <2>1, <2>2 DEF Orphans, NoOrphanItem, NoLeftover, LinkedTo
  <2> QED
    BY <1>1, <2>1, <2>2, OrphansReturn DEF WalCommitDone
<1>2. CASE WalFlush
  <2>1. CollectItems(BaseTree, Gone) /\ UNCHANGED <<txns, ending>> /\ pc = "flush"
        /\ pc' = "finalize"
    BY <1>2 DEF WalFlush, Gone
  <2>2. w'.txn = w.txn
    BY <1>2 DEF WalFlush, Base, TypeOK, WriterCalls
  <2>3. \A x \in items' : \E y \in items : Same(x, y)
    BY <2>1, CollectEffect
  <2> QED
    BY <2>1, <2>2, <2>3, OrphansKept DEF Same
<1>3. CASE WalFlushFails
  <2>1. CollectItems(BaseTree, Gone) /\ UNCHANGED <<txns, ending>> /\ pc' = "idle"
    BY <1>3 DEF WalFlushFails, Gone
  <2>2. \A x \in items' : \E y \in items : Same(x, y)
    BY <2>1, CollectEffect
  <2> QED
    BY <2>1, <2>2, OrphansKept DEF Same
<1>4. CASE DirtyUpdateFinalize \/ SetFileHeader
  <2>1. UNCHANGED <<items, txns, ending, w>> /\ pc \in {"finalize", "header"}
    BY <1>4 DEF DirtyUpdateFinalize, SetFileHeader
  <2> QED
    BY <2>1, OrphansKept
<1>5. CASE \E i \in w.flush : WalReleaseItem(i)
  <2>1. PICK i \in w.flush : WalReleaseItem(i)
    BY <1>5
  <2>2. items' \subseteq items /\ UNCHANGED <<txns, ending, pc>> /\ pc = "release"
    BY <2>1 DEF WalReleaseItem
  <2>3. w'.txn = w.txn
    BY <2>1 DEF WalReleaseItem, Base, TypeOK, WriterCalls
  <2> QED
    BY <2>2, <2>3, OrphansKept
<1>6. CASE WalReleaseDone
  <2>1. LinkedTo(w.txn) = {} /\ UNCHANGED <<items, txns>> /\ Return
    BY <1>6 DEF WalReleaseDone, Orphans, NoLeftover, walVars
  <2> QED
    BY <2>1, OrphansReturn
<1> QED
  BY <1>1, <1>2, <1>3, <1>4, <1>5, <1>6, OrphansInsert, OrphansCommit DEF WriterStep

LEMMA OrphansNext == Base /\ Orphans /\ [Next]_vars => Orphans'
<1> SUFFICES ASSUME Base, Orphans, [Next]_vars
             PROVE  Orphans'
  OBVIOUS
<1>1. CASE UNCHANGED <<items, txns, ending, pc, w>>
  BY <1>1 DEF Orphans, NoOrphanItem, NoLeftover, LinkedTo
<1>2. CASE WriterCall
  <2>1. CASE \/ \E t \in Contexts, k \in Keys, a \in Acts : FdbSet(t, k, a)
             \/ \E t \in Contexts, op \in {"commit", "end"}, m \in BOOLEAN : FdbCommit(t, op, m)
    <3>1. UNCHANGED <<items, txns, ending>> /\ pc' \in {"insert", "commit"}
      BY <2>1 DEF FdbSet, FdbCommit, walVars
    <3> QED
      BY <3>1, OrphansKept
  <2> QED
    BY <1>2, <2>1, OrphansTransactions DEF WriterCall
<1>3. CASE WriterStep
  BY <1>3, OrphansStep
<1>4. CASE \/ \E r \in Readers, t \in Contexts, k \in Keys : WalFind(r, t, k)
           \/ \E r \in Readers : ReaderStep(r)
  BY <1>1, <1>4 DEF WalFind, ReaderStep, SyncDbHeader, SyncDirtyRoot, GetReturns, walVars
<1>5. CASE UNCHANGED vars
  BY <1>1, <1>5 DEF vars
<1> QED
  BY <1>2, <1>3, <1>4, <1>5 DEF Next

(* Ending or aborting a transaction never strands an uncommitted item: each    *)
(* one is on the list of a transaction that is still open.                     *)
THEOREM OrphansCorrect == Spec => []NoOrphanItem
<1>1. Init => Orphans
  BY OrphansInit
<1>2. Base /\ Orphans /\ [Next]_vars => Orphans'
  BY OrphansNext
<1>3. Orphans => NoOrphanItem
  BY DEF Orphans
<1> QED
  BY <1>1, <1>2, <1>3, BaseInvariant, PTL DEF Spec

----------------------------------------------------------------------------
(* The order of a header's list. *)

(* Uncommitted items stand where push_front put them, committed ones where     *)
(* push_back did.                                                              *)
Order == \A i \in items : IF i.committed THEN i.at > 0 ELSE i.at = -i.off

LEMMA OrderEnough ==
    ASSUME Base, Order
    PROVE  ListOrder
<1> SUFFICES ASSUME NEW i \in items, NEW j \in items, i.key = j.key, i # j
             PROVE  /\ i.at # j.at
                    /\ i.committed /\ ~j.committed => j.at < i.at
                    /\ ~i.committed /\ ~j.committed /\ i.off > j.off => i.at < j.at
  BY DEF ListOrder
<1>1. i.at # j.at
  BY DEF Base, Places
<1>2. /\ i.at \in Int /\ j.at \in Int /\ i.off \in Nat /\ j.off \in Nat
      /\ 1 <= i.off /\ 1 <= j.off
  BY DEF Base, TypeOK, Item, Offsets, Places
<1> QED
  BY <1>1, <1>2 DEF Order

LEMMA OrderInsert ==
    ASSUME Base, Order, WalInsert
    PROVE  Order'
<1>0. /\ InsertItem /\ last \in Offsets /\ w.act \in Actions /\ items \subseteq Item
  BY DEF WalInsert, Base, TypeOK, WriterCalls
<1>1. CASE \E i \in Overwritten : items' = (items \ {i}) \cup {Rewritten(i)}
  <2>1. PICK i \in Overwritten : items' = (items \ {i}) \cup {Rewritten(i)}
    BY <1>1
  <2>2. i \in items /\ i \in Item /\ ~i.committed
    BY <1>0 DEF Overwritten, ListOf
  <2>3. /\ Rewritten(i).committed = i.committed /\ Rewritten(i).off = last
        /\ Rewritten(i).at = -last
    BY <1>0, <2>2, RewrittenType
  <2> QED
    BY <2>1, <2>2, <2>3 DEF Order
<1>2. CASE items' = items \cup {Inserted}
  <2>1. Inserted.committed = FALSE /\ Inserted.off = last /\ Inserted.at = -last
    BY DEF Inserted, PushFront
  <2> QED
    BY <1>2, <2>1 DEF Order
<1> QED
  BY <1>0, <1>1, <1>2, InsertCases

LEMMA OrderCommit ==
    ASSUME Base, Order, NEW i \in items, WalCommitItem(i) \/ WalCommitSkip(i)
    PROVE  Order'
<1>0. i \in Item /\ stamp \in Nat
  BY DEF Base, TypeOK
<1>1. CASE WalCommitItem(i)
  <2>1. items' = ((items \ {i}) \ Dups(i)) \cup {Committed(i)}
    BY <1>1 DEF WalCommitItem, Committed, Dups
  <2>2. Committed(i).committed = TRUE /\ Committed(i).at = stamp + 1
    BY <1>0, CommittedType
  <2>3. Committed(i).at > 0
    BY <1>0, <2>2
  <2> QED
    BY <2>1, <2>2, <2>3 DEF Order
<1>2. CASE WalCommitSkip(i)
  <2> DEFINE it == [i EXCEPT !.linked = FALSE]
  <2>1. items' = (items \ {i}) \cup {it}
    BY <1>2 DEF WalCommitSkip
  <2>2. it.committed = i.committed /\ it.at = i.at /\ it.off = i.off
    BY <1>0 DEF Item
  <2> HIDE DEF it
  <2> QED
    BY <2>1, <2>2 DEF Order
<1> QED
  BY <1>1, <1>2

LEMMA OrderNext ==
    ASSUME "mark" \notin Faults
    PROVE  Base /\ Order /\ [Next]_vars => Order'
<1> SUFFICES ASSUME Base, Order, [Next]_vars
             PROVE  Order'
  OBVIOUS
<1>1. CASE items' \subseteq items
  BY <1>1 DEF Order
<1>2. CASE WriterCall
  BY <1>1, <1>2 DEF WriterCall, FdbBeginTransaction, FdbAbortTransaction, FdbEndTransaction,
                    FdbSet, FdbCommit, walVars
<1>3. CASE WriterStep
  <2>1. CASE \/ WalCommitDone \/ DirtyUpdateFinalize \/ SetFileHeader \/ WalReleaseDone
             \/ \E i \in w.flush : WalReleaseItem(i)
    BY <1>1, <2>1 DEF WalCommitDone, DirtyUpdateFinalize, SetFileHeader, WalReleaseDone,
                      WalReleaseItem, walVars
  <2>2. CASE WalFlush \/ WalFlushFails
    <3>1. CollectItems(BaseTree, Gone)
      BY <2>2 DEF WalFlush, WalFlushFails, Gone
    <3>2. \A x \in items' : \E y \in items : Same(x, y)
      BY <3>1, CollectEffect
    <3> QED
      BY <3>2 DEF Same, Order
  <2>3. ~\E i \in items : CommitMarkFails(i)
    BY DEF CommitMarkFails
  <2> QED
    BY <1>3, <2>1, <2>2, <2>3, OrderInsert, OrderCommit DEF WriterStep
<1>4. CASE \/ \E r \in Readers, t \in Contexts, k \in Keys : WalFind(r, t, k)
           \/ \E r \in Readers : ReaderStep(r)
  BY <1>1, <1>4 DEF WalFind, ReaderStep, SyncDbHeader, SyncDirtyRoot, GetReturns, walVars
<1>5. CASE UNCHANGED vars
  BY <1>1, <1>5 DEF vars
<1> QED
  BY <1>2, <1>3, <1>4, <1>5 DEF Next

(* As long as no commit mark fails to be written, the list of a header reads   *)
(* "uncommitted, newest first, then committed", the order that lets _wal_find  *)
(* stop at the first visible item and lets a flush take the last.              *)
THEOREM ListOrderCorrect ==
    ASSUME "mark" \notin Faults
    PROVE  Spec => []ListOrder
<1>1. Init => Order
  BY DEF Init, Order
<1>2. Base /\ Order /\ [Next]_vars => Order'
  BY OrderNext
<1>3. Base /\ Order => ListOrder
  BY OrderEnough
<1> QED
  BY <1>1, <1>2, <1>3, BaseInvariant, PTL DEF Spec

----------------------------------------------------------------------------
(* Claimed items and the lists of the transactions. *)

(* wal_commit takes an item off its transaction's list when it flags it, and a *)
(* flush claims only flagged items.                                            *)
Unlinked == \A i \in items : (i.committed => ~i.linked) /\ (i.ready => i.committed)

LEMMA UnlinkedInsert ==
    ASSUME Base, Unlinked, WalInsert
    PROVE  Unlinked'
<1>0. /\ InsertItem /\ last \in Offsets /\ w.act \in Actions /\ items \subseteq Item
  BY DEF WalInsert, Base, TypeOK, WriterCalls
<1>1. CASE \E i \in Overwritten : items' = (items \ {i}) \cup {Rewritten(i)}
  <2>1. PICK i \in Overwritten : items' = (items \ {i}) \cup {Rewritten(i)}
    BY <1>1
  <2>2. i \in items /\ i \in Item /\ ~i.committed
    BY <1>0 DEF Overwritten, ListOf
  <2>3. Rewritten(i).committed = i.committed
    BY <1>0, <2>2, RewrittenType
  <2>4. Rewritten(i).ready = FALSE
    BY <2>2 DEF Rewritten, Item
  <2> QED
    BY <2>1, <2>2, <2>3, <2>4 DEF Unlinked
<1>2. CASE items' = items \cup {Inserted}
  <2>1. Inserted.committed = FALSE /\ Inserted.ready = FALSE
    BY DEF Inserted
  <2> QED
    BY <1>2, <2>1 DEF Unlinked
<1> QED
  BY <1>0, <1>1, <1>2, InsertCases

LEMMA UnlinkedCommit ==
    ASSUME Base, Unlinked, NEW i \in items, WalCommitItem(i) \/ WalCommitSkip(i)
    PROVE  Unlinked'
<1>0. i \in Item /\ stamp \in Nat
  BY DEF Base, TypeOK
<1>1. CASE WalCommitItem(i)
  <2>1. items' = ((items \ {i}) \ Dups(i)) \cup {Committed(i)}
    BY <1>1 DEF WalCommitItem, Committed, Dups
  <2>2. Committed(i).committed = TRUE /\ Committed(i).linked = FALSE
    BY <1>0, CommittedType
  <2> QED
    BY <2>1, <2>2 DEF Unlinked
<1>2. CASE WalCommitSkip(i)
  <2>1. i.committed /\ i.linked
    BY <1>2 DEF WalCommitSkip, NextLinked, LinkedTo
  <2> QED
    BY <2>1 DEF Unlinked
<1> QED
  BY <1>1, <1>2

LEMMA UnlinkedCollect ==
    ASSUME Base, Unlinked, NEW tree, NEW gone, CollectItems(tree, gone)
    PROVE  Unlinked'
<1>1. items' = ((items \ gone) \ Collected) \cup {Claimed(i, tree) : i \in Collected}
  BY DEF CollectItems
<1>2. \A i \in Collected : i \in items /\ i \in Item /\ i.committed
  BY DEF Collected, Base, TypeOK
<1>3. \A i \in Collected : Claimed(i, tree).committed /\ ~Claimed(i, tree).linked
  BY <1>2, ClaimedType DEF Unlinked
<1> QED
  BY <1>1, <1>3 DEF Unlinked

LEMMA UnlinkedNext ==
    ASSUME "mark" \notin Faults
    PROVE  Base /\ Unlinked /\ [Next]_vars => Unlinked'
<1> SUFFICES ASSUME Base, Unlinked, [Next]_vars
             PROVE  Unlinked'
  OBVIOUS
<1>1. CASE items' \subseteq items
  BY <1>1 DEF Unlinked
<1>2. CASE WriterCall
  BY <1>1, <1>2 DEF WriterCall, FdbBeginTransaction, FdbAbortTransaction, FdbEndTransaction,
                    FdbSet, FdbCommit, walVars
<1>3. CASE WriterStep
  <2>1. CASE \/ WalCommitDone \/ DirtyUpdateFinalize \/ SetFileHeader \/ WalReleaseDone
             \/ \E i \in w.flush : WalReleaseItem(i)
    BY <1>1, <2>1 DEF WalCommitDone, DirtyUpdateFinalize, SetFileHeader, WalReleaseDone,
                      WalReleaseItem, walVars
  <2>2. CASE WalFlush \/ WalFlushFails
    BY <2>2, UnlinkedCollect DEF WalFlush, WalFlushFails
  <2>3. ~\E i \in items : CommitMarkFails(i)
    BY DEF CommitMarkFails
  <2> QED
    BY <1>3, <2>1, <2>2, <2>3, UnlinkedInsert, UnlinkedCommit DEF WriterStep
<1>4. CASE \/ \E r \in Readers, t \in Contexts, k \in Keys : WalFind(r, t, k)
           \/ \E r \in Readers : ReaderStep(r)
  BY <1>1, <1>4 DEF WalFind, ReaderStep, SyncDbHeader, SyncDirtyRoot, GetReturns, walVars
<1>5. CASE UNCHANGED vars
  BY <1>1, <1>5 DEF vars
<1> QED
  BY <1>2, <1>3, <1>4, <1>5 DEF Next

(* As long as no commit mark fails to be written, an item that _wal_flush has  *)
(* claimed is off its transaction's list, so that the two links of wal_item    *)
(* that share a union are never in use at once.                                *)
THEOREM ClaimedCorrect ==
    ASSUME "mark" \notin Faults
    PROVE  Spec => []ClaimedUnlinked
<1>1. Init => Unlinked
  BY DEF Init, Unlinked
<1>2. Base /\ Unlinked /\ [Next]_vars => Unlinked'
  BY UnlinkedNext
<1>3. Unlinked => ClaimedUnlinked
  BY DEF Unlinked, ClaimedUnlinked
<1> QED
  BY <1>1, <1>2, <1>3, BaseInvariant, PTL DEF Spec
=============================================================================
