-------------------------- MODULE WalCounterProofs --------------------------
(* The counters of the WAL index: wal->size, wal->num_flushable and the count  *)
(* of documents of each snapshot handle.                                       *)
EXTENDS WalProofs

FlushableIn(S) == {i \in S : Flushable(i)}

LEMMA CardRemove ==
    ASSUME NEW S, IsFiniteSet(S), NEW G, G \subseteq S
    PROVE  /\ IsFiniteSet(S \ G) /\ IsFiniteSet(G)
           /\ Cardinality(S) \in Nat /\ Cardinality(G) \in Nat
           /\ Cardinality(S \ G) = Cardinality(S) - Cardinality(G)
<1>1. S \cap G = G
  OBVIOUS
<1>2. IsFiniteSet(G)
  BY FS_Subset
<1> QED
  BY <1>1, <1>2, FS_Difference, FS_CardinalityType

(* Replacing an item by one that is flushable if the old one was: the count of *)
(* flushable items grows by one just when the new one is and the old was not.  *)
LEMMA FlushableReplace ==
    ASSUME NEW S, IsFiniteSet(S), Distinct(S), NEW i \in S, NEW it, it.born = i.born,
           Flushable(i) => Flushable(it)
    PROVE  Cardinality(FlushableIn((S \ {i}) \cup {it}))
             = Cardinality(FlushableIn(S))
               + (IF Flushable(it) /\ ~Flushable(i) THEN 1 ELSE 0)
<1> DEFINE F == FlushableIn(S)
           T == (S \ {i}) \cup {it}
<1>1. IsFiniteSet(F) /\ Distinct(F) /\ F \subseteq S
  BY FS_Subset DEF FlushableIn, Distinct
<1>2. Cardinality(F) \in Nat
  BY <1>1, FS_CardinalityType
<1>3. CASE Flushable(i)
  <2>1. FlushableIn(T) = (F \ {i}) \cup {it} /\ i \in F
    BY <1>3 DEF FlushableIn
  <2>2. Cardinality((F \ {i}) \cup {it}) = Cardinality(F)
    <3> HIDE DEF F
    <3> QED
      BY <1>1, <2>1, Replace
  <2> QED
    BY <1>2, <1>3, <2>1, <2>2
<1>4. CASE ~Flushable(i) /\ ~Flushable(it)
  <2>1. FlushableIn(T) = F
    BY <1>4 DEF FlushableIn
  <2> QED
    BY <1>2, <1>4, <2>1
<1>5. CASE ~Flushable(i) /\ Flushable(it)
  <2>1. FlushableIn(T) = F \cup {it}
    BY <1>5 DEF FlushableIn
  <2>2. it \notin F
    BY <1>1, <1>5 DEF FlushableIn, Distinct
  <2>3. Cardinality(F \cup {it}) = Cardinality(F) + 1
    <3> HIDE DEF F
    <3> QED
      BY <1>1, <2>2, FS_AddElement
  <2> QED
    BY <1>5, <2>1, <2>3
<1> QED
  BY <1>3, <1>4, <1>5

(* CountersExact, with the flushable items named. *)
LEMMA CountersAs == CountersExact <=> /\ size = Cardinality(items)
                                     /\ num_flushable = Cardinality(FlushableIn(items))
BY DEF CountersExact, FlushableIn

LEMMA CountersAsPrimed ==
    CountersExact' <=> /\ size' = Cardinality(items')
                       /\ num_flushable' = Cardinality(FlushableIn(items'))
BY DEF CountersExact, FlushableIn, Flushable

LEMMA BaseItems ==
    ASSUME Base
    PROVE  /\ items \subseteq Item /\ IsFiniteSet(items) /\ Distinct(items)
           /\ IsFiniteSet(FlushableIn(items)) /\ FlushableIn(items) \subseteq items
           /\ Cardinality(items) \in Nat /\ Cardinality(FlushableIn(items)) \in Nat
<1>1. items \subseteq Item /\ IsFiniteSet(items) /\ Distinct(items)
  BY DEF Base, TypeOK, Places, Distinct
<1>2. IsFiniteSet(FlushableIn(items)) /\ FlushableIn(items) \subseteq items
  BY <1>1, FS_Subset DEF FlushableIn
<1> QED
  BY <1>1, <1>2, FS_CardinalityType

(* Committed items are dropped and both counters fall by as many. *)
LEMMA CountersDrop ==
    ASSUME Base, CountersExact, NEW G, G \subseteq items, \A i \in G : Flushable(i),
           items' = items \ G, size' = size - Cardinality(G),
           num_flushable' = num_flushable - Cardinality(G)
    PROVE  CountersExact'
<1>1. Cardinality(items \ G) = Cardinality(items) - Cardinality(G)
  BY BaseItems, CardRemove
<1>2. FlushableIn(items \ G) = FlushableIn(items) \ G /\ G \subseteq FlushableIn(items)
  BY DEF FlushableIn
<1>3. Cardinality(FlushableIn(items) \ G) = Cardinality(FlushableIn(items)) - Cardinality(G)
  BY <1>2, BaseItems, CardRemove
<1> QED
  BY <1>1, <1>2, <1>3, CountersAs, CountersAsPrimed

LEMMA CountersAbort ==
    ASSUME Base, CountersExact, NEW t \in Txns, FdbAbortTransaction(t)
    PROVE  CountersExact'
<1> DEFINE L == LinkedTo(t)
           C == {i \in L : i.committed}
<1>0. /\ items' = items \ L /\ size' = size - Cardinality(L)
      /\ num_flushable' = num_flushable - Cardinality(C)
  BY DEF FdbAbortTransaction
<1>1. L \subseteq items /\ FlushableIn(items \ L) = FlushableIn(items) \ C
      /\ C \subseteq FlushableIn(items)
  BY WalAssumption DEF LinkedTo, FlushableIn, Flushable
<1> HIDE DEF L, C
<1>2. Cardinality(items \ L) = Cardinality(items) - Cardinality(L)
  BY <1>1, BaseItems, CardRemove
<1>3. Cardinality(FlushableIn(items) \ C) = Cardinality(FlushableIn(items)) - Cardinality(C)
  BY <1>1, BaseItems, CardRemove
<1> QED
  BY <1>0, <1>1, <1>2, <1>3, CountersAs, CountersAsPrimed

LEMMA CountersInsert ==
    ASSUME Base, CountersExact, WalInsert
    PROVE  CountersExact'
<1>0. /\ InsertItem /\ pc = "insert" /\ last \in Offsets /\ last \in Nat
      /\ w.act \in Actions
  BY DEF WalInsert, Base, TypeOK, Offsets, WriterCalls
<1>1. CASE /\ \E i \in Overwritten : items' = (items \ {i}) \cup {Rewritten(i)}
           /\ UNCHANGED <<size, num_flushable>>
  <2>1. PICK i \in Overwritten : items' = (items \ {i}) \cup {Rewritten(i)}
    BY <1>1
  <2>2. i \in items /\ i \in Item
    BY BaseItems DEF Overwritten, ListOf
  <2>3. Rewritten(i).born = i.born /\ (Flushable(Rewritten(i)) <=> Flushable(i))
    BY <1>0, <2>2, RewrittenType DEF Flushable
  <2>4. /\ Cardinality(items') = Cardinality(items)
        /\ Cardinality(FlushableIn(items')) = Cardinality(FlushableIn(items))
    BY <2>1, <2>2, <2>3, BaseItems, Replace, FlushableReplace
  <2> QED
    BY <1>1, <2>4, CountersAs, CountersAsPrimed
<1>2. CASE /\ items' = items \cup {Inserted} /\ size' = size + 1
           /\ num_flushable' = num_flushable + (IF w.txn = Global THEN 1 ELSE 0)
  <2>1. Inserted \notin items
    <3>1. \A i \in items : i.off # last
      BY <1>0, BaseItems DEF Base, Places, Item, Offsets
    <3> QED
      BY <3>1 DEF Inserted
  <2>2. Cardinality(items') = Cardinality(items) + 1
    BY <1>2, <2>1, BaseItems, FS_AddElement
  <2>3. Flushable(Inserted) <=> w.txn = Global
    BY DEF Flushable, Inserted
  <2>4. FlushableIn(items') = IF w.txn = Global THEN FlushableIn(items) \cup {Inserted}
                              ELSE FlushableIn(items)
    BY <1>2, <2>3 DEF FlushableIn
  <2>5. Cardinality(FlushableIn(items) \cup {Inserted}) = Cardinality(FlushableIn(items)) + 1
    BY <2>1, BaseItems, FS_AddElement
  <2> QED
    BY <1>2, <2>2, <2>4, <2>5, BaseItems, CountersAs, CountersAsPrimed
<1> QED
  BY <1>0, <1>1, <1>2, InsertCases

LEMMA CountersCommitItem ==
    ASSUME Base, CountersExact, NEW i \in items, WalCommitItem(i)
    PROVE  CountersExact'
<1> DEFINE D == Dups(i)
           R == (items \ {i}) \cup {Committed(i)}
<1>0. /\ items' = ((items \ {i}) \ D) \cup {Committed(i)}
      /\ size' = size - Cardinality(D)
      /\ num_flushable' = num_flushable + (IF i.txn = Global THEN 0 ELSE 1) - Cardinality(D)
      /\ ~i.committed
  BY DEF WalCommitItem, Committed, Dups
<1>1. /\ Committed(i).born = i.born /\ Flushable(Committed(i))
      /\ Flushable(i) <=> i.txn = Global
  BY <1>0, CommittedType DEF Flushable, Base, TypeOK
<1>2. D \subseteq items \ {i} /\ \A j \in D : j.committed
  BY DEF Dups
<1> HIDE DEF D
<1>3. Committed(i) \notin D
  BY <1>1, <1>2, BaseItems DEF Distinct
<1>4. items' = R \ D /\ D \subseteq R
  BY <1>0, <1>2, <1>3
<1>5. /\ IsFiniteSet(R) /\ Cardinality(R) = Cardinality(items)
      /\ Cardinality(FlushableIn(R)) = Cardinality(FlushableIn(items))
                                       + (IF i.txn = Global THEN 0 ELSE 1)
  BY <1>1, BaseItems, Replace, FlushableReplace
<1>6. IsFiniteSet(FlushableIn(R)) /\ D \subseteq FlushableIn(R)
      /\ FlushableIn(R \ D) = FlushableIn(R) \ D
  BY <1>2, <1>4, <1>5, FS_Subset DEF FlushableIn, Flushable
<1> HIDE DEF R
<1>7. /\ Cardinality(D) \in Nat
      /\ Cardinality(R \ D) = Cardinality(R) - Cardinality(D)
      /\ Cardinality(FlushableIn(R) \ D) = Cardinality(FlushableIn(R)) - Cardinality(D)
  BY <1>4, <1>5, <1>6, CardRemove
<1>8. size' = Cardinality(items')
  BY <1>0, <1>4, <1>5, <1>7, CountersAs
<1>9. num_flushable' = Cardinality(FlushableIn(items'))
  <2> DEFINE n == Cardinality(FlushableIn(items))
  <2>1. n \in Nat /\ num_flushable = n
    BY BaseItems, CountersAs
  <2>2. Cardinality(FlushableIn(items')) = n + (IF i.txn = Global THEN 0 ELSE 1) - Cardinality(D)
    <3>1. FlushableIn(items') = FlushableIn(R) \ D
      BY <1>4, <1>6
    <3>2. Cardinality(FlushableIn(items')) = Cardinality(FlushableIn(R)) - Cardinality(D)
      BY <3>1, <1>7
    <3>3. Cardinality(FlushableIn(R)) = n + (IF i.txn = Global THEN 0 ELSE 1)
      BY <1>5
    <3> HIDE DEF n
    <3> QED
      BY <2>1, <1>7, <3>2, <3>3
  <2> QED
    BY <1>0, <2>1, <2>2
<1> QED
  BY <1>8, <1>9, CountersAsPrimed

LEMMA CountersCommitSkip ==
    ASSUME Base, CountersExact, NEW i \in items, WalCommitSkip(i)
    PROVE  CountersExact'
<1> DEFINE it == [i EXCEPT !.linked = FALSE]
<1>1. it.born = i.born /\ (Flushable(it) <=> Flushable(i))
  BY DEF Flushable, Base, TypeOK, Item
<1>2. items' = (items \ {i}) \cup {it} /\ UNCHANGED <<size, num_flushable>>
  BY DEF WalCommitSkip
<1> HIDE DEF it
<1>3. /\ Cardinality(items') = Cardinality(items)
      /\ Cardinality(FlushableIn(items')) = Cardinality(FlushableIn(items))
  BY <1>1, <1>2, BaseItems, Replace, FlushableReplace
<1> QED
  BY <1>2, <1>3, CountersAs, CountersAsPrimed

LEMMA CountersMarkFails ==
    ASSUME Base, CountersExact, NEW i \in items, CommitMarkFails(i)
    PROVE  CountersExact'
<1> DEFINE it == [i EXCEPT !.committed = TRUE]
<1>1. i.txn # Global /\ ~i.committed
  BY DEF CommitMarkFails, NextLinked, LinkedTo
<1>2. it.born = i.born /\ Flushable(it) /\ ~Flushable(i)
  BY <1>1 DEF Flushable, Base, TypeOK, Item
<1>3. items' = (items \ {i}) \cup {it} /\ size' = size /\ num_flushable' = num_flushable + 1
  BY DEF CommitMarkFails
<1> HIDE DEF it
<1>4. /\ Cardinality(items') = Cardinality(items)
      /\ Cardinality(FlushableIn(items')) = Cardinality(FlushableIn(items)) + 1
  BY <1>2, <1>3, BaseItems, Replace, FlushableReplace
<1> QED
  BY <1>3, <1>4, CountersAs, CountersAsPrimed

(* Counting what a flush leaves is counting what was there before it claimed. *)
LEMMA CollectCount ==
    ASSUME Base, NEW tree, CollectItems(tree, Gone)
    PROVE  /\ Cardinality(items') = Cardinality(items \ Gone)
           /\ Cardinality(FlushableIn(items')) = Cardinality(FlushableIn(items \ Gone))
<1> DEFINE S == items \ Gone
<1>0. /\ \A x \in items' : \E y \in S : Same(x, y)
      /\ \A y \in S : \E x \in items' : Same(x, y)
      /\ Distinct(items')
  BY CollectEffect
<1>1. IsFiniteSet(S) /\ Distinct(S) /\ IsFiniteSet(FlushableIn(S)) /\ Distinct(FlushableIn(S))
      /\ Distinct(FlushableIn(items'))
  BY <1>0, BaseItems, FS_Subset DEF FlushableIn, Distinct
<1> HIDE DEF S
<1>2. Born(S) = Born(items')
  BY <1>0 DEF Born, Same
<1>3. Born(FlushableIn(S)) = Born(FlushableIn(items'))
  <2>1. \A x \in FlushableIn(items') : \E y \in FlushableIn(S) : x.born = y.born
    BY <1>0 DEF FlushableIn, Flushable, Same
  <2>2. \A y \in FlushableIn(S) : \E x \in FlushableIn(items') : x.born = y.born
    BY <1>0 DEF FlushableIn, Flushable, Same
  <2> QED
    BY <2>1, <2>2 DEF Born
<1>4. Cardinality(items') = Cardinality(S)
  BY <1>0, <1>1, <1>2, SameBorn
<1>5. Cardinality(FlushableIn(items')) = Cardinality(FlushableIn(S))
  BY <1>1, <1>3, SameBorn
<1> QED
  BY <1>4, <1>5 DEF S

LEMMA CountersFlush ==
    ASSUME Base, CountersExact, WalFlush \/ WalFlushFails
    PROVE  CountersExact'
<1>0. CollectItems(BaseTree, Gone)
  BY DEF WalFlush, WalFlushFails, Gone
<1>1. /\ size' = size - Cardinality(Gone) /\ num_flushable' = num_flushable - Cardinality(Gone)
  BY <1>0 DEF CollectItems
<1>2. Gone \subseteq items /\ \A i \in Gone : i.committed
  BY CollectedFacts DEF Gone
<1>3. Cardinality(items \ Gone) = Cardinality(items) - Cardinality(Gone)
  BY <1>2, BaseItems, CardRemove
<1>4. FlushableIn(items \ Gone) = FlushableIn(items) \ Gone /\ Gone \subseteq FlushableIn(items)
  BY <1>2 DEF FlushableIn, Flushable
<1>5. Cardinality(FlushableIn(items) \ Gone) = Cardinality(FlushableIn(items)) - Cardinality(Gone)
  BY <1>4, BaseItems, CardRemove
<1> QED
  BY <1>0, <1>1, <1>3, <1>4, <1>5, CollectCount, CountersAs, CountersAsPrimed

LEMMA CountersRelease ==
    ASSUME Base, CountersExact, NEW i \in w.flush, WalReleaseItem(i)
    PROVE  CountersExact'
<1> DEFINE G == ReleasedWith({i})
<1>1. G \subseteq items /\ \A j \in G : Flushable(j)
  BY ReleasedFacts DEF Flushable
<1>2. /\ items' = items \ G /\ size' = size - Cardinality(G)
      /\ num_flushable' = num_flushable - Cardinality(G)
  BY DEF WalReleaseItem
<1> HIDE DEF G
<1> QED
  BY <1>1, <1>2, CountersDrop

LEMMA CountersNext == Base /\ CountersExact /\ [Next]_vars => CountersExact'
<1> SUFFICES ASSUME Base, CountersExact, [Next]_vars
             PROVE  CountersExact'
  OBVIOUS
<1>1. CASE UNCHANGED <<items, size, num_flushable>>
  BY <1>1, CountersAs, CountersAsPrimed
<1>2. CASE WriterCall
  <2>1. CASE \E t \in Txns : FdbAbortTransaction(t)
    BY <2>1, CountersAbort
  <2> QED
    BY <1>1, <1>2, <2>1
       DEF WriterCall, FdbBeginTransaction, FdbEndTransaction, FdbSet, FdbCommit, walVars
<1>3. CASE WriterStep
  <2>1. CASE WalCommitDone \/ DirtyUpdateFinalize \/ SetFileHeader \/ WalReleaseDone
    BY <1>1, <2>1 DEF WalCommitDone, DirtyUpdateFinalize, SetFileHeader, WalReleaseDone, walVars
  <2> QED
    BY <1>3, <2>1, CountersInsert, CountersCommitItem, CountersCommitSkip, CountersMarkFails,
       CountersFlush, CountersRelease DEF WriterStep
<1>4. CASE \/ \E r \in Readers, t \in Contexts, k \in Keys : WalFind(r, t, k)
           \/ \E r \in Readers : ReaderStep(r)
  BY <1>1, <1>4 DEF WalFind, ReaderStep, SyncDbHeader, SyncDirtyRoot, GetReturns, walVars
<1>5. CASE UNCHANGED vars
  BY <1>1, <1>5 DEF vars
<1> QED
  BY <1>2, <1>3, <1>4, <1>5 DEF Next

LEMMA CountersInit == Init => CountersExact
<1> SUFFICES ASSUME Init
             PROVE  CountersExact
  OBVIOUS
<1>1. items = {} /\ FlushableIn(items) = {} /\ size = 0 /\ num_flushable = 0
  BY DEF Init, FlushableIn
<1> QED
  BY <1>1, FS_EmptySet, CountersAs

(* wal->size and wal->num_flushable are exact after any sequence of            *)
(* insertions, commits, aborts, flushes and failures, so the flush decisions   *)
(* of fdb_set and _fdb_commit are taken on what is really in the WAL.          *)
THEOREM CountersCorrect == Spec => []CountersExact
<1>1. Init => CountersExact
  BY CountersInit
<1>2. Base /\ CountersExact /\ [Next]_vars => CountersExact'
  BY CountersNext
<1> QED
  BY <1>1, <1>2, BaseInvariant, PTL DEF Spec

----------------------------------------------------------------------------
(* Snapshot handles. *)

Tagged(S, t) == {i \in S : i.tag = t}

(* The one being inserted is counted before it is in its list. *)
Pending(t) == IF pc = "insert" /\ w.tag = t THEN 1 ELSE 0

(* HandlesAlive for all handles, also those no item points to. *)
HandlesCount ==
    /\ \A i \in items : i.tag \in DOMAIN handles
    /\ pc = "insert" => w.tag \in DOMAIN handles
    /\ \A t \in DOMAIN handles :
          handles[t].ndocs >= Cardinality(Tagged(items, t)) + Pending(t)

LEMMA HandlesCountEnough == HandlesCount => HandlesAlive
BY DEF HandlesCount, HandlesAlive, Tagged, Pending

LEMMA TaggedFinite ==
    ASSUME NEW S, IsFiniteSet(S), NEW t
    PROVE  IsFiniteSet(Tagged(S, t)) /\ Cardinality(Tagged(S, t)) \in Nat
<1>1. IsFiniteSet(Tagged(S, t))
  BY FS_Subset DEF Tagged
<1> QED
  BY <1>1, FS_CardinalityType

(* The items after a step are those before it without G, up to changes that   *)
(* leave handle and first document alone.                                     *)
Keeps(G) ==
    /\ \A x \in items' : \E y \in items \ G : x.born = y.born /\ x.tag = y.tag
    /\ \A y \in items \ G : \E x \in items' : x.born = y.born /\ x.tag = y.tag

LEMMA TaggedKept ==
    ASSUME Base, Base', NEW G, G \subseteq items, Keeps(G), NEW t
    PROVE  /\ Cardinality(Tagged(items', t))
                = Cardinality(Tagged(items, t)) - Cardinality(Tagged(G, t))
           /\ Cardinality(Tagged(G, t)) \in Nat
           /\ Cardinality(Tagged(items, t)) \in Nat
<1> DEFINE S == Tagged(items \ G, t)
           T == Tagged(items', t)
<1>1. IsFiniteSet(items) /\ Distinct(items) /\ Distinct(items')
  BY DEF Base, TypeOK, Places, Distinct
<1>2. IsFiniteSet(S) /\ Distinct(S) /\ Distinct(T)
  BY <1>1, FS_Subset DEF Tagged, Distinct
<1>3. Born(S) = Born(T)
  <2>1. \A x \in T : \E y \in S : x.born = y.born
    BY DEF Keeps, Tagged
  <2>2. \A y \in S : \E x \in T : x.born = y.born
    BY DEF Keeps, Tagged
  <2> HIDE DEF S, T
  <2> QED
    BY <2>1, <2>2 DEF Born
<1>4. Cardinality(T) = Cardinality(S)
  <2> HIDE DEF S, T
  <2> QED
    BY <1>2, <1>3, SameBorn
<1>5. S = Tagged(items, t) \ Tagged(G, t) /\ Tagged(G, t) \subseteq Tagged(items, t)
  BY DEF Tagged
<1>6. IsFiniteSet(Tagged(items, t))
  BY <1>1, TaggedFinite
<1> HIDE DEF S, T
<1>7. /\ Cardinality(S) = Cardinality(Tagged(items, t)) - Cardinality(Tagged(G, t))
      /\ Cardinality(Tagged(G, t)) \in Nat /\ Cardinality(Tagged(items, t)) \in Nat
  BY <1>5, <1>6, CardRemove
<1> QED
  BY <1>4, <1>7 DEF T

(* Items go and their handles are told: a handle with items left stays.       *)
LEMMA HandlesFree ==
    ASSUME Base, Base', HandlesCount, NEW G, G \subseteq items, Keeps(G),
           handles' = FreeItems(handles, G), pc # "insert", pc' # "insert"
    PROVE  HandlesCount'
<1>0. /\ handles \in [DOMAIN handles -> SnapHandle] /\ IsFiniteSet(G)
      /\ \A t \in DOMAIN handles : handles[t].ndocs \in Int
  BY FS_Subset DEF Base, TypeOK, SnapHandle
<1>1. /\ DOMAIN handles' \subseteq DOMAIN handles
      /\ \A t \in DOMAIN handles' :
            handles'[t].ndocs = handles[t].ndocs - Cardinality(Tagged(G, t))
      /\ \A t \in DOMAIN handles \ DOMAIN handles' :
            handles[t].ndocs = Cardinality(Tagged(G, t))
  BY <1>0, FreeItemsType DEF Tagged
<1>2. \A t \in DOMAIN handles : handles[t].ndocs >= Cardinality(Tagged(items, t))
  <2>1. ASSUME NEW t \in DOMAIN handles
        PROVE  handles[t].ndocs >= Cardinality(Tagged(items, t))
    <3>1. Cardinality(Tagged(items, t)) \in Nat
      BY TaggedKept
    <3> QED
      BY <3>1 DEF HandlesCount, Pending
  <2> QED
    BY <2>1
<1>3. ASSUME NEW x \in items'
      PROVE  x.tag \in DOMAIN handles'
  <2> DEFINE t == x.tag
  <2>1. t \in DOMAIN handles
    BY DEF Keeps, HandlesCount
  <2>2. SUFFICES ASSUME t \notin DOMAIN handles'
                 PROVE  FALSE
    OBVIOUS
  <2>3. handles[t].ndocs = Cardinality(Tagged(G, t))
    BY <1>1, <2>1, <2>2
  <2>4. Cardinality(Tagged(items', t)) <= 0
    <3> HIDE DEF t
    <3> QED
      BY <1>2, <2>1, <2>3, TaggedKept
  <2>5. IsFiniteSet(Tagged(items', t)) /\ Cardinality(Tagged(items', t)) \in Nat
    <3>1. IsFiniteSet(items')
      BY DEF Base, TypeOK
    <3> QED
      BY <3>1, TaggedFinite
  <2>6. x \in Tagged(items', t)
    BY DEF Tagged
  <2> QED
    BY <2>4, <2>5, <2>6, FS_EmptySet
<1>4. ASSUME NEW t \in DOMAIN handles'
      PROVE  handles'[t].ndocs >= Cardinality(Tagged(items', t))
  BY <1>0, <1>1, <1>2, TaggedKept
<1>5. ASSUME NEW t \in DOMAIN handles'
      PROVE  handles'[t].ndocs >= Cardinality(Tagged(items', t)) + Pending(t)'
  <2>1. IsFiniteSet(items')
    BY DEF Base, TypeOK
  <2>2. Cardinality(Tagged(items', t)) \in Nat /\ Pending(t)' = 0
    BY <2>1, TaggedFinite DEF Pending
  <2> QED
    BY <1>4, <2>2
<1> QED
  BY <1>3, <1>5 DEF HandlesCount, Tagged

(* Items go or change and their handles are not told: counts stay too large.  *)
LEMMA HandlesKept ==
    ASSUME Base, Base', HandlesCount, NEW G, G \subseteq items, Keeps(G),
           DOMAIN handles' = DOMAIN handles,
           \A t \in DOMAIN handles : handles'[t].ndocs = handles[t].ndocs,
           pc # "insert", pc' # "insert"
    PROVE  HandlesCount'
<1>1. \A x \in items' : x.tag \in DOMAIN handles'
  BY DEF Keeps, HandlesCount
<1>2. ASSUME NEW t \in DOMAIN handles'
      PROVE  handles'[t].ndocs >= Cardinality(Tagged(items', t)) + Pending(t)'
  <2>1. /\ handles[t].ndocs \in Int /\ handles'[t].ndocs = handles[t].ndocs
        /\ handles[t].ndocs >= Cardinality(Tagged(items, t)) + Pending(t)
    BY DEF HandlesCount, Base, TypeOK, SnapHandle
  <2>2. Pending(t) = 0 /\ Pending(t)' = 0
    BY DEF Pending
  <2> QED
    BY <2>1, <2>2, TaggedKept
<1> QED
  BY <1>1, <1>2 DEF HandlesCount, Tagged

LEMMA HandlesSet ==
    ASSUME Base, Base', HandlesCount, NEW t \in Contexts, NEW k \in Keys, NEW a \in Acts,
           FdbSet(t, k, a)
    PROVE  HandlesCount'
<1> DEFINE tag == FetchTag(handles)
<1>0. /\ handles' = WalFetchSnapshot(handles) /\ UNCHANGED items
      /\ pc = "idle" /\ pc' = "insert" /\ w'.tag = tag
  <2>1. w' = [NoOp EXCEPT !.op = "set", !.txn = t, !.key = k, !.act = a, !.tag = tag]
    BY DEF FdbSet
  <2>2. w'.tag = tag
    <3> HIDE DEF tag
    <3> QED
      BY <2>1 DEF NoOp
  <2> QED
    BY <2>2 DEF FdbSet
<1>1. /\ \A u \in DOMAIN handles : handles[u] \in SnapHandle /\ handles[u].ndocs \in Int
      /\ IsFiniteSet(items)
  BY DEF Base, TypeOK, SnapHandle
<1> HIDE DEF tag
<1>2. /\ DOMAIN handles' = DOMAIN handles \cup {tag}
      /\ \A u \in DOMAIN handles : u # tag => handles'[u].ndocs = handles[u].ndocs
      /\ tag \in DOMAIN handles => handles'[tag].ndocs = handles[tag].ndocs + 1
      /\ tag \notin DOMAIN handles => handles'[tag].ndocs = 1
  BY <1>0, <1>1 DEF WalFetchSnapshot, SnapHandle, tag
<1>3. \A x \in items' : x.tag \in DOMAIN handles'
  BY <1>0, <1>2 DEF HandlesCount
<1>4. ASSUME NEW u \in DOMAIN handles'
      PROVE  handles'[u].ndocs >= Cardinality(Tagged(items', u)) + Pending(u)'
  <2>1. Cardinality(Tagged(items, u)) \in Nat /\ Pending(u) = 0
        /\ Pending(u)' = (IF u = tag THEN 1 ELSE 0)
    BY <1>0, <1>1, TaggedFinite DEF Pending
  <2>2. CASE u \in DOMAIN handles
    <3>1. handles[u].ndocs >= Cardinality(Tagged(items, u))
      BY <1>1, <2>1, <2>2 DEF HandlesCount
    <3> QED
      BY <1>0, <1>1, <1>2, <2>1, <2>2, <3>1
  <2>3. CASE u \notin DOMAIN handles
    <3>1. Tagged(items, u) = {} /\ u = tag
      BY <1>2, <2>3 DEF HandlesCount, Tagged
    <3>2. Cardinality(Tagged(items, u)) = 0
      BY <3>1, FS_EmptySet
    <3> QED
      BY <1>0, <1>2, <2>1, <2>3, <3>1, <3>2
  <2> QED
    BY <2>2, <2>3
<1> QED
  BY <1>0, <1>2, <1>3, <1>4 DEF HandlesCount, Tagged

LEMMA HandlesInsert ==
    ASSUME Base, Base', HandlesCount, WalInsert
    PROVE  HandlesCount'
<1>0. /\ InsertItem /\ pc = "insert" /\ pc' # "insert" /\ last \in Offsets /\ last \in Nat
      /\ w.act \in Actions /\ w.tag \in DOMAIN handles
      /\ IsFiniteSet(items) /\ items \subseteq Item /\ Distinct(items)
      /\ \A u \in DOMAIN handles : handles[u] \in SnapHandle /\ handles[u].ndocs \in Int
      /\ handles \in [DOMAIN handles -> SnapHandle]
  BY DEF WalInsert, Base, TypeOK, Offsets, WriterCalls, HandlesCount, Places, Distinct, SnapHandle
<1>1. \A u \in DOMAIN handles :
         /\ Cardinality(Tagged(items, u)) \in Nat /\ Pending(u)' = 0
         /\ Pending(u) = (IF u = w.tag THEN 1 ELSE 0)
         /\ handles[u].ndocs >= Cardinality(Tagged(items, u)) + Pending(u)
  BY <1>0, TaggedFinite DEF Pending, HandlesCount
<1>2. CASE /\ \E i \in Overwritten : items' = (items \ {i}) \cup {Rewritten(i)}
           /\ handles' = [handles EXCEPT ![w.tag].ndocs = @ - 1]
  <2>1. PICK i \in Overwritten : items' = (items \ {i}) \cup {Rewritten(i)}
    BY <1>2
  <2>2. i \in items /\ i \in Item
    BY <1>0 DEF Overwritten, ListOf
  <2>3. Rewritten(i).born = i.born /\ Rewritten(i).tag = i.tag
    BY <1>0, <2>2, RewrittenType
  <2>4. Keeps({})
    BY <2>1, <2>2, <2>3 DEF Keeps
  <2>5. /\ DOMAIN handles' = DOMAIN handles
        /\ \A u \in DOMAIN handles :
              handles'[u].ndocs = handles[u].ndocs - (IF u = w.tag THEN 1 ELSE 0)
    BY <1>0, <1>2 DEF SnapHandle
  <2>6. ASSUME NEW u \in DOMAIN handles
        PROVE  handles'[u].ndocs >= Cardinality(Tagged(items', u)) + Pending(u)'
    <3>1. Tagged({}, u) = {}
      BY DEF Tagged
    <3>2. Cardinality(Tagged(items', u)) = Cardinality(Tagged(items, u))
      <4>1. /\ Cardinality(Tagged(items', u))
                 = Cardinality(Tagged(items, u)) - Cardinality(Tagged({}, u))
            /\ Cardinality(Tagged(items, u)) \in Nat
        BY <2>4, TaggedKept
      <4>2. Cardinality(Tagged({}, u)) = 0
        BY <3>1, FS_EmptySet
      <4> QED
        BY <4>1, <4>2
    <3> QED
      BY <1>0, <1>1, <2>5, <3>2
  <2>7. \A x \in items' : x.tag \in DOMAIN handles'
    BY <2>4, <2>5 DEF Keeps, HandlesCount
  <2> QED
    BY <1>0, <2>5, <2>6, <2>7 DEF HandlesCount, Tagged
<1>3. CASE items' = items \cup {Inserted} /\ UNCHANGED handles
  <2>1. Inserted.tag = w.tag
    BY DEF Inserted
  <2>2. ASSUME NEW u \in DOMAIN handles
        PROVE  handles'[u].ndocs >= Cardinality(Tagged(items', u)) + Pending(u)'
    <3>1. CASE u = w.tag
      <4>1. Tagged(items', u) = Tagged(items, u) \cup {Inserted}
        BY <1>3, <2>1, <3>1 DEF Tagged
      <4>2. Cardinality(Tagged(items, u) \cup {Inserted}) <= Cardinality(Tagged(items, u)) + 1
        <5> DEFINE S == Tagged(items, u)
        <5>1. IsFiniteSet(S) /\ Cardinality(S) \in Nat
          BY <1>0, TaggedFinite
        <5> HIDE DEF S
        <5>2. Cardinality(S \cup {Inserted}) \in {Cardinality(S), Cardinality(S) + 1}
          BY <5>1, FS_AddElement
        <5>3. Cardinality(S \cup {Inserted}) <= Cardinality(S) + 1
          BY <5>1, <5>2
        <5> QED
          BY <5>3 DEF S
      <4>3. IsFiniteSet(Tagged(items', u)) /\ Cardinality(Tagged(items', u)) \in Nat
        BY TaggedFinite DEF Base, TypeOK
      <4>4. handles'[u].ndocs >= Cardinality(Tagged(items, u)) + 1 /\ Pending(u)' = 0
        BY <1>1, <1>3, <3>1
      <4>5. handles'[u].ndocs \in Int /\ Cardinality(Tagged(items, u)) \in Nat
        BY <1>0, <1>1, <1>3
      <4> QED
        BY <4>1, <4>2, <4>3, <4>4, <4>5
    <3>2. CASE u # w.tag
      <4>1. Tagged(items', u) = Tagged(items, u)
        BY <1>3, <2>1, <3>2 DEF Tagged
      <4> QED
        BY <1>0, <1>1, <1>3, <3>2, <4>1
    <3> QED
      BY <3>1, <3>2
  <2>3. \A x \in items' : x.tag \in DOMAIN handles'
    BY <1>0, <1>3, <2>1 DEF HandlesCount
  <2> QED
    BY <1>0, <1>3, <2>2, <2>3 DEF HandlesCount, Tagged
<1> QED
  BY <1>0, <1>2, <1>3, InsertCases

LEMMA HandlesAbort ==
    ASSUME Base, Base', HandlesCount, NEW t \in Txns, FdbAbortTransaction(t)
    PROVE  HandlesCount'
<1>1. LinkedTo(t) \subseteq items /\ Keeps(LinkedTo(t))
  BY DEF FdbAbortTransaction, Keeps, LinkedTo
<1>2. UNCHANGED handles /\ pc = "idle" /\ pc' = "idle"
  BY DEF FdbAbortTransaction
<1> QED
  BY <1>1, <1>2, HandlesKept

LEMMA HandlesCommitItem ==
    ASSUME Base, Base', HandlesCount, NEW i \in items, WalCommitItem(i)
    PROVE  HandlesCount'
<1> DEFINE D == Dups(i)
<1>0. /\ items' = ((items \ {i}) \ D) \cup {Committed(i)}
      /\ handles' = FreeItems(handles, D) /\ pc = "commit" /\ pc' = "commit"
  BY DEF WalCommitItem, Committed, Dups
<1>1. Committed(i).born = i.born /\ Committed(i).tag = i.tag
  BY CommittedType DEF Base, TypeOK
<1>2. D \subseteq items \ {i}
  BY DEF Dups
<1> HIDE DEF D
<1>3. Keeps(D)
  BY <1>0, <1>1, <1>2 DEF Keeps
<1> QED
  BY <1>0, <1>2, <1>3, HandlesFree

LEMMA HandlesFlag ==
    ASSUME Base, Base', HandlesCount, NEW i \in items, WalCommitSkip(i) \/ CommitMarkFails(i)
    PROVE  HandlesCount'
<1>1. PICK it : items' = (items \ {i}) \cup {it} /\ it.born = i.born /\ it.tag = i.tag
  <2>1. i \in Item
    BY DEF Base, TypeOK
  <2>2. CASE WalCommitSkip(i)
    <3>1. /\ [i EXCEPT !.linked = FALSE].born = i.born
          /\ [i EXCEPT !.linked = FALSE].tag = i.tag
      BY <2>1 DEF Item
    <3> QED
      BY <2>2, <3>1 DEF WalCommitSkip
  <2>3. CASE CommitMarkFails(i)
    <3>1. /\ [i EXCEPT !.committed = TRUE].born = i.born
          /\ [i EXCEPT !.committed = TRUE].tag = i.tag
      BY <2>1 DEF Item
    <3> QED
      BY <2>3, <3>1 DEF CommitMarkFails
  <2> QED
    BY <2>2, <2>3
<1>2. Keeps({})
  BY <1>1 DEF Keeps
<1>3. UNCHANGED handles /\ pc # "insert" /\ pc' # "insert"
  BY DEF WalCommitSkip, CommitMarkFails
<1> QED
  BY <1>2, <1>3, HandlesKept

LEMMA HandlesFlush ==
    ASSUME Base, Base', HandlesCount, WalFlush \/ WalFlushFails
    PROVE  HandlesCount'
<1>0. CollectItems(BaseTree, Gone) /\ pc # "insert" /\ pc' # "insert"
  BY DEF WalFlush, WalFlushFails, Gone
<1>1. handles' = FreeItems(handles, Gone)
  BY <1>0 DEF CollectItems
<1>2. Gone \subseteq items
  BY CollectedFacts DEF Gone
<1>3. Keeps(Gone)
  BY <1>0, CollectEffect DEF Keeps, Same
<1> QED
  BY <1>0, <1>1, <1>2, <1>3, HandlesFree

LEMMA HandlesMark ==
    ASSUME Base, Base', HandlesCount, DirtyUpdateFinalize \/ SetFileHeader
    PROVE  HandlesCount'
<1>1. Keeps({})
  BY DEF Keeps, DirtyUpdateFinalize, SetFileHeader
<1>2. handles' = handles \/ handles' = MarkFlushed(handles)
  BY DEF DirtyUpdateFinalize, SetFileHeader
<1>3. /\ DOMAIN handles' = DOMAIN handles
      /\ \A t \in DOMAIN handles : handles'[t].ndocs = handles[t].ndocs
  BY <1>2 DEF MarkFlushed, Base, TypeOK, SnapHandle
<1>4. pc # "insert" /\ pc' # "insert"
  BY DEF DirtyUpdateFinalize, SetFileHeader
<1> QED
  BY <1>1, <1>3, <1>4, HandlesKept

LEMMA HandlesRelease ==
    ASSUME Base, Base', HandlesCount, NEW i \in w.flush, WalReleaseItem(i)
    PROVE  HandlesCount'
<1> DEFINE G == ReleasedWith({i})
<1>1. G \subseteq items
  BY ReleasedFacts
<1>2. items' = items \ G /\ handles' = FreeItems(handles, G) /\ pc # "insert" /\ pc' # "insert"
  BY DEF WalReleaseItem
<1> HIDE DEF G
<1>3. Keeps(G)
  BY <1>2 DEF Keeps
<1> QED
  BY <1>1, <1>2, <1>3, HandlesFree

LEMMA HandlesNext == Base /\ Base' /\ HandlesCount /\ [Next]_vars => HandlesCount'
<1> SUFFICES ASSUME Base, Base', HandlesCount, [Next]_vars
             PROVE  HandlesCount'
  OBVIOUS
<1>1. CASE UNCHANGED <<items, handles, pc, w>>
  BY <1>1 DEF HandlesCount, Tagged, Pending
<1>2. CASE UNCHANGED <<items, handles>> /\ pc # "insert" /\ pc' # "insert"
  BY <1>2 DEF HandlesCount, Tagged, Pending
<1>3. CASE WriterCall
  <2>1. CASE \E t \in Txns : FdbBeginTransaction(t) \/ FdbEndTransaction(t)
    BY <1>1, <2>1 DEF FdbBeginTransaction, FdbEndTransaction, walVars
  <2>2. CASE \E t \in Contexts, op \in {"commit", "end"}, m \in BOOLEAN : FdbCommit(t, op, m)
    BY <1>2, <2>2 DEF FdbCommit, walVars
  <2> QED
    BY <1>3, <2>1, <2>2, HandlesAbort, HandlesSet DEF WriterCall
<1>4. CASE WriterStep
  <2>1. CASE WalCommitDone \/ WalReleaseDone
    BY <1>2, <2>1 DEF WalCommitDone, WalReleaseDone, Return, walVars
  <2> QED
    BY <1>4, <2>1, HandlesInsert, HandlesCommitItem, HandlesFlag, HandlesFlush, HandlesMark,
       HandlesRelease DEF WriterStep
<1>5. CASE \/ \E r \in Readers, t \in Contexts, k \in Keys : WalFind(r, t, k)
           \/ \E r \in Readers : ReaderStep(r)
  BY <1>1, <1>5 DEF WalFind, ReaderStep, SyncDbHeader, SyncDirtyRoot, GetReturns, walVars
<1>6. CASE UNCHANGED vars
  BY <1>1, <1>6 DEF vars
<1> QED
  BY <1>3, <1>4, <1>5, <1>6 DEF Next

LEMMA HandlesInit == Init => HandlesCount
BY DEF Init, HandlesCount, Tagged, Pending

(* The snapshot handle an item points to is in the snapshot tree until the     *)
(* item is gone: _wal_free_item never frees one that is still in use, also     *)
(* when wal_discard drops items without telling their handles.                 *)
THEOREM HandlesCorrect == Spec => []HandlesAlive
<1>1. Init => HandlesCount
  BY HandlesInit
<1>2. Base /\ Base' /\ HandlesCount /\ [Next]_vars => HandlesCount'
  BY HandlesNext
<1>3. HandlesCount => HandlesAlive
  BY HandlesCountEnough
<1> QED
  BY <1>1, <1>2, <1>3, BaseInvariant, PTL DEF Spec
=============================================================================
