----------------------------- MODULE WalProofs -----------------------------
(* Proofs about module Wal, for any sets of keys, transactions and readers,   *)
(* any number of documents, any threshold and any faults.                     *)
EXTENDS Wal, TLAPS, FiniteSetTheorems, WellFoundedInduction

(* Where items are: an item keeps the offset it was created with, no two      *)
(* items share it, and no two items of a key share a place in its list.       *)
Places ==
    /\ pc = "insert" => 1 <= last
    /\ \A i \in items :
          /\ 1 <= i.born /\ i.born <= i.off /\ i.off <= last
          /\ -last <= i.at /\ i.at <= stamp
          /\ pc = "insert" => i.off < last /\ -last < i.at
    /\ \A i, j \in items : i.born = j.born => i = j
    /\ \A i, j \in items : i.key = j.key /\ i.at = j.at => i = j

(* What the call that holds the mutex carries along: the items its flush has  *)
(* claimed, one per key, and a transaction that is still open.                *)
Calls ==
    /\ w.flush # {} => pc \in {"finalize", "header", "release"}
    /\ \A i \in w.flush : i.committed
    /\ \A i, j \in w.flush : i.key = j.key => i = j
    /\ pc # "idle" => w.txn \in (txns \ ending) \cup {Global}
    /\ pc # "idle" /\ w.op = "end" => w.txn # Global

Base == TypeOK /\ Places /\ Calls

(* Nothing is on the list of a transaction that has been committed to the end. *)
NoLeftover ==
    /\ \A t \in ending : LinkedTo(t) = {}
    /\ pc \in {"flush", "finalize", "header", "release"} => LinkedTo(w.txn) = {}

----------------------------------------------------------------------------
(* Finite sets of numbers and of items. *)

(* The less-than relation on the naturals, as a set of pairs, is well-founded. *)
LEMMA LessThanWellFounded ==
    IsWellFoundedOn({ss \in Nat \X Nat : ss[1] < ss[2]}, Nat)
BY NatLessThanWellFounded DEF OpToRel

(* A set of naturals has a smallest member. *)
LEMMA LeastNatural ==
    ASSUME NEW T, T \subseteq Nat, T # {}
    PROVE  \E x \in T : \A y \in T : x <= y
<1> DEFINE R == {ss \in Nat \X Nat : ss[1] < ss[2]}
<1>1. PICK x \in T : \A y \in T : <<y, x>> \notin R
  <2>1. IsWellFoundedOn(R, Nat)
    BY LessThanWellFounded
  <2> HIDE DEF R
  <2> QED
    BY <2>1, WFMin
<1>2. ASSUME NEW y \in T
      PROVE  x <= y
  <2>1. x \in Nat /\ y \in Nat /\ <<y, x>> \in Nat \X Nat
    OBVIOUS
  <2>2. <<y, x>> \notin R
    BY <1>1
  <2> QED
    BY <2>1, <2>2
<1> QED
  BY <1>2

(* A set of naturals that is bounded above has a largest member: there is a   *)
(* newest handle in the snapshot tree for _wal_fetch_snapshot to find.        *)
LEMMA GreatestNatural ==
    ASSUME NEW S, NEW n \in Nat, S \subseteq 0 .. n, S # {}
    PROVE  \E m \in S : \A u \in S : u <= m
<1> DEFINE T == {n - s : s \in S}
<1>1. PICK s0 \in S : TRUE
  OBVIOUS
<1>2. T \subseteq Nat /\ n - s0 \in T
  OBVIOUS
<1>3. PICK x \in T : \A y \in T : x <= y
  <2> HIDE DEF T
  <2> QED
    BY <1>2, LeastNatural
<1>4. PICK m \in S : x = n - m
  OBVIOUS
<1>5. ASSUME NEW u \in S
      PROVE  u <= m
  <2>1. n - u \in T
    OBVIOUS
  <2>2. x <= n - u
    BY <1>3, <2>1
  <2>3. u \in Int /\ m \in Int
    OBVIOUS
  <2> QED
    BY <1>4, <2>2, <2>3
<1> QED
  BY <1>5

(* Among items there is one that comes first in the list. *)
LEMMA FirstItem ==
    ASSUME NEW S, S # {}, NEW n \in Nat,
           \A i \in S : i.at \in Int /\ -n <= i.at
    PROVE  \E i \in S : \A j \in S : i.at <= j.at
<1> DEFINE T == {i.at + n : i \in S}
<1>1. PICK i0 \in S : TRUE
  OBVIOUS
<1>2. T \subseteq Nat /\ i0.at + n \in T
  OBVIOUS
<1>3. PICK x \in T : \A y \in T : x <= y
  <2> HIDE DEF T
  <2> QED
    BY <1>2, LeastNatural
<1>4. PICK i \in S : x = i.at + n
  OBVIOUS
<1>5. ASSUME NEW j \in S
      PROVE  i.at <= j.at
  <2>1. j.at + n \in T
    OBVIOUS
  <2>2. x <= j.at + n
    BY <1>3, <2>1
  <2>3. i.at \in Int /\ j.at \in Int
    OBVIOUS
  <2> QED
    BY <1>4, <2>2, <2>3
<1> QED
  BY <1>5

(* No two members were created with the same document. *)
Distinct(S) == \A i, j \in S : i.born = j.born => i = j

Born(S) == {i.born : i \in S}

(* Two sets of items created with the same documents are equally large: what  *)
(* a step changes in an item does not change the counts.                      *)
LEMMA SameBorn ==
    ASSUME NEW S, NEW T, IsFiniteSet(S), Distinct(S), Distinct(T), Born(S) = Born(T)
    PROVE  IsFiniteSet(T) /\ Cardinality(T) = Cardinality(S)
<1> DEFINE f == [i \in S |-> CHOOSE j \in T : j.born = i.born]
<1>1. \A i \in S : f[i] \in T /\ f[i].born = i.born
  BY DEF Born
<1>2. \A j \in T : \E i \in S : f[i] = j
  <2> SUFFICES ASSUME NEW j \in T
               PROVE  \E i \in S : f[i] = j
    OBVIOUS
  <2>1. PICK i \in S : i.born = j.born
    BY DEF Born
  <2> QED
    BY <1>1, <2>1 DEF Distinct
<1>3. f \in Bijection(S, T)
  <2>1. f \in [S -> T]
    BY <1>1
  <2>2. \A a, b \in S : f[a] = f[b] => a = b
    BY <1>1 DEF Distinct
  <2> HIDE DEF f
  <2> QED
    BY <2>1, <2>2, <1>2 DEF Bijection, Injection, Surjection, IsInjective
<1> QED
  <2> HIDE DEF f
  <2> QED
    BY <1>3, FS_Bijection DEF ExistsBijection

----------------------------------------------------------------------------
(* Types, places and calls. *)

LEMMA BaseInit == Init => Base
<1> SUFFICES ASSUME Init
             PROVE  Base
  OBVIOUS
<1> USE WalAssumption DEF Init, NoOp, Resting, NoRoot
<1>1. TypeOK
  <2>1. IsFiniteSet(items)
    BY FS_EmptySet
  <2>2. handles \in [DOMAIN handles -> SnapHandle] /\ DOMAIN handles \subseteq 1 .. last
    OBVIOUS
  <2>3. hdr \in Trees /\ latest \in Trees /\ mine \in [Contexts -> Trees]
    BY DEF Trees, Offsets
  <2>4. w \in WriterCalls
    BY DEF WriterCalls, Contexts, Actions
  <2>5. rd \in [Readers -> Gets]
    BY DEF Gets, Contexts, Offsets
  <2>6. /\ \A r \in Readers : rd[r].pc = "idle"
        /\ last \in Offsets /\ w.flush = {}
    BY DEF Offsets
  <2> HIDE DEF NoOp, Resting, NoRoot
  <2> QED
    BY <2>1, <2>2, <2>3, <2>4, <2>5, <2>6 DEF TypeOK
<1>2. Places /\ Calls
  BY DEF Places, Calls
<1> QED
  BY <1>1, <1>2 DEF Base

(* The steps of a reader, and of the mutex holder where it touches no item.   *)
LEMMA BaseBegin ==
    ASSUME Base, NEW t \in Txns, FdbBeginTransaction(t)
    PROVE  Base'
BY DEF Base, TypeOK, Places, Calls, FdbBeginTransaction, walVars, indexVars, docVars, histVars

LEMMA BaseEnd ==
    ASSUME Base, NEW t \in Txns, FdbEndTransaction(t)
    PROVE  Base'
<1> USE DEF FdbEndTransaction, walVars, indexVars, docVars, histVars
<1>1. mine' \in [Contexts -> Trees]
  <2>1. [k \in Keys |-> 0] \in Trees
    BY WalAssumption DEF Trees, Offsets
  <2> QED
    BY <2>1 DEF Base, TypeOK
<1> QED
  BY <1>1 DEF Base, TypeOK, Places, Calls

LEMMA BaseCommit ==
    ASSUME Base, NEW t \in Contexts, NEW op \in {"commit", "end"}, NEW m \in BOOLEAN,
           FdbCommit(t, op, m)
    PROVE  Base'
<1> USE DEF FdbCommit, walVars, indexVars, docVars, histVars
<1>1. w' \in WriterCalls /\ w'.flush = {} /\ w'.txn = t /\ w'.op = op
  BY DEF NoOp, WriterCalls, Actions
<1> QED
  BY <1>1 DEF Base, TypeOK, Places, Calls

(* What a reader is told, or would have to be told, is a document or nothing. *)
LEMMA ExpectedType ==
    ASSUME Base, NEW t \in Contexts, NEW k \in Keys,
           NEW lt \in Trees, NEW mn \in [Contexts -> Trees]
    PROVE  Expected(t, k, lt, mn) \in Offsets /\ Value(lt[k]) \in Offsets
<1>1. lt[k] \in Offsets /\ mn[t][k] \in Offsets
  BY DEF Trees
<1> QED
  BY <1>1, WalAssumption DEF Expected, Value, Offsets

LEMMA ObserveType ==
    ASSUME Base, NEW lt \in Trees, NEW mn \in [Contexts -> Trees], Observe(lt, mn)
    PROVE  /\ rd' \in [Readers -> Gets]
           /\ \A r \in Readers : /\ rd'[r].pc = rd[r].pc
                                /\ rd'[r].key = rd[r].key
                                /\ rd'[r].root = rd[r].root
<1> SUFFICES ASSUME NEW r \in Readers
             PROVE  /\ rd'[r] \in Gets
                    /\ rd'[r].pc = rd[r].pc /\ rd'[r].key = rd[r].key
                    /\ rd'[r].root = rd[r].root
  BY DEF Observe
<1>1. rd[r] \in Gets
  BY DEF Base, TypeOK
<1>2. CASE rd[r].pc \in {"header", "index"}
  <2> DEFINE new == {Expected(rd[r].txn, rd[r].key, lt, mn)}
                    \cup (IF rd[r].txn = Global THEN {Value(lt[rd[r].key])} ELSE {})
  <2>1. rd[r].key \in Keys /\ rd[r].txn \in Contexts
    BY <1>1, <1>2 DEF Base, TypeOK, Gets
  <2>2. new \subseteq Offsets
    BY <2>1, ExpectedType
  <2>3. rd'[r] = [rd[r] EXCEPT !.acc = @ \cup new]
    BY <1>2 DEF Observe
  <2> HIDE DEF new
  <2> QED
    BY <1>1, <2>2, <2>3 DEF Gets
<1>3. CASE rd[r].pc \notin {"header", "index"}
  BY <1>1, <1>3 DEF Observe
<1> QED
  BY <1>2, <1>3

LEMMA BaseFind ==
    ASSUME Base, NEW r \in Readers, NEW t \in Contexts, NEW k \in Keys, WalFind(r, t, k)
    PROVE  Base'
<1> USE DEF WalFind, walVars, indexVars, docVars, histVars
<1> DEFINE hit == WalFound(t, k)
           v   == ItemValue(CHOOSE i \in hit : TRUE)
           get == [pc |-> "header", key |-> k, txn |-> t, root |-> NoRoot,
                   res |-> 0, acc |-> {Expected(t, k, latest, mine)}]
<1>1. hit # {} => v \in Offsets
  <2>1. hit \subseteq items
    BY DEF WalFound, ListOf
  <2> HIDE DEF hit
  <2> QED
    BY <2>1, WalAssumption DEF ItemValue, Base, TypeOK, Item, Offsets
<1>2. get \in Gets /\ get.key = k /\ get.pc = "header"
  <2> DEFINE e == Expected(t, k, latest, mine)
  <2>1. e \in Offsets /\ 0 \in Offsets
    BY ExpectedType, WalAssumption DEF Base, TypeOK, Offsets
  <2>2. {e} \in SUBSET Offsets
    BY <2>1
  <2>3. NoRoot \in Trees \cup {NoRoot} /\ k \in Keys \cup {0}
    OBVIOUS
  <2>4. get = [pc |-> "header", key |-> k, txn |-> t, root |-> NoRoot, res |-> 0, acc |-> {e}]
    OBVIOUS
  <2> HIDE DEF e, WalFind, get
  <2> QED
    BY <2>1, <2>2, <2>3, <2>4 DEF Gets
<1>3. rd' = [rd EXCEPT ![r] = IF hit = {} THEN get ELSE [get EXCEPT !.pc = "done", !.res = v]]
  OBVIOUS
<1>4. rd'[r] \in Gets /\ rd'[r].key \in Keys /\ rd'[r].pc # "index"
  <2> HIDE DEF v, hit, get
  <2>1. CASE hit = {}
    BY <1>2, <1>3, <2>1 DEF Base, TypeOK
  <2>2. CASE hit # {}
    <3>1. rd'[r] = [get EXCEPT !.pc = "done", !.res = v]
      BY <1>3, <2>2 DEF Base, TypeOK
    <3> HIDE DEF WalFind
    <3> QED
      BY <1>1, <1>2, <2>2, <3>1 DEF Gets
  <2> QED
    BY <2>1, <2>2
<1>5. rd' \in [Readers -> Gets] /\ \A q \in Readers \ {r} : rd'[q] = rd[q]
  <2> HIDE DEF v, hit, get
  <2> QED
    BY <1>3, <1>4 DEF Base, TypeOK
<1> QED
  <2> HIDE DEF v, hit, get
  <2> QED
    BY <1>4, <1>5 DEF Base, TypeOK, Places, Calls

LEMMA BaseReader ==
    ASSUME Base, NEW r \in Readers, ReaderStep(r)
    PROVE  Base'
<1> USE DEF walVars, indexVars, docVars, histVars
<1>0. rd[r] \in Gets /\ rd[r].pc \in {"header", "index", "done"}
  BY DEF ReaderStep, SyncDbHeader, SyncDirtyRoot, GetReturns, Base, TypeOK
<1>1. CASE SyncDbHeader(r)
  <2>1. rd'[r] \in Gets /\ rd'[r].key = rd[r].key /\ rd'[r].root \in Trees
    BY <1>0, <1>1 DEF SyncDbHeader, Base, TypeOK, Gets
  <2>2. rd' \in [Readers -> Gets] /\ \A q \in Readers \ {r} : rd'[q] = rd[q]
    BY <1>1, <2>1 DEF SyncDbHeader, Base, TypeOK
  <2> QED
    BY <1>0, <1>1, <2>1, <2>2 DEF SyncDbHeader, Base, TypeOK, Places, Calls
<1>2. CASE SyncDirtyRoot(r)
  <2> DEFINE tree == IF dirty # NoRoot THEN dirty ELSE rd[r].root
             v    == Value(tree[rd[r].key])
  <2>1. v \in Offsets
    <3>1. tree \in Trees /\ rd[r].key \in Keys
      BY <1>2 DEF SyncDirtyRoot, Base, TypeOK
    <3> HIDE DEF tree
    <3> QED
      BY <3>1, WalAssumption DEF Value, Trees, Offsets
  <2>2. rd' = [rd EXCEPT ![r].pc = "done", ![r].res = v, ![r].root = NoRoot]
    BY <1>2 DEF SyncDirtyRoot, Answer
  <2> HIDE DEF v
  <2>3. rd'[r] \in Gets /\ rd'[r].key = rd[r].key /\ rd'[r].pc = "done"
    BY <1>0, <2>1, <2>2 DEF Base, TypeOK, Gets
  <2>4. rd' \in [Readers -> Gets] /\ \A q \in Readers \ {r} : rd'[q] = rd[q]
    BY <2>2, <2>3 DEF Base, TypeOK
  <2> QED
    BY <1>0, <1>2, <2>3, <2>4 DEF SyncDirtyRoot, Base, TypeOK, Places, Calls
<1>3. CASE GetReturns(r)
  <2>1. Resting \in Gets /\ Resting.pc = "idle"
    BY WalAssumption DEF Resting, Gets, Contexts, Offsets
  <2>2. rd' \in [Readers -> Gets] /\ rd'[r] = Resting
        /\ \A q \in Readers \ {r} : rd'[q] = rd[q]
    BY <1>3, <2>1 DEF GetReturns, Base, TypeOK
  <2> QED
    BY <1>3, <2>1, <2>2 DEF GetReturns, Base, TypeOK, Places, Calls
<1> QED
  BY <1>1, <1>2, <1>3 DEF ReaderStep

(* _wal_fetch_snapshot numbers handles from 1 on, and there are never more of *)
(* them than documents.                                                       *)
LEMMA FetchTagType ==
    ASSUME Base
    PROVE  FetchTag(handles) \in 1 .. (last + 1)
<1>1. CASE DOMAIN handles = {}
  BY <1>1 DEF FetchTag, Base, TypeOK, Offsets
<1>2. CASE DOMAIN handles # {}
  <2>1. last \in Nat /\ DOMAIN handles \subseteq 1 .. last
    BY DEF Base, TypeOK, Offsets
  <2>2. \E m \in DOMAIN handles : \A u \in DOMAIN handles : u <= m
    BY <1>2, <2>1, GreatestNatural
  <2>3. NewestTag(handles) \in DOMAIN handles
    BY <2>2 DEF NewestTag
  <2> QED
    BY <1>2, <2>1, <2>3 DEF FetchTag
<1> QED
  BY <1>1, <1>2

LEMMA BaseSet ==
    ASSUME Base, NEW t \in Contexts, NEW k \in Keys, NEW a \in Acts, FdbSet(t, k, a)
    PROVE  Base'
<1> USE DEF FdbSet, indexVars, histVars
<1>1. last \in Nat /\ last' = last + 1 /\ last' \in Offsets
  BY WalAssumption DEF Base, TypeOK, Offsets
<1>2. FetchTag(handles) \in 1 .. last'
  BY FetchTagType, <1>1
<1>3. /\ handles' \in [DOMAIN handles' -> SnapHandle]
      /\ DOMAIN handles' \subseteq 1 .. last'
  <2>1. handles' = WalFetchSnapshot(handles) /\ handles \in [DOMAIN handles -> SnapHandle]
        /\ DOMAIN handles \subseteq 1 .. last
    BY DEF Base, TypeOK
  <2>2. DOMAIN handles' = DOMAIN handles \cup {FetchTag(handles)}
    BY <2>1 DEF WalFetchSnapshot
  <2>3. ASSUME NEW u \in DOMAIN handles'
        PROVE  handles'[u] \in SnapHandle
    <3>1. CASE u \notin DOMAIN handles
      BY <2>1, <2>2, <3>1 DEF WalFetchSnapshot, SnapHandle
    <3>2. CASE u \in DOMAIN handles
      <4>1. handles[u] \in SnapHandle
        BY <2>1, <3>2
      <4>2. handles'[u] = handles[u] \/ handles'[u] = [handles[u] EXCEPT !.ndocs = @ + 1]
        BY <2>1, <2>2, <3>2 DEF WalFetchSnapshot
      <4> QED
        BY <4>1, <4>2 DEF SnapHandle
    <3> QED
      BY <3>1, <3>2
  <2>4. handles' = [u \in DOMAIN handles' |-> handles'[u]]
    BY <2>1, <2>2 DEF WalFetchSnapshot
  <2> QED
    BY <1>1, <1>2, <2>1, <2>2, <2>3, <2>4
<1>4. /\ w' \in WriterCalls /\ w'.flush = {} /\ w'.txn = t /\ w'.key = k
      /\ w'.op = "set"
  <2> DEFINE tag == FetchTag(handles)
  <2>1. tag \in Nat /\ a \in Actions
    BY <1>1, <1>2, WalAssumption DEF Actions
  <2>2. w' = [NoOp EXCEPT !.op = "set", !.txn = t, !.key = k, !.act = a, !.tag = tag]
    OBVIOUS
  <2> HIDE DEF FdbSet, tag
  <2> QED
    BY <2>1, <2>2 DEF NoOp, WriterCalls
<1>5. dead' \subseteq 1 .. last'
  BY <1>1 DEF Base, TypeOK
<1>6. TypeOK'
  BY <1>1, <1>3, <1>4, <1>5 DEF Base, TypeOK
<1>7. Places'
  <2>1. \A i \in items : i.off \in Int /\ i.at \in Int
    BY DEF Base, TypeOK, Item, Offsets
  <2> QED
    BY <1>1, <2>1 DEF Base, Places
<1>8. Calls'
  BY <1>4 DEF Base, Calls
<1> QED
  BY <1>6, <1>7, <1>8 DEF Base

LEMMA BaseCommitDone ==
    ASSUME Base, WalCommitDone
    PROVE  Base'
<1> USE DEF WalCommitDone, walVars, docVars, histVars
<1>1. /\ NoOp \in WriterCalls /\ NoOp.flush = {}
  BY WalAssumption DEF NoOp, WriterCalls, Actions, Contexts
<1>2. CASE pc' = "flush"
  BY <1>2 DEF Base, TypeOK, Places, Calls, Return
<1>3. CASE pc' # "flush"
  BY <1>1, <1>3 DEF Base, TypeOK, Places, Calls, Return
<1> QED
  BY <1>2, <1>3

LEMMA BaseFinalize ==
    ASSUME Base, DirtyUpdateFinalize \/ SetFileHeader
    PROVE  Base'
<1> USE DEF docVars, histVars
<1>1. MarkFlushed(handles) \in [DOMAIN handles -> SnapHandle]
  BY DEF Base, TypeOK, MarkFlushed, SnapHandle
<1>2. /\ handles' \in [DOMAIN handles' -> SnapHandle]
      /\ DOMAIN handles' = DOMAIN handles
  BY <1>1 DEF DirtyUpdateFinalize, SetFileHeader, Base, TypeOK
<1>3. CASE DirtyUpdateFinalize
  BY <1>2, <1>3 DEF DirtyUpdateFinalize, Base, TypeOK, Places, Calls
<1>4. CASE SetFileHeader
  BY <1>2, <1>4 DEF SetFileHeader, Base, TypeOK, Places, Calls
<1> QED
  BY <1>3, <1>4

LEMMA BaseReleaseDone ==
    ASSUME Base, WalReleaseDone
    PROVE  Base'
<1> USE DEF WalReleaseDone, Return, walVars, indexVars, docVars, histVars
<1>1. /\ NoOp \in WriterCalls /\ NoOp.flush = {}
  BY WalAssumption DEF NoOp, WriterCalls, Actions, Contexts
<1> QED
  BY <1>1 DEF Base, TypeOK, Places, Calls

(* The steps that change items. *)
LEMMA BaseAbort ==
    ASSUME Base, NEW t \in Txns, FdbAbortTransaction(t)
    PROVE  Base'
<1> USE DEF FdbAbortTransaction, indexVars, docVars
<1>1. mine' \in [Contexts -> Trees]
  <2>1. [k \in Keys |-> 0] \in Trees
    BY WalAssumption DEF Trees, Offsets
  <2> QED
    BY <2>1 DEF Base, TypeOK
<1>2. /\ items' \subseteq items /\ IsFiniteSet(items')
      /\ Cardinality(LinkedTo(t)) \in Int
      /\ Cardinality({i \in LinkedTo(t) : i.committed}) \in Int
  <2>1. IsFiniteSet(items) /\ LinkedTo(t) \subseteq items
    BY DEF Base, TypeOK, LinkedTo
  <2>2. /\ IsFiniteSet(LinkedTo(t)) /\ IsFiniteSet({i \in LinkedTo(t) : i.committed})
        /\ IsFiniteSet(items \ LinkedTo(t))
    BY <2>1, FS_Subset
  <2> QED
    BY <2>2, FS_CardinalityType
<1>3. w'.flush = {}
  BY DEF Base, Calls
<1>4. TypeOK'
  BY <1>1, <1>2, <1>3 DEF Base, TypeOK
<1>5. Places' /\ Calls'
  BY <1>2, <1>3 DEF Base, Places, Calls
<1> QED
  BY <1>4, <1>5 DEF Base

(* Changing an item in place changes no count. *)
LEMMA Replace ==
    ASSUME NEW S, IsFiniteSet(S), Distinct(S), NEW i \in S, NEW it, it.born = i.born
    PROVE  LET T == (S \ {i}) \cup {it}
           IN  IsFiniteSet(T) /\ Distinct(T) /\ Cardinality(T) = Cardinality(S)
<1> DEFINE T == (S \ {i}) \cup {it}
<1>1. Distinct(T)
  BY DEF Distinct
<1>2. Born(T) = Born(S)
  <2>1. ASSUME NEW b \in Born(S)
        PROVE  b \in Born(T)
    BY DEF Born
  <2>2. ASSUME NEW b \in Born(T)
        PROVE  b \in Born(S)
    BY DEF Born
  <2> QED
    BY <2>1, <2>2
<1> HIDE DEF T
<1>3. IsFiniteSet(T) /\ Cardinality(T) = Cardinality(S)
  BY <1>1, <1>2, SameBorn
<1> QED
  BY <1>1, <1>3 DEF T

(* _wal_insert: the item it overwrites, and the one it leaves. *)
Rewritten(i) == [i EXCEPT !.off = last, !.act = w.act, !.at = PushFront, !.ready = FALSE]

Inserted == [key |-> w.key, off |-> last, act |-> w.act, txn |-> w.txn, tag |-> w.tag,
             born |-> last, at |-> PushFront, committed |-> FALSE, ready |-> FALSE,
             out |-> FALSE, linked |-> TRUE]

(* _wal_insert either overwrites an item of the same handle and context, or    *)
(* adds one.                                                                   *)
LEMMA InsertCases ==
    ASSUME Base, InsertItem
    PROVE  \/ /\ \E i \in Overwritten : items' = (items \ {i}) \cup {Rewritten(i)}
              /\ handles' = [handles EXCEPT ![w.tag].ndocs = @ - 1]
              /\ UNCHANGED <<size, num_flushable>>
           \/ /\ items' = items \cup {Inserted}
              /\ size' = size + 1
              /\ num_flushable' = num_flushable + (IF w.txn = Global THEN 1 ELSE 0)
              /\ UNCHANGED handles
<1>1. CASE Overwritten = {}
  BY <1>1 DEF InsertItem, Inserted
<1>2. CASE Overwritten # {}
  <2> DEFINE i == CHOOSE i \in Overwritten : \A j \in Overwritten : i.at <= j.at
  <2>1. last \in Nat /\ \A x \in Overwritten : x.at \in Int /\ -last <= x.at
    BY DEF Overwritten, ListOf, Base, TypeOK, Places, Item, Offsets
  <2>2. i \in Overwritten
    BY <1>2, <2>1, FirstItem
  <2> HIDE DEF i
  <2> QED
    BY <1>2, <2>2 DEF InsertItem, Rewritten, i
<1> QED
  BY <1>1, <1>2

LEMMA NoOpType ==
    /\ NoOp \in WriterCalls
    /\ NoOp.flush = {} /\ NoOp.txn = Global /\ NoOp.op = "none"
BY WalAssumption DEF NoOp, WriterCalls, Actions, Contexts

LEMMA RewrittenType ==
    ASSUME NEW i \in Item, last \in Offsets, w.act \in Actions
    PROVE  /\ Rewritten(i) \in Item
           /\ Rewritten(i).key = i.key /\ Rewritten(i).off = last
           /\ Rewritten(i).at = -last /\ Rewritten(i).born = i.born
           /\ Rewritten(i).tag = i.tag /\ Rewritten(i).txn = i.txn
           /\ Rewritten(i).committed = i.committed /\ Rewritten(i).linked = i.linked
<1> DEFINE j == Rewritten(i)
<1>1. -last \in Int
  BY DEF Offsets
<1>2. j = [i EXCEPT !.off = last, !.act = w.act, !.at = -last, !.ready = FALSE]
  BY DEF Rewritten, PushFront
<1>3. /\ j.key = i.key /\ j.off = last /\ j.act = w.act /\ j.at = -last /\ j.ready = FALSE
      /\ j.txn = i.txn /\ j.tag = i.tag /\ j.born = i.born /\ j.committed = i.committed
      /\ j.out = i.out /\ j.linked = i.linked
  BY <1>2 DEF Item
<1>4. j = [key |-> j.key, off |-> j.off, act |-> j.act, txn |-> j.txn, tag |-> j.tag,
           born |-> j.born, at |-> j.at, committed |-> j.committed, ready |-> j.ready,
           out |-> j.out, linked |-> j.linked]
  BY <1>2 DEF Item
<1> HIDE DEF j
<1>5. j \in Item
  BY <1>1, <1>3, <1>4 DEF Item
<1> QED
  BY <1>3, <1>5 DEF j

LEMMA BaseInsert ==
    ASSUME Base, WalInsert
    PROVE  Base'
<1>i. InsertItem /\ pc = "insert" /\ UNCHANGED <<last, stamp>>
  BY DEF WalInsert, docVars
<1>0. /\ last \in Nat /\ stamp \in Nat /\ last \in Offsets /\ 1 <= last
      /\ w.key \in Keys /\ w.act \in Actions /\ w.txn \in Contexts /\ w.tag \in Nat
      /\ \A x \in items : x \in Item /\ x.at \in Int /\ x.off \in Int /\ x.born \in Int
  BY <1>i DEF Base, TypeOK, Places, Offsets, Item, WriterCalls
<1>1. PICK it \in Item :
         /\ it.off = last /\ it.at = -last /\ it.key = w.key
         /\ 1 <= it.born /\ it.born <= last
         /\ \/ /\ \E i \in items : items' = (items \ {i}) \cup {it} /\ it.born = i.born
            \/ /\ items' = items \cup {it} /\ it.born = last
  <2>1. CASE \E i \in Overwritten : items' = (items \ {i}) \cup {Rewritten(i)}
    <3>1. PICK i \in Overwritten : items' = (items \ {i}) \cup {Rewritten(i)}
      BY <2>1
    <3>2. i \in items /\ i.key = w.key /\ i \in Item
      BY <1>0 DEF Overwritten, ListOf
    <3>3. /\ Rewritten(i) \in Item /\ Rewritten(i).born = i.born
          /\ Rewritten(i).off = last /\ Rewritten(i).at = -last /\ Rewritten(i).key = i.key
      BY <1>0, <3>2, RewrittenType
    <3>4. 1 <= i.born /\ i.born <= last
      BY <1>0, <3>2 DEF Base, Places
    <3> QED
      BY <3>1, <3>2, <3>3, <3>4
  <2>2. CASE items' = items \cup {Inserted}
    <3>1. /\ Inserted \in Item /\ Inserted.born = last /\ Inserted.off = last
          /\ Inserted.at = -last /\ Inserted.key = w.key
      BY <1>0 DEF Inserted, PushFront, Item
    <3> QED
      BY <1>0, <2>2, <3>1
  <2> QED
    BY <2>1, <2>2, <1>i, InsertCases
<1>2. \A x \in items : x.off < last /\ -last < x.at /\ x.born < last
  BY <1>0, <1>i DEF Base, Places
<1>3. Distinct(items) /\ IsFiniteSet(items)
  BY DEF Base, Places, Distinct, TypeOK
<1>4. Distinct(items') /\ IsFiniteSet(items') /\ items' \subseteq items \cup {it}
  <2>1. CASE \E i \in items : items' = (items \ {i}) \cup {it} /\ it.born = i.born
    <3>1. PICK i \in items : items' = (items \ {i}) \cup {it} /\ it.born = i.born
      BY <2>1
    <3> QED
      BY <3>1, <1>3, Replace
  <2>2. CASE items' = items \cup {it} /\ it.born = last
    <3>1. IsFiniteSet(items')
      BY <2>2, <1>3, FS_AddElement
    <3> QED
      BY <2>2, <3>1, <1>0, <1>2, <1>3 DEF Distinct
  <2> QED
    BY <1>1, <2>1, <2>2
<1>5. size' \in Int /\ num_flushable' \in Int
  BY <1>i, InsertCases DEF Base, TypeOK
<1>6. /\ handles' \in [DOMAIN handles' -> SnapHandle]
      /\ DOMAIN handles' = DOMAIN handles
  <2>1. CASE handles' = [handles EXCEPT ![w.tag].ndocs = @ - 1]
    <3>1. \A u \in DOMAIN handles : handles[u] \in SnapHandle
      BY DEF Base, TypeOK
    <3>2. DOMAIN handles' = DOMAIN handles
      BY <2>1
    <3>3. ASSUME NEW u \in DOMAIN handles
          PROVE  handles'[u] \in SnapHandle
      BY <2>1, <3>1 DEF SnapHandle
    <3> QED
      BY <2>1, <3>2, <3>3
  <2>2. CASE UNCHANGED handles
    BY <2>2 DEF Base, TypeOK
  <2> QED
    BY <2>1, <2>2, <1>i, InsertCases
<1>7. mine' \in [Contexts -> Trees]
  <2>1. w.txn \in Contexts /\ mine \in [Contexts -> Trees]
    BY DEF Base, TypeOK, WriterCalls
  <2>2. [mine[w.txn] EXCEPT ![w.key] = last] \in Trees
    BY <1>0, <2>1 DEF Trees
  <2>3. mine' = [mine EXCEPT ![w.txn] = [mine[w.txn] EXCEPT ![w.key] = last]]
    BY DEF WalInsert
  <2> QED
    BY <2>1, <2>2, <2>3
<1>8. /\ rd' \in [Readers -> Gets]
      /\ \A r \in Readers : /\ rd'[r].pc = rd[r].pc /\ rd'[r].key = rd[r].key
                           /\ rd'[r].root = rd[r].root
  BY <1>7, ObserveType DEF WalInsert, Base, TypeOK
<1>9. /\ w' \in WriterCalls /\ w'.flush = {} /\ pc' \in {"idle", "commit"}
      /\ w'.txn = Global /\ w'.op # "end"
  <2>1. /\ pc' \in {"idle", "commit"}
        /\ w' = NoOp \/ w' = [NoOp EXCEPT !.op = "dirty_flush"]
    BY DEF WalInsert
  <2>2. CASE w' = NoOp
    BY <2>1, <2>2, NoOpType
  <2>3. CASE w' = [NoOp EXCEPT !.op = "dirty_flush"]
    BY <2>1, <2>3, NoOpType DEF WriterCalls
  <2> QED
    BY <2>1, <2>2, <2>3
<1>10. TypeOK'
  <2>1. items' \subseteq Item
    BY <1>0, <1>4
  <2>2. /\ hdr' = hdr /\ dirty' = dirty /\ txns' = txns /\ ending' = ending
        /\ last' = last /\ dead' = dead /\ stamp' = stamp /\ latest' = latest
        /\ wal_dirty' \in {"CLEAN", "DIRTY", "PENDING"}
    BY DEF WalInsert, docVars, Base, TypeOK
  <2> QED
    BY <1>4, <1>5, <1>6, <1>7, <1>8, <1>9, <2>1, <2>2 DEF Base, TypeOK
<1>11. Places'
  BY <1>0, <1>1, <1>2, <1>4, <1>9, <1>i DEF Base, Places, Distinct
<1>12. Calls'
  BY <1>9 DEF Calls
<1> QED
  BY <1>10, <1>11, <1>12 DEF Base

(* _wal_free_item only takes handles away. *)
LEMMA FreeItemsType ==
    ASSUME NEW hs, hs \in [DOMAIN hs -> SnapHandle], NEW S, IsFiniteSet(S)
    PROVE  /\ FreeItems(hs, S) \in [DOMAIN FreeItems(hs, S) -> SnapHandle]
           /\ DOMAIN FreeItems(hs, S) \subseteq DOMAIN hs
           /\ \A t \in DOMAIN FreeItems(hs, S) :
                 /\ FreeItems(hs, S)[t].ndocs = hs[t].ndocs - Cardinality({i \in S : i.tag = t})
                 /\ FreeItems(hs, S)[t].flushed = hs[t].flushed
           /\ \A t \in DOMAIN hs \ DOMAIN FreeItems(hs, S) :
                 hs[t].ndocs = Cardinality({i \in S : i.tag = t})
<1> DEFINE left(t) == hs[t].ndocs - Cardinality({i \in S : i.tag = t})
           kept    == {t \in DOMAIN hs : t \in {i.tag : i \in S} => left(t) # 0}
<1>1. FreeItems(hs, S) = [t \in kept |-> [hs[t] EXCEPT !.ndocs = left(t)]]
  BY DEF FreeItems
<1>2. ASSUME NEW t \in DOMAIN hs
      PROVE  /\ Cardinality({i \in S : i.tag = t}) \in Nat
             /\ hs[t] \in SnapHandle /\ hs[t].ndocs \in Int /\ left(t) \in Int
  <2>1. IsFiniteSet({i \in S : i.tag = t})
    BY FS_Subset
  <2>2. Cardinality({i \in S : i.tag = t}) \in Nat
    BY <2>1, FS_CardinalityType
  <2>3. hs[t] \in SnapHandle /\ hs[t].ndocs \in Int
    BY DEF SnapHandle
  <2> QED
    BY <2>2, <2>3
<1>3. ASSUME NEW t \in DOMAIN hs \ kept
      PROVE  hs[t].ndocs = Cardinality({i \in S : i.tag = t})
  BY <1>2
<1>4. ASSUME NEW t \in kept
      PROVE  /\ [hs[t] EXCEPT !.ndocs = left(t)] \in SnapHandle
             /\ [hs[t] EXCEPT !.ndocs = left(t)].ndocs = left(t)
             /\ [hs[t] EXCEPT !.ndocs = left(t)].flushed = hs[t].flushed
  <2> HIDE DEF left
  <2> QED
    BY <1>2 DEF SnapHandle
<1>5. kept \subseteq DOMAIN hs
  OBVIOUS
<1> HIDE DEF kept
<1>6. DOMAIN FreeItems(hs, S) = kept
  BY <1>1
<1>7. ASSUME NEW t \in kept
      PROVE  /\ FreeItems(hs, S)[t] \in SnapHandle
             /\ FreeItems(hs, S)[t].ndocs = hs[t].ndocs - Cardinality({i \in S : i.tag = t})
             /\ FreeItems(hs, S)[t].flushed = hs[t].flushed
  <2>1. FreeItems(hs, S)[t] = [hs[t] EXCEPT !.ndocs = left(t)]
    BY <1>1
  <2>2. left(t) = hs[t].ndocs - Cardinality({i \in S : i.tag = t})
    OBVIOUS
  <2> HIDE DEF left
  <2> QED
    BY <1>4, <2>1, <2>2
<1>8. FreeItems(hs, S) \in [kept -> SnapHandle]
  <2>1. FreeItems(hs, S) = [t \in kept |-> FreeItems(hs, S)[t]]
    BY <1>1
  <2> QED
    BY <1>7, <2>1
<1> QED
  BY <1>3, <1>5, <1>6, <1>7, <1>8

(* wal_commit: the committed item as it is put back, and those it replaces. *)
Committed(i) == [i EXCEPT !.committed = TRUE, !.linked = FALSE, !.at = PushBack]

Dups(i) == {j \in items \ {i} : /\ j.key = i.key /\ j.committed /\ ~j.ready
                                /\ \A m \in Behind(j) \ {i} : m.committed}

LEMMA CommittedType ==
    ASSUME NEW i \in Item, stamp \in Nat
    PROVE  /\ Committed(i) \in Item
           /\ Committed(i).key = i.key /\ Committed(i).off = i.off
           /\ Committed(i).at = stamp + 1 /\ Committed(i).born = i.born
           /\ Committed(i).tag = i.tag /\ Committed(i).txn = i.txn
           /\ Committed(i).committed = TRUE /\ Committed(i).linked = FALSE
<1> DEFINE j == Committed(i)
<1>1. j = [i EXCEPT !.committed = TRUE, !.linked = FALSE, !.at = stamp + 1]
  BY DEF Committed, PushBack
<1>2. /\ j.key = i.key /\ j.off = i.off /\ j.act = i.act /\ j.at = stamp + 1
      /\ j.ready = i.ready /\ j.txn = i.txn /\ j.tag = i.tag /\ j.born = i.born
      /\ j.committed = TRUE /\ j.out = i.out /\ j.linked = FALSE
  BY <1>1 DEF Item
<1>3. j = [key |-> j.key, off |-> j.off, act |-> j.act, txn |-> j.txn, tag |-> j.tag,
           born |-> j.born, at |-> j.at, committed |-> j.committed, ready |-> j.ready,
           out |-> j.out, linked |-> j.linked]
  BY <1>1 DEF Item
<1> HIDE DEF j
<1>4. stamp + 1 \in Int
  OBVIOUS
<1>5. j \in Item
  BY <1>2, <1>3, <1>4 DEF Item
<1> QED
  BY <1>2, <1>5 DEF j

LEMMA BaseCommitItem ==
    ASSUME Base, NEW i \in items, WalCommitItem(i)
    PROVE  Base'
<1>0. /\ items' = ((items \ {i}) \ Dups(i)) \cup {Committed(i)}
      /\ size' = size - Cardinality(Dups(i))
      /\ num_flushable' = num_flushable + (IF i.txn = Global THEN 0 ELSE 1)
                          - Cardinality(Dups(i))
      /\ handles' = FreeItems(handles, Dups(i))
      /\ pc = "commit" /\ stamp' = stamp + 1
      /\ UNCHANGED <<txns, ending, hdr, dirty, wal_dirty, last, dead, pc, w>>
  BY DEF WalCommitItem, Committed, Dups, indexVars, docVars
<1>1. /\ i \in Item /\ i.key \in Keys /\ i.off \in Offsets /\ i.txn \in Contexts
      /\ stamp \in Nat /\ last \in Nat
      /\ \A x \in items : x \in Item /\ x.at \in Int /\ x.off \in Int /\ x.born \in Int
  BY DEF Base, TypeOK, Offsets, Item
<1>2. /\ Committed(i) \in Item /\ Committed(i).key = i.key /\ Committed(i).off = i.off
      /\ Committed(i).at = stamp + 1 /\ Committed(i).born = i.born
  BY <1>1, CommittedType
<1>3. Distinct(items') /\ IsFiniteSet(items') /\ items' \subseteq items \cup {Committed(i)}
  <2> DEFINE R == (items \ {i}) \cup {Committed(i)}
  <2>1. Distinct(R) /\ IsFiniteSet(R)
    BY <1>2, Replace DEF Base, TypeOK, Places, Distinct
  <2>2. items' \subseteq R
    BY <1>0
  <2> QED
    BY <2>1, <2>2, FS_Subset DEF Distinct
<1>4. IsFiniteSet(Dups(i)) /\ Cardinality(Dups(i)) \in Nat
  <2>1. IsFiniteSet(Dups(i))
    BY FS_Subset DEF Dups, Base, TypeOK
  <2> QED
    BY <2>1, FS_CardinalityType
<1>5. /\ handles' \in [DOMAIN handles' -> SnapHandle] /\ DOMAIN handles' \subseteq 1 .. last
      /\ size' \in Int /\ num_flushable' \in Int
  BY <1>0, <1>4, FreeItemsType DEF Base, TypeOK
<1>6. latest' \in Trees /\ mine' \in [Contexts -> Trees]
  <2>1. latest' = [latest EXCEPT ![i.key] = i.off]
    BY DEF WalCommitItem
  <2>2. mine' = mine \/ mine' = [mine EXCEPT ![i.txn] = [mine[i.txn] EXCEPT ![i.key] = 0]]
    BY DEF WalCommitItem
  <2>3. latest \in Trees /\ mine \in [Contexts -> Trees] /\ 0 \in Offsets
    BY WalAssumption DEF Base, TypeOK, Offsets
  <2>4. [mine[i.txn] EXCEPT ![i.key] = 0] \in Trees
    BY <1>1, <2>3 DEF Trees
  <2>5. mine' \in [Contexts -> Trees]
    BY <2>2, <2>3, <2>4
  <2> QED
    BY <1>1, <2>1, <2>3, <2>5 DEF Trees
<1>7. /\ rd' \in [Readers -> Gets]
      /\ \A r \in Readers : /\ rd'[r].pc = rd[r].pc /\ rd'[r].key = rd[r].key
                           /\ rd'[r].root = rd[r].root
  BY <1>6, ObserveType DEF WalCommitItem
<1>8. w.flush = {}
  BY <1>0 DEF Base, Calls
<1>9. TypeOK'
  <2>1. items' \subseteq Item
    BY <1>1, <1>2, <1>3
  <2>2. stamp' \in Nat
    BY <1>0, <1>1
  <2> QED
    BY <1>0, <1>3, <1>5, <1>6, <1>7, <1>8, <2>1, <2>2 DEF Base, TypeOK
<1>10. Places'
  <2>1. \A x \in items \cup {Committed(i)} :
           1 <= x.born /\ x.born <= x.off /\ x.off <= last /\ -last <= x.at /\ x.at <= stamp + 1
    BY <1>1, <1>2 DEF Base, Places
  <2>2. \A x \in items : x.at < stamp + 1
    BY <1>1 DEF Base, Places
  <2>3. ASSUME NEW x \in items', NEW y \in items', x.key = y.key, x.at = y.at
        PROVE  x = y
    BY <1>1, <1>2, <1>3, <2>2, <2>3 DEF Base, Places
  <2> QED
    BY <1>0, <1>3, <2>1, <2>3 DEF Places, Distinct
<1>11. Calls'
  BY <1>0 DEF Base, Calls
<1> QED
  BY <1>9, <1>10, <1>11 DEF Base

(* A step that changes one item in place and keeps its key, offset and place. *)
LEMMA ReplaceInPlace ==
    ASSUME Base, NEW i \in items, NEW it \in Item, items' = (items \ {i}) \cup {it},
           it.key = i.key, it.off = i.off, it.at = i.at, it.born = i.born,
           pc' # "insert", UNCHANGED <<last, stamp>>
    PROVE  items' \subseteq Item /\ IsFiniteSet(items') /\ Distinct(items') /\ Places'
<1>1. items' \subseteq Item
  BY DEF Base, TypeOK
<1>2. IsFiniteSet(items') /\ Distinct(items')
  BY Replace DEF Base, TypeOK, Places, Distinct
<1>3. Places'
  BY <1>2 DEF Base, Places, Distinct
<1> QED
  BY <1>1, <1>2, <1>3

LEMMA BaseCommitSkip ==
    ASSUME Base, NEW i \in items, WalCommitSkip(i)
    PROVE  Base'
<1> USE DEF WalCommitSkip, indexVars, docVars, histVars
<1> DEFINE it == [i EXCEPT !.linked = FALSE]
<1>1. it \in Item /\ it.key = i.key /\ it.off = i.off /\ it.at = i.at /\ it.born = i.born
  BY DEF Base, TypeOK, Item
<1>2. items' = (items \ {i}) \cup {it} /\ pc' # "insert" /\ UNCHANGED <<last, stamp>>
  OBVIOUS
<1> HIDE DEF it
<1>3. items' \subseteq Item /\ IsFiniteSet(items') /\ Places'
  BY <1>1, <1>2, ReplaceInPlace
<1>4. w.flush = {}
  BY DEF Base, Calls
<1> QED
  BY <1>3, <1>4 DEF Base, TypeOK, Calls

LEMMA BaseMarkFails ==
    ASSUME Base, NEW i \in items, CommitMarkFails(i)
    PROVE  Base'
<1> USE DEF CommitMarkFails, indexVars, docVars, histVars
<1> DEFINE it == [i EXCEPT !.committed = TRUE]
<1>1. it \in Item /\ it.key = i.key /\ it.off = i.off /\ it.at = i.at /\ it.born = i.born
  BY DEF Base, TypeOK, Item
<1>2. items' = (items \ {i}) \cup {it} /\ pc' # "insert" /\ UNCHANGED <<last, stamp>>
  OBVIOUS
<1> HIDE DEF it
<1>3. items' \subseteq Item /\ IsFiniteSet(items') /\ Places'
  BY <1>1, <1>2, ReplaceInPlace
<1> QED
  BY <1>3, NoOpType DEF Base, TypeOK, Calls

LEMMA ClaimedType ==
    ASSUME NEW i \in Item, NEW tree
    PROVE  /\ Claimed(i, tree) \in Item
           /\ Claimed(i, tree).key = i.key /\ Claimed(i, tree).off = i.off
           /\ Claimed(i, tree).at = i.at /\ Claimed(i, tree).born = i.born
           /\ Claimed(i, tree).tag = i.tag /\ Claimed(i, tree).txn = i.txn
           /\ Claimed(i, tree).committed = i.committed
           /\ Claimed(i, tree).linked = i.linked /\ Claimed(i, tree).act = i.act
           /\ Claimed(i, tree).ready = TRUE /\ Claimed(i, tree).out = NoNeed(i, tree)
<1> DEFINE o == NoNeed(i, tree)
<1>1. o \in BOOLEAN
  BY DEF NoNeed
<1>2. Claimed(i, tree) = [i EXCEPT !.ready = TRUE, !.out = o]
  BY DEF Claimed
<1> HIDE DEF o
<1>3. Claimed(i, tree) \in Item
  BY <1>1, <1>2 DEF Item
<1> QED
  BY <1>1, <1>2, <1>3 DEF Item, o

(* A flush claims at most one item per key, the one furthest back, and what   *)
(* it releases at once is not among the claimed.                              *)
LEMMA CollectedFacts ==
    ASSUME Base
    PROVE  /\ Collected \subseteq items /\ ReleasedWith(Expired) \subseteq items
           /\ Collected \cap ReleasedWith(Expired) = {}
           /\ \A i, j \in Collected : i.key = j.key => i = j
           /\ \A i \in Collected \cup ReleasedWith(Expired) : i.committed
<1>1. Collected \subseteq items /\ \A i \in Collected : i.committed
  BY DEF Collected
<1>2. \A i \in ReleasedWith(Expired) : i \in items /\ i.committed
  BY DEF ReleasedWith, Expired, CommittedRun, Before
<1>3. ASSUME NEW i \in Collected, NEW e \in Expired, i = e \/ i \in CommittedRun(e)
      PROVE  FALSE
  <2>1. e.out /\ ~i.out /\ e \in items /\ i \in items
    BY DEF Collected, Expired
  <2>2. i \in Before(e)
    BY <1>3, <2>1 DEF CommittedRun
  <2>3. e \in Behind(i)
    BY <2>1, <2>2 DEF Before, Behind, Base, TypeOK, Item
  <2> QED
    BY <2>1, <2>3 DEF Collected, Reached
<1>4. ASSUME NEW i \in Collected, NEW j \in Collected, i.key = j.key, i.at < j.at
      PROVE  FALSE
  <2>1. j \in Behind(i)
    BY <1>1, <1>4 DEF Behind, Base, TypeOK, Item
  <2> QED
    BY <2>1 DEF Collected, Reached
<1>5. \A i, j \in Collected : i.key = j.key => i = j
  <2>1. \A i \in Collected : i.at \in Int
    BY <1>1 DEF Base, TypeOK, Item
  <2> QED
    BY <1>1, <1>4, <2>1 DEF Base, Places
<1> QED
  BY <1>1, <1>2, <1>3, <1>5 DEF ReleasedWith

(* Equal but for what a flush writes into an item it claims. *)
Same(x, y) ==
    /\ x.key = y.key /\ x.off = y.off /\ x.at = y.at /\ x.born = y.born
    /\ x.tag = y.tag /\ x.txn = y.txn /\ x.committed = y.committed /\ x.linked = y.linked

Gone == ReleasedWith(Expired)

(* Up to claiming, what _wal_flush does to the lists is to drop expired items. *)
LEMMA CollectEffect ==
    ASSUME Base, NEW tree, CollectItems(tree, Gone)
    PROVE  /\ items' \subseteq Item /\ IsFiniteSet(items') /\ Distinct(items')
           /\ \A x \in items' : \E y \in items \ Gone : Same(x, y)
           /\ \A y \in items \ Gone : \E x \in items' : Same(x, y)
           /\ {Claimed(i, tree) : i \in Collected} \subseteq items'
<1> DEFINE claimed == {Claimed(i, tree) : i \in Collected}
<1>0. items' = ((items \ Gone) \ Collected) \cup claimed
  BY DEF CollectItems
<1>1. /\ Collected \subseteq items /\ Collected \cap Gone = {} /\ Gone \subseteq items
      /\ items \subseteq Item /\ IsFiniteSet(items) /\ Distinct(items)
  BY CollectedFacts DEF Gone, Base, TypeOK, Places, Distinct
<1>2. \A i \in Collected : Same(Claimed(i, tree), i) /\ Claimed(i, tree) \in Item
  BY <1>1, ClaimedType DEF Same
<1>3. \A x \in claimed : \E i \in Collected : x = Claimed(i, tree)
  OBVIOUS
<1>4. \A i \in Collected : Claimed(i, tree) \in claimed
  OBVIOUS
<1> HIDE DEF claimed
<1>5. items' \subseteq Item
  BY <1>0, <1>1, <1>2, <1>3
<1>6. ASSUME NEW x \in items'
      PROVE  \E y \in items \ Gone : Same(x, y) /\ (x \notin claimed => x = y)
                                     /\ (x \in claimed => y \in Collected /\ x = Claimed(y, tree))
  <2>1. CASE x \in claimed
    BY <1>1, <1>2, <1>3, <2>1
  <2>2. CASE x \notin claimed
    BY <1>0, <2>2 DEF Same
  <2> QED
    BY <2>1, <2>2
<1>7. ASSUME NEW y \in items \ Gone
      PROVE  \E x \in items' : Same(x, y)
  <2>1. CASE y \in Collected
    BY <1>0, <1>2, <1>4, <2>1
  <2>2. CASE y \notin Collected
    BY <1>0, <2>2 DEF Same
  <2> QED
    BY <2>1, <2>2
<1>8. Distinct(items')
  <2> SUFFICES ASSUME NEW x \in items', NEW z \in items', x.born = z.born
               PROVE  x = z
    BY DEF Distinct
  <2>1. PICK y \in items \ Gone : Same(x, y) /\ (x \notin claimed => x = y)
                /\ (x \in claimed => y \in Collected /\ x = Claimed(y, tree))
    BY <1>6
  <2>2. PICK u \in items \ Gone : Same(z, u) /\ (z \notin claimed => z = u)
                /\ (z \in claimed => u \in Collected /\ z = Claimed(u, tree))
    BY <1>6
  <2>3. y = u
    BY <1>1, <2>1, <2>2 DEF Same, Distinct
  <2>4. CASE y \in Collected
    <3>1. ASSUME NEW v \in items', v \notin claimed
          PROVE  v \notin Collected
      BY <1>0, <3>1
    <3> QED
      BY <2>1, <2>2, <2>3, <2>4, <3>1
  <2>5. CASE y \notin Collected
    BY <2>1, <2>2, <2>3, <2>5
  <2> QED
    BY <2>4, <2>5
<1>9. IsFiniteSet(items')
  <2>1. IsFiniteSet(items \ Gone) /\ Distinct(items \ Gone)
    BY <1>1, FS_Subset DEF Distinct
  <2>2. Born(items \ Gone) = Born(items')
    BY <1>6, <1>7 DEF Born, Same
  <2> QED
    BY <1>8, <2>1, <2>2, SameBorn
<1> QED
  BY <1>0, <1>5, <1>6, <1>7, <1>8, <1>9 DEF claimed

LEMMA CollectPlaces ==
    ASSUME Base, NEW tree, CollectItems(tree, Gone), pc' # "insert", UNCHANGED <<last, stamp>>
    PROVE  Places'
<1>1. \A x \in items' : \E y \in items : Same(x, y)
  BY CollectEffect
<1>2. Distinct(items')
  BY CollectEffect
<1>3. ASSUME NEW x \in items'
      PROVE  1 <= x.born /\ x.born <= x.off /\ x.off <= last /\ -last <= x.at /\ x.at <= stamp
  BY <1>1 DEF Same, Base, Places
<1>4. ASSUME NEW x \in items', NEW y \in items', x.key = y.key, x.at = y.at
      PROVE  x = y
  <2>1. PICK u \in items : Same(x, u)
    BY <1>1
  <2>2. PICK v \in items : Same(y, v)
    BY <1>1
  <2>3. u = v
    BY <1>4, <2>1, <2>2 DEF Same, Base, Places
  <2> QED
    BY <1>2, <2>1, <2>2, <2>3 DEF Same, Distinct
<1> QED
  BY <1>2, <1>3, <1>4 DEF Places, Distinct

LEMMA CollectTypes ==
    ASSUME Base, NEW tree, CollectItems(tree, Gone)
    PROVE  /\ handles' \in [DOMAIN handles' -> SnapHandle] /\ DOMAIN handles' \subseteq 1 .. last
           /\ size' \in Int /\ num_flushable' \in Int
<1>1. IsFiniteSet(Gone)
  BY CollectedFacts, FS_Subset DEF Gone, Base, TypeOK
<1>2. Cardinality(Gone) \in Nat
  BY <1>1, FS_CardinalityType
<1> QED
  BY <1>1, <1>2, FreeItemsType DEF CollectItems, Base, TypeOK

LEMMA BaseTreeType == Base => BaseTree \in Trees
BY DEF BaseTree, Base, TypeOK

LEMMA BaseFlush ==
    ASSUME Base, WalFlush
    PROVE  Base'
<1> DEFINE claimed == {Claimed(i, BaseTree) : i \in Collected}
           tree    == Flushed(BaseTree, claimed)
<1>0. /\ CollectItems(BaseTree, Gone) /\ pc = "flush" /\ pc' = "finalize"
      /\ w' = [w EXCEPT !.tree = tree, !.flush = claimed]
      /\ UNCHANGED <<txns, ending, stamp, hdr, dirty, wal_dirty, last, dead, rd, latest, mine>>
  BY DEF WalFlush, Gone, indexVars, docVars, histVars
<1>1. /\ claimed \subseteq items' /\ items' \subseteq Item /\ IsFiniteSet(items') /\ Places'
  BY <1>0, CollectEffect, CollectPlaces
<1>2. /\ \A x \in claimed : x.committed
      /\ \A x, y \in claimed : x.key = y.key => x = y
  <2>1. /\ Collected \subseteq items /\ items \subseteq Item
        /\ \A i \in Collected : i.committed
        /\ \A i, j \in Collected : i.key = j.key => i = j
    BY CollectedFacts DEF Base, TypeOK
  <2>2. \A i \in Collected : /\ Claimed(i, BaseTree).committed = i.committed
                             /\ Claimed(i, BaseTree).key = i.key
    BY <2>1, ClaimedType
  <2> QED
    BY <2>1, <2>2
<1>3. tree \in Trees
  <2>1. BaseTree \in Trees
    BY BaseTreeType
  <2> HIDE DEF claimed
  <2>2. ASSUME NEW k \in Keys
        PROVE  tree[k] \in Offsets
    <3>1. CASE \E i \in claimed : i.key = k /\ ~i.out
      <4>1. PICK i \in claimed : tree[k] = IF i.act = "REMOVE" THEN 0 ELSE i.off
        BY <3>1 DEF Flushed
      <4>2. i.off \in Offsets /\ 0 \in Offsets
        BY <1>1, WalAssumption DEF Item, Offsets
      <4> QED
        BY <4>1, <4>2
    <3>2. CASE ~\E i \in claimed : i.key = k /\ ~i.out
      BY <2>1, <3>2 DEF Flushed, Trees
    <3> QED
      BY <3>1, <3>2
  <2>3. tree = [k \in Keys |-> tree[k]]
    BY DEF Flushed
  <2> HIDE DEF tree
  <2> QED
    BY <2>2, <2>3 DEF Trees
<1> HIDE DEF claimed, tree
<1>4. /\ w' \in WriterCalls /\ w'.tree = tree /\ w'.flush = claimed
      /\ w'.txn = w.txn /\ w'.op = w.op
  <2>1. w \in WriterCalls /\ claimed \in SUBSET Item
    BY <1>1 DEF Base, TypeOK
  <2> QED
    BY <1>0, <1>3, <2>1 DEF WriterCalls
<1>5. TypeOK'
  BY <1>0, <1>1, <1>3, <1>4, CollectTypes DEF Base, TypeOK
<1>6. Calls'
  BY <1>0, <1>2, <1>4 DEF Base, Calls
<1> QED
  BY <1>1, <1>5, <1>6 DEF Base

LEMMA BaseFlushFails ==
    ASSUME Base, WalFlushFails
    PROVE  Base'
<1>0. /\ CollectItems(BaseTree, Gone) /\ pc' = "idle" /\ w' = NoOp
      /\ UNCHANGED <<txns, ending, stamp, hdr, dirty, wal_dirty, last, dead, rd, latest, mine>>
  BY DEF WalFlushFails, Gone, indexVars, docVars, histVars
<1>1. items' \subseteq Item /\ IsFiniteSet(items') /\ Places'
  BY <1>0, CollectEffect, CollectPlaces
<1> QED
  BY <1>0, <1>1, CollectTypes, NoOpType DEF Base, TypeOK, Calls

(* Releasing a flushed item takes along the committed items before it, all of  *)
(* its key, so the other claimed items stay.                                   *)
LEMMA ReleasedFacts ==
    ASSUME Base, NEW i \in w.flush
    PROVE  /\ i \in items /\ ReleasedWith({i}) \subseteq items
           /\ i \in ReleasedWith({i})
           /\ IsFiniteSet(ReleasedWith({i})) /\ Cardinality(ReleasedWith({i})) \in Nat
           /\ \A j \in ReleasedWith({i}) : j.committed /\ j.key = i.key
<1>1. i \in items /\ i.committed
  BY DEF Base, TypeOK, Calls
<1>2. ReleasedWith({i}) = {i} \cup CommittedRun(i)
  BY DEF ReleasedWith
<1>3. /\ ReleasedWith({i}) \subseteq items
      /\ \A j \in ReleasedWith({i}) : j.committed /\ j.key = i.key
  BY <1>1, <1>2 DEF CommittedRun, Before
<1>4. IsFiniteSet(ReleasedWith({i}))
  BY <1>3, FS_Subset DEF Base, TypeOK
<1> QED
  BY <1>1, <1>2, <1>3, <1>4, FS_CardinalityType

LEMMA BaseReleaseItem ==
    ASSUME Base, NEW i \in w.flush, WalReleaseItem(i)
    PROVE  Base'
<1> DEFINE gone == ReleasedWith({i})
<1>0. /\ items' = items \ gone /\ size' = size - Cardinality(gone)
      /\ num_flushable' = num_flushable - Cardinality(gone)
      /\ handles' = FreeItems(handles, gone) /\ w' = [w EXCEPT !.flush = @ \ {i}]
      /\ UNCHANGED <<stamp, txns, ending, hdr, dirty, wal_dirty, last, dead, pc, rd, latest, mine>>
  BY DEF WalReleaseItem, indexVars, docVars, histVars
<1>1. /\ i \in items /\ IsFiniteSet(gone) /\ Cardinality(gone) \in Nat
      /\ \A j \in gone : j.key = i.key
  BY ReleasedFacts
<1>p. pc = "release"
  BY DEF WalReleaseItem
<1> HIDE DEF gone
<1>2. IsFiniteSet(items')
  BY <1>0, FS_Subset DEF Base, TypeOK
<1>3. /\ w' \in WriterCalls /\ w'.flush = w.flush \ {i} /\ w'.txn = w.txn /\ w'.op = w.op
  BY <1>0 DEF Base, TypeOK, WriterCalls
<1>4. w'.flush \subseteq items'
  BY <1>0, <1>1, <1>3 DEF Base, TypeOK, Calls
<1>5. /\ handles' \in [DOMAIN handles' -> SnapHandle] /\ DOMAIN handles' \subseteq 1 .. last
      /\ size' \in Int /\ num_flushable' \in Int
  BY <1>0, <1>1, FreeItemsType DEF Base, TypeOK
<1>6. TypeOK'
  BY <1>0, <1>p, <1>2, <1>3, <1>4, <1>5 DEF Base, TypeOK
<1>7. Places' /\ Calls'
  BY <1>0, <1>p, <1>3 DEF Base, Places, Calls
<1> QED
  BY <1>6, <1>7 DEF Base

LEMMA BaseNext == Base /\ [Next]_vars => Base'
<1> SUFFICES ASSUME Base, [Next]_vars
             PROVE  Base'
  OBVIOUS
<1>1. CASE UNCHANGED vars
  BY <1>1 DEF vars, Base, TypeOK, Places, Calls
<1>2. CASE WriterCall
  BY <1>2, BaseBegin, BaseAbort, BaseEnd, BaseSet, BaseCommit DEF WriterCall
<1>3. CASE WriterStep
  BY <1>3, BaseInsert, BaseCommitItem, BaseCommitSkip, BaseMarkFails, BaseCommitDone,
     BaseFlush, BaseFlushFails, BaseFinalize, BaseReleaseDone, BaseReleaseItem
     DEF WriterStep
<1>4. CASE \E r \in Readers, t \in Contexts, k \in Keys : WalFind(r, t, k)
  BY <1>4, BaseFind
<1>5. CASE \E r \in Readers : ReaderStep(r)
  BY <1>5, BaseReader
<1> QED
  BY <1>1, <1>2, <1>3, <1>4, <1>5 DEF Next

LEMMA BaseInvariant == Spec => []Base
BY BaseInit, BaseNext, PTL DEF Spec

(* Every variable keeps its type; in particular there are never more snapshot  *)
(* handles than documents, the items a flush has claimed stay in their lists   *)
(* until it releases them, and an fdb_get never looks into a missing root.     *)
THEOREM TypeCorrect == Spec => []TypeOK
BY BaseInvariant, PTL DEF Base
=============================================================================
