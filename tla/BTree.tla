------------------------------- MODULE BTree -------------------------------
(***************************************************************************)
(* The copy-on-write B+tree (btree.cc) and the node allocator below it     *)
(* (btreeblock.cc): several trees of one handle take their nodes from the  *)
(* same append-only file.  A small root lives in a slot of a sub-block     *)
(* container; it moves to a larger slot, then to a block of its own, then  *)
(* is split.  A node in a block that a commit has made immutable is copied *)
(* before it is changed, and its parents with it.                          *)
(*                                                                         *)
(* An address is <<block, class, slot>>: class 0 is a whole block, class s *)
(* in 1..nsb a slot of a container of the handle's s-th sub-block set.     *)
(* Sizes are counted in entries: SbCap[t][s] and NodeCap[t] entries of     *)
(* tree t fit into a slot and a block, its metadata takes MetaSize[t].     *)
(***************************************************************************)
EXTENDS Integers, Sequences, FiniteSets, TLC

CONSTANTS Tree, Key, Val, NoVal,
          nsb,          \* number of sub-block sets (handle->nsb)
          Slots,        \* slots of a container of each set
          SbCap,        \* entries that fit into such a slot
          NodeCap,      \* entries that fit into a block
          MetaSize,     \* room the metadata of a tree's root takes
          MaxBlk        \* bound: blocks ever allocated

ASSUME SbAssumption ==
  /\ Key \subseteq Int
  /\ nsb \in Nat
  /\ \A s \in 1..nsb : Slots[s] > 1
  /\ \A t \in Tree : /\ NodeCap[t] > 1
                     /\ \A s \in 1..nsb : SbCap[t][s] < NodeCap[t]
                     /\ \A s \in 2..nsb : SbCap[t][s] > SbCap[t][s-1]

VARIABLES st,           \* the file and the allocator: see StInit
          root,         \* [Tree -> address or NoBid]: btree->root_bid
          com,          \* the roots in the last committed header
          ret           \* result of the last call

bvars == <<st, root, com, ret>>

NoBid == <<-1, 0, 0>>               \* BLK_NOT_FOUND
Ent(k, v) == <<k, v>>
Lo(S) == CHOOSE x \in S : \A y \in S : x <= y

(***************************************************************************)
(* The state of the handle: n, the nodes by address; nxt, the next block   *)
(* of the file; wr, the first block after the last commit (the blocks      *)
(* before it are immutable); sb, the sub-block sets with the bitmap of     *)
(* their current container; stale, the regions given to                    *)
(* filemgr_add_stale_block.                                                *)
(***************************************************************************)
NoSb == [bid |-> -1, bitmap |-> {}]
btreeblk_init == [s \in 1..nsb |-> NoSb]

is_writable(s, b) == b >= s.wr
is_subblock(a) == a[2] > 0
CapOf(t, a) == IF is_subblock(a) THEN SbCap[t][a[2]] ELSE NodeCap[t]

Stale(s, A) == [s EXCEPT !.stale = @ \cup A]
FreeSlots(s, c) == {i \in 0..(Slots[c] - 1) : i \notin s.sb[c].bitmap}
Unused(s, c) == {<<s.sb[c].bid, c, i>> : i \in FreeSlots(s, c)}

Store(s, a, node) == [s EXCEPT !.n = (a :> node) @@ @]
\* _btreeblk_alloc: a block at the end of the file
Alloced(s) == [s EXCEPT !.nxt = @ + 1]
\* ... that becomes the container of set c, with the slots I in use
Container(s, c, I) == [Alloced(s) EXCEPT !.sb[c] = [bid |-> s.nxt, bitmap |-> I]]

(***************************************************************************)
(* btreeblk_alloc_sub: the slot for the root of a new tree.                *)
(***************************************************************************)
SlotIn(s, c) == <<s.sb[c].bid, c, Lo(FreeSlots(s, c))>>
Usable(s, c) == s.sb[c].bid # -1 /\ is_writable(s, s.sb[c].bid) /\ FreeSlots(s, c) # {}
TakeSlotUnmarked(s, a) == s                                   \* mutant
TakeSlot(s, a) == [s EXCEPT !.sb[a[2]].bitmap = @ \cup {a[3]}]

btreeblk_alloc_sub(s) ==
  IF nsb = 0 THEN [st |-> Alloced(s), a |-> <<s.nxt, 0, 0>>]
  ELSE IF Usable(s, 1) THEN [st |-> TakeSlot(s, SlotIn(s, 1)), a |-> SlotIn(s, 1)]
  ELSE [st |-> Container(IF s.sb[1].bid # -1 /\ ~is_writable(s, s.sb[1].bid)
                         THEN Stale(s, Unused(s, 1)) ELSE s, 1, {0}),
        a |-> <<s.nxt, 1, 0>>]

(***************************************************************************)
(* btreeblk_move: a node of an immutable block is copied.  A sub-block     *)
(* goes into the current container of its set if that has a free slot and  *)
(* may still be written, else into a new container.                        *)
(***************************************************************************)
MovedTo(s, a, b) ==         \* the copy, and the old region becomes stale
  [st |-> Stale(Store(s, b, s.n[a]), {a}), a |-> b]

btreeblk_move(s, a) ==
  IF ~is_subblock(a) THEN MovedTo(Alloced(s), a, <<s.nxt, 0, 0>>)
  ELSE IF Usable(s, a[2]) THEN MovedTo(TakeSlot(s, SlotIn(s, a[2])), a, SlotIn(s, a[2]))
  ELSE MovedTo(Container(IF s.sb[a[2]].bid # -1 THEN Stale(s, Unused(s, a[2])) ELSE s,
                         a[2], {0}),
               a, <<s.nxt, a[2], 0>>)

\* btreeblk_remove.  The test that should find the container of a removed
\* sub-block empty reads the bitmap's address and never does.
btreeblk_remove(s, a) ==
  IF ~is_subblock(a) THEN Stale(s, {a})
  ELSE IF s.sb[a[2]].bid = a[1] THEN [s EXCEPT !.sb[a[2]].bitmap = @ \ {a[3]}]
  ELSE s

(***************************************************************************)
(* btreeblk_enlarge_node: the node at sub-block a moves to the smallest    *)
(* set whose slots take req entries, or to a block of its own (class 0).   *)
(***************************************************************************)
Bigger(t, a, req) == LET C == {c \in (a[2]+1)..nsb : SbCap[t][c] >= req}
                     IN  IF C = {} THEN 0 ELSE Lo(C)
NItems(s, c) == IF c = 0 THEN 0 ELSE Cardinality(s.sb[c].bitmap)

\* case 1: the node is alone in a container that is current and writable:
\* the whole container changes sets
Alone(s, a) == /\ NItems(s, a[2]) = 1
               /\ a[1] = s.sb[a[2]].bid
               /\ is_writable(s, a[1])
Switched(s, a, c) ==
  [st |-> [Store(s, <<a[1], c, 0>>, s.n[a]) EXCEPT
             !.sb = [d \in 1..nsb |-> IF d = a[2] THEN NoSb
                                      ELSE IF d = c THEN [bid |-> a[1], bitmap |-> {0}]
                                      ELSE @[d]]],
   a |-> <<a[1], c, 0>>]

\* the source slot is free again if its container is current, else stale;
\* case 3 asks whether the set has a current container at all
SrcFreed(s, a, marks) ==
  IF a[1] = s.sb[a[2]].bid THEN [s EXCEPT !.sb[a[2]].bitmap = @ \ {a[3]}]
  ELSE IF marks THEN Stale(s, {a}) ELSE s

Copied(s, a, b, marks) ==
  [st |-> SrcFreed(Store(s, b, s.n[a]), a, marks), a |-> b]

EnlargedTo(s, a, c) ==
  IF NItems(s, c) = 0 THEN
    IF Alone(s, a) THEN Switched(s, a, c)
    ELSE Copied(IF c > 0 THEN Container(s, c, {0}) ELSE Alloced(s),
                a, <<s.nxt, c, 0>>, TRUE)                        \* case 2
  ELSE IF Usable(s, c)
       THEN Copied(TakeSlot(s, SlotIn(s, c)), a, SlotIn(s, c),   \* case 3-1
                   s.sb[a[2]].bid # -1)
       ELSE Copied(Container(s, c, {0}), a, <<s.nxt, c, 0>>,     \* case 3-2
                   s.sb[a[2]].bid # -1)

btreeblk_enlarge_node(t, s, a, req) == EnlargedTo(s, a, Bigger(t, a, req))

\* btreeblk_reset_subblock_info: at the end of a flush and of a commit
btreeblk_reset_subblock_info(s) ==
  [Stale(s, UNION {Unused(s, c) : c \in {d \in 1..nsb : s.sb[d].bid # -1}})
     EXCEPT !.sb = btreeblk_init]

(***************************************************************************)
(* Nodes.  Level 1 is a leaf; an entry of a higher node has the smallest   *)
(* key of a child and the child's address.                                 *)
(***************************************************************************)
Node(level, ents, m) == [level |-> level, ents |-> ents, meta |-> m]

\* _btree_find_entry: the largest entry not above the key, 0 if none
find_entry(es, key) ==
  Cardinality({i \in DOMAIN es : es[i][1] <= key})

Holds(es, key) == \E i \in DOMAIN es : es[i][1] = key

\* _btree_add_entry: update in place, or insert after the found entry
AddAt(es, i, e) ==
  IF Holds(es, e[1]) THEN [es EXCEPT ![i] = e]
  ELSE SubSeq(es, 1, i) \o <<e>> \o SubSeq(es, i + 1, Len(es))
add_entry(es, e) == AddAt(es, find_entry(es, e[1]), e)

\* _btree_remove_entry: removes what find_entry finds
DropAt(es, i) == IF i = 0 THEN es
                 ELSE SubSeq(es, 1, i - 1) \o SubSeq(es, i + 1, Len(es))
remove_entry(es, key) == DropAt(es, find_entry(es, key))

RECURSIVE add_entries(_, _)
add_entries(es, ins) ==
  IF ins = <<>> THEN es ELSE add_entries(add_entry(es, Head(ins)), Tail(ins))

\* The path from the root a to the leaf for key, the leaf first; a key
\* below every key of an index node follows its first entry.
RECURSIVE PathTo(_, _, _)
PathTo(s, a, key) ==
  LET es == s.n[a].ents
      i == find_entry(es, key)
      j == IF i = 0 THEN 1 ELSE i
  IN  IF s.n[a].level = 1 THEN <<[a |-> a, i |-> i]>>
      ELSE Append(PathTo(s, es[j][2], key), [a |-> a, i |-> j])

\* btree_find
RECURSIVE btree_find(_, _, _)
btree_find(s, a, key) ==
  LET es == s.n[a].ents
      i == find_entry(es, key)
  IN  IF i = 0 THEN NoVal
      ELSE IF s.n[a].level > 1 THEN btree_find(s, es[i][2], key)
      ELSE IF es[i][1] = key THEN es[i][2] ELSE NoVal

\* A node's new contents, in place if its block may be written, else in a
\* copy (blk_is_writable, blk_set_dirty, _btree_move_modified_node).
Written(r, node) == [st |-> Store(r.st, r.a, node), a |-> r.a]
WriteNode(s, a, node) ==
  Written(IF is_writable(s, a[1]) THEN [st |-> s, a |-> a] ELSE btreeblk_move(s, a), node)

(***************************************************************************)
(* _btree_split_node: the entries are dealt to nn nodes (get_nth_idx), the *)
(* new ones go to their place, and the first keys of the nodes after the   *)
(* first are inserted into the parent.  A root is put under a new root     *)
(* that takes over its metadata; btree_update_meta, called to remove the   *)
(* metadata from the old one, already moves it once.                       *)
(***************************************************************************)
nth_idx(n, j, den) == (n \div den) * j + (IF j < n % den THEN j ELSE n % den)
Pieces(es, nn) ==
  [j \in 1..nn |-> SubSeq(es, nth_idx(Len(es), j - 1, nn) + 1, nth_idx(Len(es), j, nn))]

PieceFor(P, key) == LET J == {j \in 2..Len(P) : key < P[j][1][1]}
                    IN  IF J = {} THEN Len(P) ELSE Lo(J) - 1
RECURSIVE Deal(_, _)
Deal(P, ins) ==
  IF ins = <<>> THEN P
  ELSE Deal([P EXCEPT ![PieceFor(P, Head(ins)[1])] = add_entry(@, Head(ins))], Tail(ins))

MinKey(es, minkey, key) == IF minkey THEN [es EXCEPT ![1][1] = key] ELSE es
FirstMinKey(P, minkey, key) == [P EXCEPT ![1] = MinKey(@, minkey, key)]

nsplitnode(n, space) == LET k == (n + space - 1) \div space IN IF k = 1 THEN 2 ELSE k

NewNodes(s, P, level) ==        \* the nodes after the first, in new blocks
  [s EXCEPT !.n = [a \in {<<s.nxt + j - 2, 0, 0>> : j \in 2..Len(P)}
                     |-> Node(level, P[a[1] - s.nxt + 2], NoVal)] @@ @,
            !.nxt = @ + Len(P) - 1]
Splitters(s, P) ==
  [j \in 1..(Len(P) - 1) |-> Ent(P[j+1][1][1], <<s.nxt + j - 1, 0, 0>>)]

\* the root's own case; u is the state after btree_update_meta(NULL)
UpdatedMeta(s, a) ==
  IF is_writable(s, a[1]) THEN s ELSE btreeblk_move(s, a).st
RootOver(r, nr, es, level, m) ==
  [st |-> Store(r.st, nr, Node(level, <<Ent(r.st.n[r.a].ents[1][1], r.a)>> \o es, m)),
   a |-> nr]
GrowUp(u, a, P, splitters, node) ==
  RootOver(WriteNode(Alloced(u), a, Node(node.level, P[1], NoVal)),
           <<u.nxt, 0, 0>>, splitters, node.level + 1, node.meta)

(***************************************************************************)
(* btree_insert: from the leaf to the root, level i of the path p.  ins is *)
(* what the level below wants inserted, child the address it moved to.     *)
(***************************************************************************)
RECURSIVE Up(_, _, _, _, _, _, _, _)
\* after a level whose node is now at r.a
Next1(t, r, p, i, key, ins, was) ==
  IF i = Len(p) THEN r
  ELSE Up(t, r.st, p, i + 1, key, ins, IF r.a = was THEN NoBid ELSE r.a, p[i+1].a)

NodeRoomNoMeta(s, t, a) == CapOf(t, a)                         \* mutant
NodeRoom(s, t, a) == CapOf(t, a) - (IF s.n[a].meta = NoVal THEN 0 ELSE MetaSize[t])

SplitLevel(t, s, p, i, key, a, es, P) ==
  IF i = Len(p)
  THEN GrowUp(UpdatedMeta(NewNodes(s, P, s.n[a].level), a), a, P, Splitters(s, P), s.n[a])
  ELSE Next1(t, WriteNode(NewNodes(s, P, s.n[a].level), a, [s.n[a] EXCEPT !.ents = P[1]]),
             p, i, key, Splitters(s, P), p[i].a)

\* a: where the node of this level is now; es: its entries with the child's
\* new address
Level(t, s, p, i, key, ins, a, es, minkey) ==
  IF ins = <<>> /\ ~minkey
  THEN Next1(t, IF es = s.n[a].ents THEN [st |-> s, a |-> a]
                ELSE WriteNode(s, a, [s.n[a] EXCEPT !.ents = es]),
             p, i, key, <<>>, p[i].a)
  ELSE IF \/ i = 1 /\ Holds(es, key)
          \/ Len(es) + Len(ins) <= NodeRoom(s, t, a)
  THEN Next1(t, WriteNode(s, a, [s.n[a] EXCEPT !.ents =
                                   MinKey(add_entries(es, ins), minkey, key)]),
             p, i, key, <<>>, p[i].a)
  ELSE SplitLevel(t, s, p, i, key, a, es,
                  FirstMinKey(Deal(Pieces(es, nsplitnode(Len(es) + Len(ins),
                                                         NodeCap[t] - (CapOf(t, a) - NodeRoom(s, t, a)))),
                                   ins), minkey, key))

\* "start over" after the node has been enlarged
RECURSIVE Enlarged(_, _, _, _, _, _, _, _)
Enlarged(t, s, p, i, key, ins, a, es) ==
  IF /\ is_subblock(a)
     /\ ~(i = 1 /\ Holds(es, key))
     /\ Len(es) + Len(ins) > NodeRoom(s, t, a)
  THEN LET r == btreeblk_enlarge_node(t, s, a, Len(es) + Len(ins) + CapOf(t, a) - NodeRoom(s, t, a))
       IN  Enlarged(t, r.st, p, i, key, ins, r.a, es)
  ELSE Level(t, s, p, i, key, ins, a, es,
             i > 1 /\ p[i].i = 1 /\ key < es[1][1])

Up(t, s, p, i, key, ins, child, a) ==
  Enlarged(t, s, p, i, key, ins, a,
           IF child = NoBid THEN s.n[a].ents ELSE [s.n[a].ents EXCEPT ![p[i].i][2] = child])

Inserted(t, s, a, key, val) == Up(t, s, PathTo(s, a, key), 1, key, <<Ent(key, val)>>, NoBid,
                                  PathTo(s, a, key)[1].a)

(***************************************************************************)
(* btree_remove: the entry that find_entry finds is taken out of the leaf; *)
(* an empty node is removed from its parent, and a root left with one      *)
(* child gives way to that child if the metadata fits into it.  c is the   *)
(* level below as it is now.                                               *)
(***************************************************************************)
\* the entry for the child, with its smallest key and its address
FixChildAddr(es, idx, c) == [es EXCEPT ![idx][2] = c.a]         \* mutant
FixChild(es, idx, c) ==
  [es EXCEPT ![idx] = Ent(IF c.ents = <<>> THEN es[idx][1] ELSE c.ents[1][1], c.a)]

Shrunk(s, t, child, m) ==           \* the child becomes the root
  [st |-> btreeblk_remove(Store(Alloced(s), <<s.nxt, 0, 0>>, [s.n[child] EXCEPT !.meta = m]),
                          child),
   a |-> <<s.nxt, 0, 0>>]

RootRemoved(s, t, a, es, child) ==
  IF Len(s.n[child].ents) + (IF s.n[a].meta = NoVal THEN 0 ELSE MetaSize[t]) <= CapOf(t, child)
  THEN Shrunk(btreeblk_remove(s, a), t, child, s.n[a].meta)
  ELSE WriteNode(btreeblk_remove(s, a), a, [s.n[a] EXCEPT !.ents = es])

RECURSIVE RemoveUp(_, _, _, _, _, _)
ParentOf(t, r, p, i, rmv, ents) ==
  IF i = Len(p) THEN r
  ELSE RemoveUp(t, r.st, p, i + 1, rmv, [a |-> r.a, ents |-> ents])

Rewritten(t, s, p, i, a, es) ==     \* the level keeps its node
  ParentOf(t, IF es = s.n[a].ents THEN [st |-> s, a |-> a]
              ELSE WriteNode(s, a, [s.n[a] EXCEPT !.ents = es]), p, i, FALSE, es)

\* es: the entries before, left: after the removal
RemoveLevel(t, s, p, i, a, es, left) ==
  IF Len(p) = 1 \/ Len(left) > (IF i = Len(p) THEN 1 ELSE 0)
  THEN Rewritten(t, s, p, i, a, left)
  ELSE IF i = Len(p)
  THEN RootRemoved(s, t, a, left, IF left = <<>> THEN es[p[i].i][2] ELSE left[1][2])
  ELSE ParentOf(t, WriteNode(btreeblk_remove(s, a), a, [s.n[a] EXCEPT !.ents = left]),
                p, i, TRUE, left)

RemoveUp(t, s, p, i, rmv, c) ==
  LET es == IF i = 1 THEN s.n[p[i].a].ents ELSE FixChild(s.n[p[i].a].ents, p[i].i, c)
  IN  IF rmv THEN RemoveLevel(t, s, p, i, p[i].a, es, remove_entry(es, es[p[i].i][1]))
      ELSE Rewritten(t, s, p, i, p[i].a, es)

Removed(t, s, a, key) == RemoveUp(t, s, PathTo(s, a, key), 1, TRUE, [a |-> a, ents |-> <<>>])

(***************************************************************************)
(* The handle's operations.  Nodes that no root reaches any more are       *)
(* forgotten: nothing reads them.  So are stale regions of blocks that     *)
(* neither hold a node of a current root nor are a current container:      *)
(* nothing is put there again.                                             *)
(***************************************************************************)
RECURSIVE Reach(_, _)
Reach(s, A) ==
  A \cup UNION {Reach(s, {s.n[a].ents[i][2] : i \in DOMAIN s.n[a].ents}) :
                   a \in {b \in A : s.n[b].level > 1}}
Roots(rt, cm) == ({rt[t] : t \in Tree} \cup {cm[t] : t \in Tree}) \ {NoBid}
InUse(s, R) == {a[1] : a \in Reach(s, R)} \cup {s.sb[c].bid : c \in 1..nsb}
Kept(s, rt, cm) ==
  [s EXCEPT !.n = [a \in Reach(s, Roots(rt, cm)) |-> s.n[a]],
            !.stale = {b \in @ : b[1] \in InUse(s, Roots(rt, rt))}]

StInit == [n |-> [a \in {} |-> Node(1, <<>>, NoVal)], nxt |-> 0, wr |-> 0,
           sb |-> btreeblk_init, stale |-> {}]

BInit ==
  /\ st = StInit
  /\ root = [t \in Tree |-> NoBid]
  /\ com = root
  /\ ret = "none"

Installed(t, r) ==
  /\ r.st.nxt <= MaxBlk
  /\ root' = [root EXCEPT ![t] = r.a]
  /\ st' = Kept(r.st, [root EXCEPT ![t] = r.a], com)
  /\ UNCHANGED com

\* btree_init: the new root, with metadata if the tree has any
WithMeta(t, r) ==
  IF MetaSize[t] > CapOf(t, r.a) /\ is_subblock(r.a)
  THEN btreeblk_enlarge_node(t, Store(r.st, r.a, Node(1, <<>>, NoVal)), r.a, MetaSize[t])
  ELSE r
btree_init(t, m) ==
  /\ root[t] = NoBid
  /\ (m = NoVal) <=> (MetaSize[t] = 0)
  /\ Installed(t, Written(WithMeta(t, btreeblk_alloc_sub(st)), Node(1, <<>>, m)))
  /\ ret' = "SUCCESS"

btree_insert(t, k, v) ==
  /\ root[t] # NoBid
  /\ Installed(t, Inserted(t, st, root[t], k, v))
  /\ ret' = IF btree_find(st, root[t], k) = NoVal THEN "SUCCESS" ELSE "UPDATE"

\* The callers remove what they have found before: hbtrie_remove looks the
\* key up, _fdb_wal_flush_seq_purge has the number from the document that
\* the flush replaced.  btree_remove itself does not compare the leaf's key.
btree_remove(t, k) ==
  /\ root[t] # NoBid
  /\ btree_find(st, root[t], k) # NoVal
  /\ Installed(t, Removed(t, st, root[t], k))
  /\ ret' = "SUCCESS"

\* btree_update_meta with metadata of the same size
btree_update_meta(t, m) ==
  /\ root[t] # NoBid /\ st.n[root[t]].meta # NoVal
  /\ Installed(t, WriteNode(st, root[t], [st.n[root[t]] EXCEPT !.meta = m]))
  /\ ret' = "SUCCESS"

\* a WAL flush without a commit ends with btreeblk_reset_subblock_info
EndFlush ==
  /\ \E c \in 1..nsb : st.sb[c].bid # -1
  /\ st' = Kept(btreeblk_reset_subblock_info(st), root, com)
  /\ UNCHANGED <<root, com, ret>>

\* fdb_commit: the header goes into a block of its own; all blocks up to it
\* become immutable
Commit ==
  /\ com # root
  /\ st.nxt < MaxBlk
  /\ com' = root
  /\ st' = Kept(btreeblk_reset_subblock_info([st EXCEPT !.wr = st.nxt + 1, !.nxt = @ + 1]),
                root, root)
  /\ ret' = "SUCCESS"
  /\ UNCHANGED root

BNext ==
  \/ \E t \in Tree, m \in Val \cup {NoVal} : btree_init(t, m)
  \/ \E t \in Tree, m \in Val : btree_update_meta(t, m)
  \/ \E t \in Tree, k \in Key, v \in Val : btree_insert(t, k, v)
  \/ \E t \in Tree, k \in Key : btree_remove(t, k)
  \/ EndFlush
  \/ Commit

BSpec == BInit /\ [][BNext]_bvars

-----------------------------------------------------------------------------
\* Type invariant: nodes have the shape their level says, and no node holds
\* more than its slot or block has room for.
MetaRoom(t, a) == IF st.n[a].meta = NoVal THEN 0 ELSE MetaSize[t]
BTypeOK ==
  /\ st.nxt \in 0..MaxBlk /\ st.wr \in 0..MaxBlk
  /\ \A t \in Tree : root[t] \in DOMAIN st.n \cup {NoBid} /\ com[t] \in DOMAIN st.n \cup {NoBid}
  /\ \A c \in 1..nsb : st.sb[c].bid \in -1..MaxBlk /\ st.sb[c].bitmap \subseteq 0..(Slots[c] - 1)
  /\ \A a \in DOMAIN st.n :
       /\ st.n[a].level \in Nat \ {0} /\ st.n[a].meta \in Val \cup {NoVal}
       /\ \A i \in DOMAIN st.n[a].ents :
            /\ st.n[a].ents[i][1] \in Key
            /\ IF st.n[a].level = 1 THEN st.n[a].ents[i][2] \in Val
               ELSE /\ st.n[a].ents[i][2] \in DOMAIN st.n
                    /\ st.n[st.n[a].ents[i][2]].level = st.n[a].level - 1
  /\ \A t \in Tree : \A a \in Reach(st, {root[t], com[t]} \ {NoBid}) :
       Len(st.n[a].ents) <= CapOf(t, a) - MetaRoom(t, a)
  /\ ret \in {"none", "SUCCESS", "UPDATE"}

\* What a reader that starts from the root a finds.
View(a) == [k \in Key |-> IF a = NoBid THEN NoVal ELSE btree_find(st, a, k)]
MetaAt(a) == IF a = NoBid THEN NoVal ELSE st.n[a].meta
Views(rt) == [t \in Tree |-> View(rt[t])]
Metas(rt) == [t \in Tree |-> MetaAt(rt[t])]

Maps == INSTANCE OrderedMaps WITH
          map <- Views(root), meta <- Metas(root),
          old <- [map |-> Views(com), meta |-> Metas(com)], reply <- ret


\* No node that the current roots reach lies in a region reported stale, in a
\* slot that the allocator would hand out again, or over another node: the
\* space of a live node is never given away (btreeblk_remove,
\* btreeblk_move, btreeblk_enlarge_node, btreeblk_reset_subblock_info).
Live == Reach(st, {root[t] : t \in Tree} \ {NoBid})
Overlap(a, b) == /\ a[1] = b[1]
                 /\ a[2] = 0 \/ b[2] = 0 \/ a[2] # b[2] \/ a[3] = b[3]
LiveKept ==
  \A a \in Live :
    /\ \A b \in st.stale : ~Overlap(a, b)
    /\ \A b \in Live : Overlap(a, b) => a = b
    /\ \A c \in 1..nsb : st.sb[c].bid = a[1] => a[2] = c /\ a[3] \in st.sb[c].bitmap

\* The keys of a node ascend, and an index node names its children by their
\* smallest keys (_btree_find_entry searches by them).
Ordered ==
  \A a \in DOMAIN st.n :
    LET es == st.n[a].ents IN
      /\ \A i \in 1..(Len(es) - 1) : es[i][1] < es[i+1][1]
      /\ st.n[a].level > 1 =>
           \A i \in DOMAIN es : es[i][1] = st.n[es[i][2]].ents[1][1]

\* Nodes are well formed after every call: both of the above.
NodesWellFormed == BTypeOK /\ Ordered
=============================================================================
