---------------------------- MODULE StaleRegions ----------------------------
(***************************************************************************)
(* Regions of bytes that hold no live data: the stale list of a file       *)
(* (filemgr.cc) and the merge tree from which whole blocks are handed back *)
(* for reuse (staleblock.cc).  A region is a record [pos, len]; the merge  *)
(* tree, ordered by pos, is a set of regions.                              *)
(***************************************************************************)
EXTENDS Integers, SequencesExt

CONSTANTS BlockSize,   \* file->blocksize
          MetaSize     \* DOCBLK_META_SIZE

ASSUME RegionAssumption ==
    BlockSize \in Nat /\ MetaSize \in Nat /\ 0 < MetaSize /\ MetaSize < BlockSize

DataSize == BlockSize - MetaSize
InBlock(at) == at % BlockSize
SpaceAt(at) == DataSize - InBlock(at)
Region(pos, len) == [pos |-> pos, len |-> len]
EndOf(r) == r.pos + r.len
BytesOf(r) == r.pos .. EndOf(r) - 1
BytesIn(tree) == UNION {BytesOf(r) : r \in tree}

\* filemgr_add_stale_block: a region that continues the last one extends it.
filemgr_add_stale_block(list, r) ==
    IF list # <<>> /\ EndOf(list[Len(list)]) = r.pos
    THEN [list EXCEPT ![Len(list)].len = @ + r.len]
    ELSE Append(list, r)

\* filemgr_actual_stale_regions: the pieces of a document of the given length
\* at byte offset off.  The piece that fills its block includes the block's
\* meta section; next[b] is the next_bid in the meta section of block b.
ActualPieceNoMeta(at, left) ==
    IF SpaceAt(at) <= left
    THEN Region(at, SpaceAt(at)) ELSE Region(at, left)
ActualPiece(at, left) ==
    IF SpaceAt(at) <= left
    THEN Region(at, BlockSize - InBlock(at)) ELSE Region(at, left)
ActualStep(next, w, space) ==
    IF w.left = 0 THEN w
    ELSE [at   |-> IF space < w.left
                   THEN BlockSize * next[w.at \div BlockSize] ELSE w.at,
          left |-> IF space <= w.left THEN w.left - space ELSE 0,
          rs   |-> Append(w.rs, ActualPiece(w.at, w.left))]
filemgr_actual_stale_regions(next, off, length) ==
    LET walk[k \in 0 .. length] ==
          IF k = 0 THEN [at |-> off, left |-> length, rs |-> <<>>]
          ELSE LET w == walk[k - 1]
               IN  ActualStep(next, w, SpaceAt(w.at))
    IN  walk[length].rs

\* filemgr_mark_stale: nothing for a length of 0.
filemgr_mark_stale(list, next, off, length) ==
    FoldLeft(filemgr_add_stale_block, list,
             filemgr_actual_stale_regions(next, off, length))

\* _insert_n_merge (insert_n_merge here): the longer of two regions with the same pos is kept; then
\* the region is merged with the one before and the one after if they touch.
InsertItem(tree, pos, len) ==
    LET same == {r \in tree : r.pos = pos /\ r.len >= len}
    IN  IF same # {} THEN tree
        ELSE {r \in tree : r.pos # pos} \cup {Region(pos, len)}
LaterEnd(a, b) == IF EndOf(a) >= EndOf(b) THEN EndOf(a) ELSE EndOf(b)
Joined(a, b) == Region(a.pos, LaterEnd(a, b) - a.pos)
Neighbours(tree, a, b) ==
    a.pos < b.pos /\ \A r \in tree : r.pos <= a.pos \/ r.pos >= b.pos
MergePair(tree, a, b) == (tree \ {a, b}) \cup {Joined(a, b)}
MergeAt(tree, pairs) ==
    IF pairs = {} THEN tree
    ELSE LET p == CHOOSE p \in pairs : TRUE IN MergePair(tree, p[1], p[2])
\* The two merges; at(r) says which region is the one inserted.
MergePrev(tree, pos) ==
    MergeAt(tree, {p \in tree \X tree : /\ p[2].pos = pos
                                        /\ Neighbours(tree, p[1], p[2])
                                        /\ EndOf(p[1]) >= p[2].pos})
MergeNext(tree, pos) ==
    MergeAt(tree, {p \in tree \X tree : /\ pos \in BytesOf(p[1])
                                        /\ Neighbours(tree, p[1], p[2])
                                        /\ EndOf(p[1]) >= p[2].pos})
insert_n_merge(tree, r) ==
    MergeNext(MergePrev(InsertItem(tree, r.pos, r.len), r.pos), r.pos)

\* fdb_get_reusable_block, second half: the whole blocks of a region are
\* reusable, the margins before and behind them stay in the tree.
Margin(r) == IF InBlock(r.pos) = 0 THEN 0 ELSE BlockSize - InBlock(r.pos)
HasBlock(r) == r.len >= BlockSize /\ r.len - Margin(r) >= BlockSize
ReusableFrom(r) == (r.pos + Margin(r)) \div BlockSize
ReusableCount(r) == (r.len - Margin(r)) \div BlockSize
ReusableOf(r) == ReusableFrom(r) .. ReusableFrom(r) + ReusableCount(r) - 1
RestOf(r) ==
    {x \in {Region(r.pos, Margin(r)),
            Region((ReusableFrom(r) + ReusableCount(r)) * BlockSize,
                   (r.len - Margin(r)) % BlockSize)} : x.len > 0}
SplitBlocks(tree) == UNION {ReusableOf(r) : r \in {r \in tree : HasBlock(r)}}
SplitRest(tree) ==
    {r \in tree : ~HasBlock(r)} \cup UNION {RestOf(r) : r \in {r \in tree : HasBlock(r)}}
=============================================================================
