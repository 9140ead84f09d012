---------------------------- MODULE MCBTreeIter ----------------------------
EXTENDS BTreeIter
\* trees of one, two and three levels, with leaves of one to three keys
Two(S) == [height |-> 2, node |-> S]
MCBTrees == {[height |-> 1, node |-> <<>>], [height |-> 1, node |-> <<2, 4, 6>>],
             Two(<<<<2>>, <<4, 6>>>>), Two(<<<<2, 4, 6>>, <<8>>, <<10, 12>>>>),
             Two(<<<<2, 4>>, <<6, 8, 10>>>>),
             [height |-> 3, node |-> <<<<<<2>>, <<4, 6>>>>, <<<<8, 10>>, <<12>>>>>>],
             [height |-> 3, node |-> <<<<<<2, 4>>>>, <<<<6>>, <<8, 10, 12>>>>>>]}

\* After btree_prev has returned the last key of a leaf that is not the last
\* one, btree_next counts two entries into the leaf to the right; the run on
\* Visits excludes that call (BTreeTurn.cfg shows it).
LeafOf(i) == NodeAt(bt.node, i.bid[0])
AtRightBorder == /\ bi.flag = "REV"
                 /\ bi.curkey = LeafOf(bi)[Len(LeafOf(bi))]
                 /\ \E k \in KeysIn(bt.node, bt.height - 1) : k > bi.curkey
ForwardTurn == ~AtRightBorder /\ btree_next
BorderNext == ForwardTurn \/ btree_prev
BorderSpec == IInit /\ [][BorderNext]_ivars
=============================================================================
