----------------------------- MODULE MCCursors -----------------------------
(***************************************************************************)
(* The B+tree iterator (kind "leaves") and the key and sequence iterators  *)
(* (MCIterator) side by side, one run for all of them.  Which one runs is  *)
(* chosen at the start and the state of the others never changes.          *)
(***************************************************************************)
EXTENDS MCBTreeIter, MCIterator

NoLeaves == /\ bt = CHOOSE t \in BTrees : t.height = 1
            /\ bi = btree_iterator_init(bt, 0) /\ bret = NoKey
NoIterator == /\ kind = "leaves" /\ lost = FALSE /\ ref = Arrived({}, 1)
              /\ db = "none" /\ it = "none" /\ kret = "none"
              /\ sdb = "none" /\ sit = "none" /\ sret = "none"

CursorsInit == \/ IInit /\ NoIterator
               \/ IterInit /\ NoLeaves
CursorsNext == \/ kind = "leaves" /\ BorderNext /\ UNCHANGED allvars
               \/ IterNext /\ UNCHANGED ivars
CursorsSpec == CursorsInit /\ [][CursorsNext]_<<ivars, allvars>>

\* Well-formed cursors: the type invariants of the modules, and CursorsAgree of
\* Iterator, by which the trie cursor, the WAL cursor and the position of the
\* iterator belong together after every call.
CursorsWellFormed == ITypeOK /\ IterTypeOK /\ IterCursorsAgree
=============================================================================
