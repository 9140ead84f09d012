---------------------------- MODULE OrderedMaps ----------------------------
(***************************************************************************)
(* What the index promises to the layers above it (btree.cc, used through  *)
(* hbtrie.cc and as the sequence tree): a family of maps, each with a      *)
(* small piece of metadata of its own, where an operation changes one      *)
(* entry of one map and nothing else, and where Commit makes the present   *)
(* contents the ones that every later reader of that commit sees,          *)
(* whatever is written afterwards.                                         *)
(***************************************************************************)
CONSTANTS Tree, Key, Val,
          NoVal         \* the result of looking up an absent key

VARIABLES map,          \* [Tree -> [Key -> Val or NoVal]]
          meta,         \* [Tree -> Val or NoVal]
          old,          \* the contents of the last commit: [map, meta]
          reply         \* the result of the last call

Present(t, k) == map[t][k] # NoVal

\* the entry of k in map t becomes v, every other entry is as it was
SetOnly(t, k, v) ==
  /\ map'[t][k] = v
  /\ \A u \in Tree, j \in Key : <<u, j>> # <<t, k>> => map'[u][j] = map[u][j]

MapInit ==
  /\ map = [t \in Tree |-> [k \in Key |-> NoVal]]
  /\ meta = [t \in Tree |-> NoVal]
  /\ old = [map |-> map, meta |-> meta]
  /\ reply = "none"

Create(t, m) ==
  /\ meta' = [meta EXCEPT ![t] = m]
  /\ reply' = "SUCCESS"
  /\ UNCHANGED <<map, old>>

Put(t, k, v) ==
  /\ SetOnly(t, k, v)
  /\ reply' = IF Present(t, k) THEN "UPDATE" ELSE "SUCCESS"
  /\ UNCHANGED <<meta, old>>

Delete(t, k) ==
  /\ Present(t, k)
  /\ SetOnly(t, k, NoVal)
  /\ reply' = "SUCCESS"
  /\ UNCHANGED <<meta, old>>

SetMeta(t, m) ==
  /\ meta[t] # NoVal
  /\ meta' = [meta EXCEPT ![t] = m]
  /\ reply' = "SUCCESS"
  /\ UNCHANGED <<map, old>>

Commit ==
  /\ old' = [map |-> map, meta |-> meta]
  /\ reply' = "SUCCESS"
  /\ UNCHANGED <<map, meta>>

MapNext ==
  \/ \E t \in Tree, m \in Val \cup {NoVal} : Create(t, m) \/ SetMeta(t, m)
  \/ \E t \in Tree, k \in Key, v \in Val : Put(t, k, v)
  \/ \E t \in Tree, k \in Key : Delete(t, k)
  \/ Commit

MapSpec == MapInit /\ [][MapNext]_<<map, meta, old, reply>>
=============================================================================
