CONSTANTS
  BTrees <- MCBTrees
  StartKeys = {0, 1, 2, 3, 4, 5, 6, 7, 8, 9, 10, 11, 12, 13}
  NotFound = 100
  NoKey = 99
  N = 3
  M = 4
  KeyLoads = {"moves", "seeks", "marks"}
  SeqLoads = {"seqs", "range"}
SPECIFICATION CursorsSpec
INVARIANTS CursorsWellFormed KeyAgrees SeqAgrees
 
CHECK_DEADLOCK FALSE
