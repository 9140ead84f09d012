SPECIFICATION MCSpec
CONSTANTS
  Tree = {1, 2, 3}
  Key = {1, 2, 3, 4}
  Val = {0}
  NoVal = NoVal
  nsb = 2
  Slots <- MCSlots
  SbCap <- MCSbCap
  NodeCap <- MCNodeCap
  MetaSize <- MCMeta
  MaxBlk = 8
  Loads = {"deep", "sets", "pair"}
INVARIANTS NodesWellFormed LiveKept
 
CHECK_DEADLOCK FALSE
