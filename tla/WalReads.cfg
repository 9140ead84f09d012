SPECIFICATION Spec
CONSTANTS
  Keys = {k1}
  Txns = {t1, t2}
  Global = g
  ReadUncommitted = {}
  Readers = {r1}
  Acts = {"INSERT", "REMOVE"}
  MaxDocs = 3
  Threshold = 1
  FlushBeforeCommit = FALSE
  Faults = {}
INVARIANTS ListOrder ClaimedUnlinked NothingLostInFlush GetLinearizable
SYMMETRY Symmetry
