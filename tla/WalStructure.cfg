SPECIFICATION FairSpec
CONSTANTS
  Keys = {k1, k2}
  Txns = {t1}
  Global = g
  ReadUncommitted = {t1}
  Readers = {r1}
  Acts = {"INSERT"}
  MaxDocs = 2
  Threshold = 0
  FlushBeforeCommit = TRUE
  Faults = {"mark", "flush"}
INVARIANTS TypeOK CountersExact HandlesAlive NoOrphanItem
PROPERTY CallsReturn
