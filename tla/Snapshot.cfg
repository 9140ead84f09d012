SPECIFICATION SSpec
CONSTANTS
  Keys = {k1, k2}
  Txns = {t1}
  Global = g
  ReadUncommitted = {}
  Readers = {}
  Acts = {"INSERT"}
  MaxDocs = 2
  Threshold = 1
  FlushBeforeCommit = FALSE
  Faults = {}
  Snaps = {s1}
SYMMETRY Symmetry
INVARIANTS STypeOK SnapshotExact
