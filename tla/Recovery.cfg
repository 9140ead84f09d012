SPECIFICATION RSpec
CONSTANTS
  Keys = {k1}
  Txns = {t1, t2}
  Global = g
  ReadUncommitted = {}
  Readers = {}
  Acts = {"INSERT", "LOGICAL_REMOVE"}
  MaxDocs = 2
  Threshold = 1
  FlushBeforeCommit = TRUE
  Faults = {}
  Handles = {t1}
  BlockCap = 2
  MaxHeaders = 2
  MaxCrashes = 2
CONSTRAINT Small
INVARIANT RTypeOK
PROPERTY RestartExact
