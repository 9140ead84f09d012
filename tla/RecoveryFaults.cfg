SPECIFICATION RSpec
CONSTANTS
  Keys = {k1, k2}
  Txns = {t1}
  Global = g
  ReadUncommitted = {}
  Readers = {}
  Acts = {"INSERT"}
  MaxDocs = 2
  Threshold = 0
  FlushBeforeCommit = FALSE
  Faults = {"mark", "flush"}
  Handles = {t1}
  BlockCap = 2
  MaxHeaders = 2
  MaxCrashes = 2
PROPERTY NoUnaskedCommit
