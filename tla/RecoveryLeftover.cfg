SPECIFICATION RSpec
CONSTANTS
  Keys = {k1, k2}
  Txns = {}
  Global = g
  ReadUncommitted = {}
  Readers = {}
  Acts = {"INSERT"}
  MaxDocs = 2
  Threshold = 4
  FlushBeforeCommit = FALSE
  Faults = {}
  Handles = {h1}
  BlockCap = 2
  MaxHeaders = 1
  MaxCrashes = 2
PROPERTY NothingUnpromised
