CONSTANTS
  NumSb = 2
  Keep = 1
  Snaps = {s1}
  Linked = TRUE
  Reservation = TRUE
  MaxBid = 24
  MaxRev = 8
  MaxExtra = 2
  BlockSize = 4
  MetaSize = 1
  Handles = {x, y}
  Sizes = {2, 5}
  MaxDoc = 4
  DMaxBid = 5
  Loads = {"reuse", "append", "scan"}
SPECIFICATION StorageSpec
INVARIANTS StorageTypeOK RecoverExact SnapshotIntact NoDoubleUse BytesAccounted LiveIntact ReadExact
CONSTRAINT LastCommitSound
CHECK_DEADLOCK FALSE
