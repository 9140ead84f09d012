CONSTANTS
  Blocks = {1, 2, 3}
  Index = {3}
  NumShards = 2
  Slots = 2
  FlushUnit = 2
  Readahead = 1
  NoDocCache = FALSE
  WriteFaults = 1
  MaxVer = 1
  Readers = {r}
  Flushers = {f}
  Others = {o}
SPECIFICATION LoadSpec
INVARIANTS CTypeOK ReadCurrent CommitFlushed 
CHECK_DEADLOCK FALSE
