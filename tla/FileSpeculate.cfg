CONSTANTS
  NumBlocks = 4
  Cap = 2
  Hard = 3
  MemFails = {TRUE, FALSE}
  Gap = 1
  RaMax = 1
  MaxReq = 0
  MaxRead = 2
  Batches <- AnyBatch
  MaxSpec = 3
SPECIFICATION FileSpec
INVARIANTS FileTypeOK WithinHard
PROPERTIES PinnedUntilRead CacheSpec
