CONSTANTS
  NumBlocks = 6
  Cap = 4
  Hard = 5
  MemFails = {FALSE}
  Gap = 1
  RaMax = 2
  MaxReq = 1
  MaxRead = 2
  Batches <- LargeOrSmall
  MaxSpec = 0
SPECIFICATION FileSpec
INVARIANTS BatchFits BatchArrives
PROPERTIES PinnedUntilRead FloorKept ReadEndsInBudget
