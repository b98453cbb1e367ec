CONSTANTS
  Cap = 4
  Hard = 8
  Workloads <- TooLarge
  NumBlocks = 8
  MemFails = {FALSE}
  Gap = 0
  RaMax = 0
  MaxReq = 0
  MaxRead = 1
  Batches <- NoBatches
  MaxSpec = 8
  MaxPasses = 0
SPECIFICATION LoopSpec
PROPERTIES LoopEnds
