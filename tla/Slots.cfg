CONSTANTS
  NumBlocks = 4
  Cap0 = 1
  Cap = 2
  Hard = 4
  Chunk = 2
  MinBuckets = 1
  HashOf <- Hash
  Failures = {"arrays", "chunk", "table"}
SPECIFICATION SlotsSpec
INVARIANTS ListsWhole ChainsExact BytesOfBlock MemoryGivenBack
PROPERTIES ImplementsCache
