CONSTANTS
  LeafRows = 1
  Fanout = 2
  CodeOf <- Codes
  CellStart <- Starts
  Chunk = 2
  Ids <- TwoRows
  Docs <- SomeDocs
  Inputs <- SomeInputs
  Files <- Npy
  Probes <- Probed
  MaxTokens = 2
  Configs <- SomeConfigs
  InTx <- TxConfigs
  Faults = {}
SPECIFICATION Spec
CONSTRAINT Fresh
INVARIANTS SearchSound
PROPERTIES ImplementsTable HintsLast
CHECK_DEADLOCK FALSE
