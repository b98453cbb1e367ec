CONSTANTS
  RowCount = 2
  RowIds <- FirstRows
  Vecs <- TwoVecs
  CodeOf <- Rounded
  MaxNodes = 3
  MaxSlots = 3
  M0 = 1
  Ef = 2
  EfC = 2
  NEntry = 1
  NLists = 2
  WordLists = 2
  ListOf <- Nearest
  Cap = 1
  Layouts = {"graph"}
  NoMemory = {"graph"}
  Faults = {}
SPECIFICATION Spec
INVARIANT FallbackReady
CHECK_DEADLOCK FALSE
