CONSTANTS
  RowCount = 2
  RowIds <- FirstRows
  Vecs <- TwoVecs
  CodeOf <- Rounded
  MaxNodes = 3
  MaxSlots = 3
  M0 = 1
  Ef = 2
  EfC = 2
  NEntry = 1
  NLists = 2
  WordLists = 2
  ListOf <- Nearest
  Cap = 1
  Layouts = {"graph", "ivf"}
  NoMemory = {"ivf"}
  Faults = {"undone"}
SPECIFICATION Spec
CONSTRAINT Settled
INVARIANTS SearchSound RawSameAsSql IdsFresh LinksWhole HintsRight
PROPERTY ImplementsSql
CHECK_DEADLOCK FALSE
