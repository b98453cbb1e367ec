CONSTANTS
  c1 = c1
  c2 = c2
  Calls <- TwoCalls
  MaxRounds = 1
  Servers = {"multi", "some", "ignores"}
  Shapes <- SomeShapes
  MaxParallel = 2
SPECIFICATION Spec
INVARIANTS CountersOwn WholeFileOnce
PROPERTY SearchesSettle
CHECK_DEADLOCK FALSE
