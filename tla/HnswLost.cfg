CONSTANTS
  Workers = {w1, w2}
  First = w1
  N = 4
  M = 4
  M0 = 4
  Efc = 2
  Serial = 2
  Chunk = 1
  Points <- AnyPoints
  Levels <- AnyLevels
SPECIFICATION Spec
INVARIANTS AllReached
