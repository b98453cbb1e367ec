CONSTANTS
  Workers = {w1, w2, w3}
  First = w1
  N = 5
  M = 1
  M0 = 2
  Efc = 2
  Serial = 2
  Chunk = 1
  Points <- SomePoints
  Levels <- SomeLevels
SPECIFICATION Spec
INVARIANTS TypeOK ListsFit LayersExist ProperNeighbours
PROPERTIES EntryClimbs BuildEnds
