CONSTANTS
  MergeRanges = 5
  SplitRanges = 6
  Calls <- AnyCall
SPECIFICATION PlanSpec
INVARIANTS Assigned Cheapest MergeWithinLimit PartsFit SharesSimilar
CHECK_DEADLOCK FALSE
