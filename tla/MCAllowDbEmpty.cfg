SPECIFICATION Spec
CONSTANTS
  Driver = {"a", "b", "c"}
  Taker = {}
  Buffer <- SplitSlices
  MaxExpected = 0
  MaxQueue = 1
INVARIANTS
  NoOverlap
CHECK_DEADLOCK FALSE
