SPECIFICATION Spec
CONSTANTS
  Cells = {c1, c2}
  NPages = 4
  MaxId = 4
  MaxAsyncId = 0
  MaxLoss = 1
INVARIANTS
  NothingLost
CHECK_DEADLOCK FALSE
