SPECIFICATION Spec
CONSTANTS
  Cells = {c1, c2}
  NPages = 4
  MaxId = 3
  MaxAsyncId = 3
  MaxLoss = 1
INVARIANTS
  Intact
CHECK_DEADLOCK FALSE
