SPECIFICATION Spec
CONSTANTS
  Cells = {c1}
  NPages = 2
  MaxId = 4
  MaxAsyncId = 4
  MaxLoss = 2
INVARIANTS
  TypeOK
  DurableSurvives
  RefusedForCause
  IntactInWal
  LockPageIsSafe
CHECK_DEADLOCK FALSE
