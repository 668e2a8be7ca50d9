SPECIFICATION Spec
CONSTANTS
  p1 = p1
  p2 = p2
  p3 = p3
  Procs = {p1, p2, p3}
  None = None
  NSlots = 1
  MaxStmts = 1
  MaxDead = 1
  SessionTxns = {1}
  DieMidPost = FALSE
  StaleStamps = TRUE
SYMMETRY Symmetry
INVARIANTS
  VerdictIsTruth
CHECK_DEADLOCK FALSE
