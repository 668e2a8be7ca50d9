SPECIFICATION Spec
CONSTANTS
  p1 = p1
  p2 = p2
  p3 = p3
  Procs = {p1, p2, p3}
  None = None
  NSlots = 1
  MaxStmts = 2
  MaxDead = 1
  SessionTxns = {}
  DieMidPost = TRUE
  StaleStamps = FALSE
SYMMETRY Symmetry
INVARIANTS
  VerdictIsTruth
CHECK_DEADLOCK FALSE
