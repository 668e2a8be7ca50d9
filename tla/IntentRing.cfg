SPECIFICATION Spec
CONSTANTS
  p1 = p1
  p2 = p2
  p3 = p3
  Procs = {p1, p2, p3}
  None = None
  NSlots = 2
  MaxStmts = 1
  MaxDead = 2
  SessionTxns = {2}
  DieMidPost = FALSE
  StaleStamps = FALSE
SYMMETRY Symmetry
INVARIANTS
  TypeOK
  AtMostOnce
  VerdictIsTruth
  PostHitsItsIntent
  BatchIsPinned
CHECK_DEADLOCK FALSE
