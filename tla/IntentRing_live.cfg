SPECIFICATION FairSpec
CONSTANTS
  p1 = p1
  p2 = p2
  p3 = p3
  Procs = {p1, p2, p3}
  None = None
  NSlots = 1
  MaxStmts = 1
  MaxDead = 1
  SessionTxns = {}
  DieMidPost = FALSE
  StaleStamps = FALSE
PROPERTY Answered
CHECK_DEADLOCK FALSE
