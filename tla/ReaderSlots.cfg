SPECIFICATION Spec
CONSTANTS
  t1 = t1
  t2 = t2
  t3 = t3
  Threads = {t1, t2}
  Pids = {1, 2}
  PidOf <- TwoProcesses
  NSlots = 2
  Tries = 2
  MaxSeq = 3
  MaxInc = 2
  None = None
INVARIANTS TypeOK OwnerOnly
CHECK_DEADLOCK FALSE
