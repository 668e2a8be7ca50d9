SPECIFICATION FairSpec
CONSTANTS
  t1 = t1
  t2 = t2
  t3 = t3
  Threads = {t1, t2}
  Pids = {1, 2}
  PidOf <- TwoProcesses
  NSlots = 1
  Tries = 2
  MaxSeq = 5
  MaxInc = 3
  None = None
PROPERTIES
  ImplementsTable
  SweepFreesOrphans
CHECK_DEADLOCK FALSE
