SPECIFICATION Spec
CONSTANTS
  Readers = {r1}
  NSlots = 1
  Keys = {k1}
  NPages = 3
  PoolTarget = 2
  PoolDraws = 2
  MaxTxn = 5
  MaxAttempts = 5
  StraddledReads = TRUE
INVARIANT SnapshotIntact
