SPECIFICATION Spec
CONSTANTS
  Readers = {r1, r2}
  NSlots = 1
  Keys = {k1}
  NPages = 3
  PoolTarget = 2
  PoolDraws = 2
  MaxTxn = 4
  MaxAttempts = 4
  StraddledReads = FALSE
SYMMETRY Symmetry
INVARIANTS
  TypeOK
  SnapshotIntact
  CommittedIntact
  CacheBelowPins
  
