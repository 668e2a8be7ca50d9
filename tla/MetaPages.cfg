SPECIFICATION Spec
CONSTANTS
  Readers = {r1}
  MaxTxn = 5
  MaxAttempts = 5
  MaxDeaths = 1
  Retries = 2
INVARIANTS
  TypeOK
  GateHasPage
  DurableBeforeVisible
  FreshUnlessStraddled
  CorruptOnlyWhenOutrun
PROPERTY VisibleMonotone
CHECK_DEADLOCK FALSE
