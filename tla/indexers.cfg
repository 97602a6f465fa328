SPECIFICATION Spec
CONSTANTS
  NumEvents <- MCNumEvents
  Block <- MCBlock
  Tx <- MCTx
  Valid <- MCValid
  TxHash = {1, 2}
  MaxBlock = 1
  SplitValue = 2
  Window = 1
  MaxQueryBlockRange = 1
  Lag = 0
  Mode = "LISTEN"
  TickId = {t1}
  JobId = {j1, j2}
  RowId = {c1, c2}
  NoCheckpoint = NoCheckpoint
  NoType = NoType
  Concurrency = 1
  MaxStalled = 1
  FaultKinds = {"job", "catch", "tick", "crash", "stall"}
  MaxFaults = 1
SYMMETRY Slots
INVARIANTS
  IInv
PROPERTIES
  EachIsARangeFetch
CHECK_DEADLOCK FALSE
