SPECIFICATION Spec
CONSTANTS
  NumEvents = 4
  TxHash <- MCTxHashGap
  Tx <- MCTxGap
  Block <- MCBlockGap
  Valid = {1, 2, 3, 4}
  MaxBlock = 4
  SplitValue = 3
  Window = 4
  MaxQueryBlockRange = 1
  Lag = 0
  Mode = "LISTEN"
  TickId = {t1}
  JobId = {j1, j2}
  RowId = {c1, c2, c3}
  NoCheckpoint = NoCheckpoint
  Concurrency = 2
  MaxStalled = 1
  FaultKinds = {"job", "catch", "tick", "crash", "stall"}
  MaxFaults = 2
  Overlap = TRUE
SYMMETRY Slots
INVARIANTS
  TypeOK
  NoSilentGap
  OnlyTailsLost
PROPERTIES
  OkMeansComplete
  ClearOnlyWhenCovered
  KeepsLedger
CHECK_DEADLOCK FALSE
