SPECIFICATION Spec
CONSTANTS
  NumEvents = 4
  TxHash <- MCTxHash
  Tx <- MCTx
  Block <- MCBlock
  Valid = {1, 2, 3, 4}
  MaxBlock = 3
  SplitValue = 2
  Window = 3
  MaxQueryBlockRange = 1
  Lag = 1
  Mode = "LISTEN"
  TickId = {t1, t2}
  JobId = {j1, j2}
  RowId = {c1, c2, c3, c4}
  NoCheckpoint = NoCheckpoint
  Concurrency = 2
  MaxStalled = 1
  FaultKinds = {"job", "catch", "tick", "crash", "stall"}
  MaxFaults = 1
  Overlap = TRUE
SYMMETRY Slots
INVARIANTS
  WithinChain
  IInv
  NoEventMissingAtRest
  LastEventWinsAtRest
  RestInv
CHECK_DEADLOCK FALSE
