SPECIFICATION FairSpec
CONSTANTS
  NumEvents = 3
  TxHash <- MCTxHashPair
  Tx <- MCTxPair
  Block <- MCBlockPair
  Valid = {1, 2, 3}
  MaxBlock = 4
  SplitValue = 2
  Window = 3
  MaxQueryBlockRange = 1
  Lag = 0
  Mode = "LISTEN"
  TickId = {t1}
  JobId = {j1, j2}
  RowId = {c1, c2, c3, c4}
  NoCheckpoint = NoCheckpoint
  Concurrency = 2
  MaxStalled = 1
  FaultKinds = {"job", "catch", "tick", "crash", "stall"}
  MaxFaults = 2
  Overlap = FALSE
INVARIANTS
  CheckpointsDisjoint
PROPERTIES
  EventuallyIndexed
  FailedResolved
