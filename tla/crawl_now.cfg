SPECIFICATION Spec
CONSTANTS
  NumEvents = 4
  TxHash <- MCTxHash
  Tx <- MCTx
  Block <- MCBlock
  Valid = {1, 2, 3, 4}
  MaxBlock = 4
  SplitValue = 2
  Window = 2
  MaxQueryBlockRange = 1
  Lag = 1
  Mode = "CRAWL"
  TickId = {t1}
  JobId = {j1, j2}
  RowId = {c1, c2, c3}
  NoCheckpoint = NoCheckpoint
  Concurrency = 2
  MaxStalled = 1
  FaultKinds = {}
  MaxFaults = 0
  Overlap = TRUE
INVARIANTS
  CrawlIndexesUntilNow
CHECK_DEADLOCK FALSE
