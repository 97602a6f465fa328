SPECIFICATION LoopsSpec
CONSTANTS
  MaxBlock = 9
  MaxStep = 4
  Day = 3
  Days = 4
  Amount = {1, 2}
  Zone <- MCZone
  Tables <- MCTables
INVARIANTS
  TypeOK
  SplitLosesOnlyLastBlock
  BatchesTileEachRange
  BatchesAcceptedByProvider
  LoopsMatchSets
  MovementAddsUp
  TotalIsSumOfDays
  EveryDayListedOnce
  EventsCountedOnce
  LoopInv
CHECK_DEADLOCK FALSE
