---------------------------- MODULE EachIndexer ----------------------------
(***************************************************************************)
(* The safety of one indexer carries over to the process with all three:   *)
(* what RangeFetchProofs and RestProofs prove of RangeFetch holds of each  *)
(* kind of event, by the refinement of IndexersProofs.                     *)
(***************************************************************************)
EXTENDS IndexersProofs

CONSTANT kind       \* the indexer considered: any of the three

(* RangeFetch and its theorems, for that indexer: the mapping of IndexersInv. *)
It == INSTANCE RestProofs WITH
  NumEvents <- NumEvents[kind], Block <- Block[kind], Tx <- Tx[kind], Valid <- Valid[kind],
  Overlap <- TRUE, MaxFaults <- 2 * MaxFaults,
  table <- tables[kind], row <- RowsOf(kind), job <- JobsOf(kind), tick <- ticks[kind],
  newestBlock <- newestBlock[kind], booted <- booted[kind], faults <- hits[kind],
  abandoned <- abandoned[kind], windowStart <- windowStart[kind]

(***************************************************************************)
(* `It' is One(kind)                                                       *)
(***************************************************************************)
(* The events of the kind are as RangeFetch assumes: they are in the order of their blocks. *)
LEMMA ItsEvents == ASSUME kind \in Kind PROVE It!EventAssumption
BY EventAssumption DEF It!EventAssumption, It!Event

(* The configuration of RangeFetch is the shared one, with room for the hits of one kind. *)
LEMMA ItsConfig == ASSUME kind \in Kind PROVE It!ConfigAssumption
BY ConfigAssumption DEF It!ConfigAssumption

(* The two instances have the same initial states. *)
LEMMA SameInit == It!Init <=> One(kind)!Init
BY DEF It!Init, One!Init, It!FreeJob, One!FreeJob, It!IdleTick, One!IdleTick,
       It!Ticking, One!Ticking

(* ... and the same steps, action by action. *)
LEMMA SameNext == It!Next <=> One(kind)!Next
<1>1. It!Grow <=> One(kind)!Grow
  BY DEF It!Grow, One!Grow
<1>2. ASSUME NEW t \in TickId PROVE It!StartTick(t) <=> One(kind)!StartTick(t)
  BY DEF It!StartTick, One!StartTick, It!Quiet, One!Quiet, It!FreeSlots, One!FreeSlots,
         It!Ticking, One!Ticking
<1>3. ASSUME NEW t \in TickId PROVE It!ProbeFailed(t) <=> One(kind)!ProbeFailed(t)
  BY DEF It!ProbeFailed, One!ProbeFailed, It!Ticking, One!Ticking, It!Refetch, One!Refetch,
         It!RecordedBlocks, One!RecordedBlocks, It!InRange, One!InRange
<1>4. ASSUME NEW t \in TickId PROVE It!AddRefetch(t) <=> One(kind)!AddRefetch(t)
  BY DEF It!AddRefetch, One!AddRefetch, It!Enqueue, One!Enqueue, It!FreeSlots, One!FreeSlots,
         It!WaitingJob, One!WaitingJob, It!Ticking, One!Ticking
<1>5. ASSUME NEW t \in TickId PROVE It!ReadHead(t) <=> One(kind)!ReadHead(t)
  BY DEF It!ReadHead, One!ReadHead, It!SeenHeads, One!SeenHeads, It!Ticking, One!Ticking,
         It!Greater, One!Greater
<1>6. ASSUME NEW t \in TickId PROVE It!ReadLatest(t) <=> One(kind)!ReadLatest(t)
  BY DEF It!ReadLatest, One!ReadLatest, It!StartBlocks, One!StartBlocks, It!OkEnds, One!OkEnds,
         It!LatestEnd, One!LatestEnd, It!InitialFromBlock, One!InitialFromBlock, It!Greater,
         One!Greater, It!SplitIntoRanges, One!SplitIntoRanges, It!LoopStarts, One!LoopStarts,
         It!Lesser, One!Lesser, It!IdleTick, One!IdleTick, It!Ticking, One!Ticking
<1>7. ASSUME NEW t \in TickId PROVE It!AddFetch(t) <=> One(kind)!AddFetch(t)
  BY DEF It!AddFetch, One!AddFetch, It!Lowest, One!Lowest, It!Enqueue, One!Enqueue,
         It!FreeSlots, One!FreeSlots, It!WaitingJob, One!WaitingJob, It!IdleTick, One!IdleTick,
         It!Ticking, One!Ticking
<1>8. ASSUME NEW t \in TickId PROVE It!TickThrows(t) <=> One(kind)!TickThrows(t)
  BY DEF It!TickThrows, One!TickThrows, It!Fault, One!Fault, It!Restart, One!Restart,
         It!IdleTick, One!IdleTick, It!Ticking, One!Ticking, It!Running, One!Running,
         It!GivesUp, One!GivesUp, It!FreeJob, One!FreeJob, It!Redelivered, One!Redelivered,
         It!WaitingJob, One!WaitingJob, It!Orphans, One!Orphans, It!IsFetch, One!IsFetch,
         It!RangeOf, One!RangeOf
<1>9. ASSUME NEW j \in JobId PROVE It!FetchLogs(j) <=> One(kind)!FetchLogs(j)
  BY DEF It!FetchLogs, One!FetchLogs, It!Admitted, One!Admitted, It!Cardinality,
         One!Cardinality, It!Running, One!Running, It!Moved, One!Moved, It!Fetched,
         One!Fetched, It!Event, One!Event, It!CreateBatches, One!CreateBatches, It!LoopStarts,
         One!LoopStarts, It!Lesser, One!Lesser, It!MaxBlockRange, One!MaxBlockRange,
         It!InRange, One!InRange
<1>10. ASSUME NEW j \in JobId PROVE It!WriteEvent(j) <=> One(kind)!WriteEvent(j)
  BY DEF It!WriteEvent, One!WriteEvent, It!NextLog, One!NextLog, It!Moved, One!Moved,
         It!Upsert, One!Upsert
<1>11. ASSUME NEW j \in JobId PROVE It!SaveCheckpoint(j) <=> One(kind)!SaveCheckpoint(j)
  BY DEF It!SaveCheckpoint, One!SaveCheckpoint, It!Logged, One!Logged, It!IsFetch, One!IsFetch,
         It!InsertRow, One!InsertRow, It!NewRows, One!NewRows, It!FreeJob, One!FreeJob
<1>12. ASSUME NEW j \in JobId PROVE It!ClearFailed(j) <=> One(kind)!ClearFailed(j)
  BY DEF It!ClearFailed, One!ClearFailed, It!Logged, One!Logged, It!IsFetch, One!IsFetch,
         It!FreeJob, One!FreeJob
<1>13. ASSUME NEW j \in JobId PROVE It!SaveFailedCheckpoint(j) <=> One(kind)!SaveFailedCheckpoint(j)
  BY DEF It!SaveFailedCheckpoint, One!SaveFailedCheckpoint, It!InsertRow, One!InsertRow,
         It!NewRows, One!NewRows, It!FreeJob, One!FreeJob
<1>14. ASSUME NEW j \in JobId PROVE It!JobThrows(j) <=> One(kind)!JobThrows(j)
  BY DEF It!JobThrows, One!JobThrows, It!Fault, One!Fault, It!Admitted, One!Admitted,
         It!Cardinality, One!Cardinality, It!Running, One!Running, It!Caught, One!Caught,
         It!IsFetch, One!IsFetch, It!Moved, One!Moved, It!FreeJob, One!FreeJob
<1>15. ASSUME NEW j \in JobId PROVE It!SaveFailedThrows(j) <=> One(kind)!SaveFailedThrows(j)
  BY DEF It!SaveFailedThrows, One!SaveFailedThrows, It!Fault, One!Fault, It!FreeJob,
         One!FreeJob, It!Orphans, One!Orphans, It!IsFetch, One!IsFetch, It!RangeOf, One!RangeOf
<1>16. ASSUME NEW j \in JobId PROVE It!Stall(j) <=> One(kind)!Stall(j)
  BY DEF It!Stall, One!Stall, It!Fault, One!Fault, It!Running, One!Running, It!GivesUp,
         One!GivesUp, It!Unlocked, One!Unlocked, It!Orphans, One!Orphans, It!IsFetch,
         One!IsFetch, It!RangeOf, One!RangeOf, It!FreeSlots, One!FreeSlots, It!Redelivered,
         One!Redelivered, It!WaitingJob, One!WaitingJob
<1>17. It!Crash <=> One(kind)!Crash
  BY DEF It!Crash, One!Crash, It!Fault, One!Fault, It!Restart, One!Restart, It!IdleTick,
         One!IdleTick, It!Ticking, One!Ticking, It!Running, One!Running, It!GivesUp,
         One!GivesUp, It!FreeJob, One!FreeJob, It!Redelivered, One!Redelivered, It!WaitingJob,
         One!WaitingJob, It!Orphans, One!Orphans, It!IsFetch, One!IsFetch, It!RangeOf,
         One!RangeOf
<1>18. ASSUME NEW t \in TickId
      PROVE  It!TickStep(t) <=> One(kind)!TickStep(t)
  BY <1>3, <1>4, <1>5, <1>6, <1>7 DEF It!TickStep, One!TickStep
<1>19. ASSUME NEW j \in JobId
      PROVE  It!JobStep(j) <=> One(kind)!JobStep(j)
  BY <1>9, <1>10, <1>11, <1>12, <1>13 DEF It!JobStep, One!JobStep
<1>20. QED
  BY <1>1, <1>2, <1>8, <1>14, <1>15, <1>16, <1>17, <1>18, <1>19 DEF It!Next, One!Next

(***************************************************************************)
(* Theorems                                                                *)
(***************************************************************************)
(* In the process with all three services, each indexer behaves as RangeFetch says. *)
THEOREM BehavesAsRangeFetch == ASSUME kind \in Kind PROVE Spec => It!Spec
<1>1. It!Init <=> One(kind)!Init
  BY SameInit
<1>2. [It!Next]_(It!vars) <=> [One(kind)!Next]_(One(kind)!vars)
  <2>1. UNCHANGED It!vars <=> UNCHANGED One(kind)!vars
    BY DEF It!vars, One!vars
  <2>2. QED
    BY <2>1, SameNext
<1>3. Spec => One(kind)!Spec
  BY ImplementsRangeFetch
<1>4. QED
  BY <1>1, <1>2, <1>3, PTL DEF It!Spec, One!Spec

(* No indexer forgets a block below a successful checkpoint of its own, although the
   three share one checkpoint table and one queue, and die together. *)
THEOREM EachHasNoGap == ASSUME kind \in Kind PROVE Spec => []It!NoSilentGap
BY ItsEvents, ItsConfig, It!NoGap, BehavesAsRangeFetch, PTL

(* Each indexer keeps a ledger of its own: what it answers for, no step of another one
   settles or gives up. *)
THEOREM EachKeepsItsLedger == ASSUME kind \in Kind PROVE Spec => It!KeepsLedger
BY ItsEvents, ItsConfig, It!LedgerIsKept, BehavesAsRangeFetch, PTL

(* Of a block that a refetch of its own has passed over half stored, an indexer misses only
   the last transactions. *)
THEOREM EachLosesOnlyTails == ASSUME kind \in Kind PROVE Spec => []It!OnlyTailsLost
BY ItsEvents, ItsConfig, It!TailsAtMost, BehavesAsRangeFetch, PTL

(* No indexer schedules, fetches or checkpoints a block the chain does not have yet. *)
THEOREM EachStaysInChain == ASSUME kind \in Kind PROVE Spec => []It!WithinChain
BY ItsEvents, ItsConfig, It!NoFutureBlock, BehavesAsRangeFetch, PTL

(* Every indexer saves a range as successful only when each valid event of its kind in
   that range is in the table. *)
THEOREM EachOkIsComplete == ASSUME kind \in Kind PROVE Spec => It!OkMeansComplete
BY ItsEvents, ItsConfig, It!OkIsComplete, BehavesAsRangeFetch, PTL

(* Every indexer clears a failed checkpoint only when what it stood for is recorded,
   given up or owned by somebody else. *)
THEOREM EachClearIsCovered == ASSUME kind \in Kind PROVE Spec => It!ClearOnlyWhenCovered
BY ItsEvents, ItsConfig, It!ClearIsCovered, BehavesAsRangeFetch, PTL

(* When all is drained, an indexer that no fault has hit misses none of its events up to its
   highest checkpoint, whatever the other two have been through. *)
THEOREM EachMissesNothing == ASSUME kind \in Kind PROVE Spec => []It!NoEventMissingAtRest
BY ItsEvents, ItsConfig, It!NothingMissing, BehavesAsRangeFetch, PTL

(* ... and has the last event of every transaction it has recorded. *)
THEOREM EachLastEventWins == ASSUME kind \in Kind PROVE Spec => []It!LastEventWinsAtRest
BY ItsEvents, ItsConfig, It!LastEventWins, BehavesAsRangeFetch, PTL

(* Each service's crawl is complete, however often the three services die together. *)
THEOREM EachCrawlIsComplete ==
  ASSUME kind \in Kind, Mode = "CRAWL", FaultKinds \subseteq {"tick", "crash"}
  PROVE  Spec => []It!CrawlIndexesAllButNewest
BY ItsEvents, ItsConfig, It!CrawlIsComplete, BehavesAsRangeFetch, PTL
=============================================================================
