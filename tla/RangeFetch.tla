------------------------------ MODULE RangeFetch ------------------------------
(***************************************************************************)
(* One indexer (StakingFetchService; UnstakingFetchService and             *)
(* ReqRewardFetchService have the same control) together with the parts it *)
(* works through: the checkpoint table, the event table, the BullMQ queue  *)
(* and WorkerService, and the chain seen over RPC.                         *)
(*                                                                         *)
(* A `tick' is one run of handleQueryBlocks: it first re-enqueues failed   *)
(* checkpoints, then enqueues the blocks after the latest successful       *)
(* checkpoint.  A `job' is one delivery of a queue entry to WorkerService. *)
(* Ticks and jobs interleave at every await that touches shared state.     *)
(***************************************************************************)
EXTENDS BlockRanges, FiniteSets

CONSTANTS
  NumEvents,          \* events are numbered in log order
  Block,              \* Block[e]: the block of event e
  TxHash, Tx,         \* Tx[e]: the transaction of event e, the key of its table row
  Valid,              \* the events whose decoded args are all truthy
  MaxBlock,           \* bound on the height of the chain
  SplitValue,         \* ONE_DAY_BLOCK_RANGE
  Window,             \* initDataDuration months, in blocks
  MaxQueryBlockRange, \* the configured provider limit
  Lag,                \* how far eth_blockNumber may trail the head
  Mode,               \* WORKER_MODE: "CRAWL" or "LISTEN"
  TickId, JobId,      \* slots for ticks in progress and for live queue entries
  RowId,              \* checkpoint ids
  NoCheckpoint,       \* the missing checkpointId of a plain fetch
  Concurrency,        \* BullMQ worker concurrency
  MaxStalled,         \* BullMQ maxStalledCount
  FaultKinds, MaxFaults, \* which faults may happen, and how many in all
  Overlap             \* may a cron tick start before earlier work has drained?

Event == 1..NumEvents

ASSUME EventAssumption ==
  /\ NumEvents \in Nat
  /\ Block \in [Event -> 0..MaxBlock]
  /\ Tx \in [Event -> TxHash]
  /\ Valid \subseteq Event
  /\ \A d, e \in Event : d <= e => Block[d] <= Block[e]
  /\ \A d, e \in Event : Tx[d] = Tx[e] => Block[d] = Block[e]

ASSUME ConfigAssumption ==
  /\ MaxBlock \in Nat /\ Window \in Nat /\ Lag \in Nat
  /\ SplitValue \in Nat \ {0} /\ MaxQueryBlockRange \in Nat \ {0}
  /\ Mode \in {"CRAWL", "LISTEN"} /\ Overlap \in BOOLEAN
  /\ Concurrency \in Nat \ {0} /\ MaxStalled \in Nat /\ MaxFaults \in Nat
  /\ NoCheckpoint \notin RowId

VARIABLES
  head,        \* height of the chain
  table,       \* table[x]: the event stored for transaction x, 0 when there is none
  row,         \* the checkpoint table
  job,         \* the queue and the running deliveries
  tick,        \* the runs of handleQueryBlocks in progress
  newestBlock, \* the field this.newestBlock, shared by all ticks
  booted,      \* has this process run its onModuleInit?
  faults,      \* faults so far
  abandoned,   \* history: ranges no queue entry and no checkpoint row answers for
  windowStart  \* history: the highest first block chosen without a checkpoint

vars == <<head, table, row, job, tick, newestBlock, booted, faults, abandoned, windowStart>>

Ranges == [from : 0..(MaxBlock + 1), to : 0..MaxBlock]
Tasks == [from : 0..(MaxBlock + 1), to : 0..MaxBlock, cp : RowId \cup {NoCheckpoint}]

InRange(b, r) == r.from <= b /\ b <= r.to
RangeOf(r) == [from |-> r.from, to |-> r.to]
RecordedBlocks == {Block[table[x]] : x \in {y \in TxHash : table[y] # 0}}

FreeJob == [state |-> "free", from |-> 0, to |-> 0, cp |-> NoCheckpoint,
            left |-> {}, stalls |-> 0, locked |-> FALSE]
WaitingJob(r, stalls) == [state |-> "waiting", from |-> r.from, to |-> r.to, cp |-> r.cp,
                          left |-> {}, stalls |-> stalls, locked |-> TRUE]
(* Job j goes on in another state, with these events left to write. *)
Moved(j, state, left) == [job[j] EXCEPT !.state = state, !.left = left]

Ticking(pc, probe, todo) == [pc |-> pc, probe |-> probe, todo |-> todo]
IdleTick == Ticking("idle", {}, {})

FreeSlots == {j \in JobId : job[j].state = "free"}
Running == {j \in JobId : job[j].state \in {"writing", "failing"}}
IsFetch(j) == job[j].cp = NoCheckpoint
NewRows == {c \in RowId : row[c].state = "none"}

Fault(kind) == kind \in FaultKinds /\ faults < MaxFaults /\ faults' = faults + 1

Init ==
  /\ head \in 0..MaxBlock
  /\ table = [x \in TxHash |-> 0]
  /\ row = [c \in RowId |-> [state |-> "none", from |-> 0, to |-> 0]]
  /\ job = [j \in JobId |-> FreeJob]
  /\ tick = [t \in TickId |-> IdleTick]
  /\ newestBlock = 0 /\ booted = FALSE /\ faults = 0
  /\ abandoned = {} /\ windowStart = 0

(***************************************************************************)
(* The chain                                                               *)
(***************************************************************************)
Grow ==
  /\ head < MaxBlock
  /\ head' = head + 1
  /\ UNCHANGED <<table, row, job, tick, newestBlock, booted, faults, abandoned, windowStart>>

(***************************************************************************)
(* A tick: handleQueryBlocks                                               *)
(***************************************************************************)
Quiet == FreeSlots = JobId /\ \A t \in TickId : tick[t].pc = "idle"

(* onModuleInit in CRAWL mode runs once per process; handleCron in LISTEN mode runs
   every three minutes, whether or not the previous run has returned.  The run
   starts by reading the failed checkpoints. *)
StartTick(t) ==
  /\ tick[t].pc = "idle"
  /\ Mode = "CRAWL" => ~booted
  /\ Overlap \/ Quiet
  /\ tick' = [tick EXCEPT ![t] =
       Ticking("refetching", {c \in RowId : row[c].state = "failed"}, {})]
  /\ booted' = TRUE
  /\ UNCHANGED <<head, table, row, job, newestBlock, faults, abandoned, windowStart>>

(* What processFailedCheckpoints schedules for failed row c: everything after the
   latest block recorded within the row's range, nothing when that is its last. *)
Refetch_AnyBlock(c) ==
  LET latest == {b \in RecordedBlocks : \A d \in RecordedBlocks : d <= b}
  IN  IF RecordedBlocks = {}
        THEN {[from |-> row[c].from, to |-> row[c].to, cp |-> c]}
        ELSE {[from |-> b + 1, to |-> row[c].to, cp |-> c] :
                b \in {d \in latest : d < row[c].to}}
Refetch(c) ==
  LET found == {b \in RecordedBlocks : InRange(b, row[c])}
      latest == {b \in found : \A d \in found : d <= b}
  IN  IF found = {}
        THEN {[from |-> row[c].from, to |-> row[c].to, cp |-> c]}
        ELSE {[from |-> b + 1, to |-> row[c].to, cp |-> c] :
                b \in {d \in latest : d < row[c].to}}

ProbeFailed(t) ==
  /\ tick[t].pc = "refetching"
  /\ \E c \in tick[t].probe :
       tick' = [tick EXCEPT ![t] =
         Ticking("refetching", tick[t].probe \ {c}, tick[t].todo \cup Refetch(c))]
  /\ UNCHANGED <<head, table, row, job, newestBlock, booted, faults, abandoned, windowStart>>

Enqueue(r) ==
  \E j \in FreeSlots : job' = [job EXCEPT ![j] = WaitingJob(r, 0)]

(* queryRanges over the failed ranges, one queue.add at a time. *)
AddRefetch(t) ==
  /\ tick[t].pc = "refetching" /\ tick[t].probe = {}
  /\ \E r \in tick[t].todo :
       /\ Enqueue(r)
       /\ tick' = [tick EXCEPT ![t] = Ticking("refetching", {}, tick[t].todo \ {r})]
  /\ UNCHANGED <<head, table, row, newestBlock, booted, faults, abandoned, windowStart>>

(* The heights eth_blockNumber may answer. *)
SeenHeads_Pending == Greater(head - Lag, 0)..(head + 1)
SeenHeads == Greater(head - Lag, 0)..head

(* this.newestBlock = await getCurrentBlock() *)
ReadHead(t) ==
  /\ tick[t].pc = "refetching" /\ tick[t].probe = {} /\ tick[t].todo = {}
  /\ newestBlock' \in SeenHeads
  /\ tick' = [tick EXCEPT ![t] = Ticking("latest", {}, {})]
  /\ UNCHANGED <<head, table, row, job, booted, faults, abandoned, windowStart>>

OkEnds == {row[c].to : c \in {d \in RowId : row[d].state = "ok"}}
LatestEnd == {m \in OkEnds : \A n \in OkEnds : n <= m}
StartBlocks_Again == IF OkEnds = {} THEN {InitialFromBlock(newestBlock, Window)}
                                    ELSE LatestEnd
StartBlocks == IF OkEnds = {} THEN {InitialFromBlock(newestBlock, Window)}
                              ELSE {m + 1 : m \in LatestEnd}

(* findLatestCheckpoint, and the window after it; this.newestBlock is read again
   here, after the await, and may be another tick's. *)
ReadLatest(t) ==
  /\ tick[t].pc = "latest"
  /\ \E from \in StartBlocks :
       LET todo == {[from |-> r.from, to |-> r.to, cp |-> NoCheckpoint] :
                      r \in SplitIntoRanges(from, newestBlock, SplitValue)}
       IN  /\ tick' = [tick EXCEPT ![t] =
                IF todo = {} THEN IdleTick ELSE Ticking("adding", {}, todo)]
           /\ windowStart' = IF OkEnds = {} THEN Greater(windowStart, from) ELSE windowStart
  /\ UNCHANGED <<head, table, row, job, newestBlock, booted, faults, abandoned>>

(* queryRanges awaits each queue.add before the next, so a plan is added upwards. *)
Lowest_Any(r, todo) == r \in todo
Lowest(r, todo) == r \in todo /\ \A q \in todo : r.from <= q.from

AddFetch(t) ==
  /\ tick[t].pc = "adding"
  /\ \E r \in tick[t].todo :
       /\ Lowest(r, tick[t].todo)
       /\ Enqueue(r)
       /\ tick' = [tick EXCEPT ![t] =
            IF tick[t].todo = {r} THEN IdleTick ELSE Ticking("adding", {}, tick[t].todo \ {r})]
  /\ UNCHANGED <<head, table, row, newestBlock, booted, faults, abandoned, windowStart>>

(***************************************************************************)
(* A job: WorkerService.processFetchJob, executeRangeQuery for a plain     *)
(* fetch and executeFailedRangeQuery for a refetch                         *)
(***************************************************************************)
Fetched(r) ==
  {e \in Event : \E b \in CreateBatches(r.from, r.to, MaxQueryBlockRange) : InRange(Block[e], b)}

Admitted(j) == job[j].state = "waiting" /\ Cardinality(Running) < Concurrency

(* A worker takes the entry and queryFilter returns the logs of every batch. *)
FetchLogs(j) ==
  /\ Admitted(j)
  /\ job' = [job EXCEPT ![j] = Moved(j, "writing", Fetched(job[j]))]
  /\ UNCHANGED <<head, table, row, tick, newestBlock, booted, faults, abandoned, windowStart>>

(* The loop of logEvents awaits each event before the next. *)
NextLog_Any(e, left) == e \in left
NextLog(e, left) == e \in left /\ \A d \in left : e <= d

(* processStakingEvent: skip malformed args, else upsert on the transaction hash. *)
Upsert_KeepFirst(e) ==
  IF e \in Valid /\ table[Tx[e]] = 0 THEN [table EXCEPT ![Tx[e]] = e] ELSE table
Upsert(e) == IF e \in Valid THEN [table EXCEPT ![Tx[e]] = e] ELSE table

WriteEvent(j) ==
  /\ job[j].state = "writing"
  /\ \E e \in job[j].left :
       /\ NextLog(e, job[j].left)
       /\ job' = [job EXCEPT ![j] = Moved(j, "writing", job[j].left \ {e})]
       /\ table' = Upsert(e)
  /\ UNCHANGED <<head, row, tick, newestBlock, booted, faults, abandoned, windowStart>>

(* logEvents has returned. *)
Logged_Early(j) == job[j].state = "writing"
Logged(j) == job[j].state = "writing" /\ job[j].left = {}

(* checkpointRepository.create *)
InsertRow(j, state) ==
  \E c \in NewRows :
    row' = [row EXCEPT ![c] = [state |-> state, from |-> job[j].from, to |-> job[j].to]]

(* saveLatestCheckpoint(to, from, type, false) *)
SaveCheckpoint(j) ==
  /\ Logged(j) /\ IsFetch(j)
  /\ InsertRow(j, "ok")
  /\ job' = [job EXCEPT ![j] = FreeJob]
  /\ UNCHANGED <<head, table, tick, newestBlock, booted, faults, abandoned, windowStart>>

(* checkpointsService.update(checkpointId, {isFailed: false}) *)
ClearFailed(j) ==
  /\ Logged(j) /\ ~IsFetch(j)
  /\ row' = [row EXCEPT ![job[j].cp] = [@ EXCEPT !.state = "ok"]]
  /\ job' = [job EXCEPT ![j] = FreeJob]
  /\ UNCHANGED <<head, table, tick, newestBlock, booted, faults, abandoned, windowStart>>

(* executeRangeQuery catches, to save the range as failed; executeFailedRangeQuery
   only rethrows, and the entry is gone because no `attempts' are configured. *)
Caught_Silently(j) == FreeJob
Caught(j) == IF IsFetch(j) THEN Moved(j, "failing", {}) ELSE FreeJob

(* Anything a job awaits may reject. *)
JobThrows(j) ==
  /\ Fault("job")
  /\ Admitted(j) \/ job[j].state = "writing"
  /\ job' = [job EXCEPT ![j] = Caught(j)]
  /\ UNCHANGED <<head, table, row, tick, newestBlock, booted, abandoned, windowStart>>

(* The catch clause: saveLatestCheckpoint(to, from, type, true) *)
SaveFailedCheckpoint(j) ==
  /\ job[j].state = "failing"
  /\ InsertRow(j, "failed")
  /\ job' = [job EXCEPT ![j] = FreeJob]
  /\ UNCHANGED <<head, table, tick, newestBlock, booted, faults, abandoned, windowStart>>

GivesUp(j) == job[j].stalls = MaxStalled

(* The ranges nobody answers for once the queue entries S are gone.  A refetch
   still has its failed row, and after a lost lock another delivery answers. *)
Orphans(S) == {RangeOf(job[j]) : j \in {i \in S : job[i].locked /\ IsFetch(i)}}

(* The catch clause itself throws (its getBlock call or its insert): no row is left
   for the range. *)
SaveFailedThrows(j) ==
  /\ Fault("catch")
  /\ job[j].state = "failing"
  /\ job' = [job EXCEPT ![j] = FreeJob]
  /\ abandoned' = abandoned \cup Orphans({j})
  /\ UNCHANGED <<head, table, row, tick, newestBlock, booted, windowStart>>

(***************************************************************************)
(* Faults of the queue and of the process                                  *)
(***************************************************************************)
Unlocked(j) == [job[j] EXCEPT !.locked = FALSE]

(* BullMQ's stalled-job check puts the entry back in the queue. *)
Redelivered_No(j) == FreeJob
Redelivered(j) == WaitingJob(job[j], job[j].stalls + 1)

(* BullMQ loses the lock of a delivery that is still running.  The entry is put back
   and delivered again next to the first delivery, or failed once it has stalled
   more than MaxStalled times; the first delivery runs on either way. *)
Stall(j) ==
  /\ Fault("stall")
  /\ j \in Running /\ job[j].locked
  /\ IF GivesUp(j)
       THEN /\ job' = [job EXCEPT ![j] = Unlocked(j)]
            /\ abandoned' = abandoned \cup Orphans({j})
       ELSE /\ \E k \in FreeSlots :
                 job' = [job EXCEPT ![j] = Unlocked(j), ![k] = Redelivered(j)]
            /\ UNCHANGED abandoned
  /\ UNCHANGED <<head, table, row, tick, newestBlock, booted, windowStart>>

(* The process dies and comes back.  Ticks and this.newestBlock are gone; entries
   that were running have stalled; waiting entries and both tables persist. *)
Restart ==
  LET Lost == {j \in Running : ~job[j].locked \/ GivesUp(j)}
  IN  /\ tick' = [t \in TickId |-> IdleTick]
      /\ newestBlock' = 0 /\ booted' = FALSE
      /\ job' = [j \in JobId |->
                   IF j \notin Running THEN job[j]
                   ELSE IF j \in Lost THEN FreeJob
                   ELSE Redelivered(j)]
      /\ abandoned' = abandoned \cup Orphans(Lost)
      /\ UNCHANGED <<head, table, row, windowStart>>

Crash == Fault("crash") /\ Restart

(* An await of the tick rejects.  A cron run only logs it; onModuleInit rejects the
   bootstrap promise and the process exits. *)
TickThrows(t) ==
  /\ Fault("tick")
  /\ tick[t].pc # "idle"
  /\ IF Mode = "CRAWL"
       THEN Restart
       ELSE /\ tick' = [tick EXCEPT ![t] = IdleTick]
            /\ UNCHANGED <<head, table, row, job, newestBlock, booted, abandoned, windowStart>>

(***************************************************************************)
(* The specification                                                       *)
(***************************************************************************)
TickStep(t) == ProbeFailed(t) \/ AddRefetch(t) \/ ReadHead(t) \/ ReadLatest(t) \/ AddFetch(t)

JobStep(j) ==
  FetchLogs(j) \/ WriteEvent(j) \/ SaveCheckpoint(j) \/ ClearFailed(j) \/ SaveFailedCheckpoint(j)

Next ==
  \/ Grow
  \/ \E t \in TickId : StartTick(t) \/ TickStep(t) \/ TickThrows(t)
  \/ \E j \in JobId : JobStep(j) \/ JobThrows(j) \/ SaveFailedThrows(j) \/ Stall(j)
  \/ Crash

Spec == Init /\ [][Next]_vars

(* The chain grows, cron fires, a started tick and a queued or running job go on;
   no fault has to happen. *)
FairSpec ==
  /\ Spec
  /\ WF_vars(Grow)
  /\ WF_vars(\E t \in TickId : StartTick(t))
  /\ \A t \in TickId : WF_vars(TickStep(t))
  /\ \A j \in JobId : WF_vars(JobStep(j))
=============================================================================
