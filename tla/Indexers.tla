------------------------------- MODULE Indexers -------------------------------
(***************************************************************************)
(* The three indexers as one process: StakingFetchService,                 *)
(* UnstakingFetchService and ReqRewardFetchService write into one           *)
(* checkpoint table and one queue, told apart only by a query type, and     *)
(* WorkerService gives ten workers to whatever entry comes next.  The       *)
(* process dies and boots as a whole.  IndexersInv maps what belongs to one *)
(* type to RangeFetch, whose comments describe the steps.                   *)
(***************************************************************************)
EXTENDS BlockRanges, FiniteSets

CONSTANTS
  NumEvents, Block, Tx, Valid, \* as in RangeFetch, for each kind of event
  TxHash,
  MaxBlock, SplitValue, Window, MaxQueryBlockRange, Lag, Mode,
  TickId,     \* slots for ticks in progress of one service
  JobId, RowId, NoCheckpoint,
  NoType,     \* the type of a row or entry that does not exist
  Concurrency, MaxStalled, FaultKinds, MaxFaults

Kind == {"staking", "unstaking", "reward"}

ASSUME EventAssumption ==
  \A k \in Kind :
    LET Event == 1..NumEvents[k]
    IN  /\ NumEvents[k] \in Nat
        /\ Block[k] \in [Event -> 0..MaxBlock] /\ Tx[k] \in [Event -> TxHash]
        /\ Valid[k] \subseteq Event
        /\ \A d, e \in Event : d <= e => Block[k][d] <= Block[k][e]
        /\ \A d, e \in Event : Tx[k][d] = Tx[k][e] => Block[k][d] = Block[k][e]

ASSUME ConfigAssumption ==
  /\ MaxBlock \in Nat /\ Window \in Nat /\ Lag \in Nat
  /\ SplitValue \in Nat \ {0} /\ MaxQueryBlockRange \in Nat \ {0}
  /\ Mode \in {"CRAWL", "LISTEN"}
  /\ Concurrency \in Nat \ {0} /\ MaxStalled \in Nat /\ MaxFaults \in Nat
  /\ NoCheckpoint \notin RowId /\ IsFiniteSet(JobId)

(* enum QueryType *)
FetchType == [staking |-> "fetch-staking", unstaking |-> "fetch-unstaking",
              reward |-> "fetch-request-reward"]
RefreshType == [staking |-> "refresh-failed-staking",
                unstaking |-> "refresh-failed-unstaking",
                reward |-> "refresh-failed-request-reward"]
FetchTypes == {FetchType[k] : k \in Kind}
QueryTypes == FetchTypes \cup {RefreshType[k] : k \in Kind}

ASSUME TypeAssumption == NoType \notin QueryTypes

VARIABLES
  head, tables, newestBlock, booted, abandoned, windowStart, \* for each kind but head
  ticks,      \* ticks[k]: the runs of handleQueryBlocks of service k in progress
  rows,       \* the checkpoint table
  queue,      \* the entries of queue blockchain-index-event and their deliveries
  faults,     \* faults so far, bounded by MaxFaults
  hits        \* history: those that touched each kind

vars == <<head, tables, newestBlock, booted, abandoned, windowStart,
          ticks, rows, queue, faults, hits>>
fields == <<newestBlock, booted>>
history == <<faults, hits, abandoned, windowStart>>

NoRow == [queryType |-> NoType, isFailed |-> FALSE, from |-> 0, to |-> 0]
NoEntry == [state |-> "free", type |-> NoType, from |-> 0, to |-> 0, cp |-> NoCheckpoint,
            left |-> {}, stalls |-> 0, locked |-> FALSE]
Entry(type, r, stalls) ==
  [NoEntry EXCEPT !.state = "waiting", !.type = type, !.from = r.from, !.to = r.to,
                  !.cp = r.cp, !.stalls = stalls, !.locked = TRUE]
Ticking(pc, probe, todo) == [pc |-> pc, probe |-> probe, todo |-> todo]
IdleTick == Ticking("idle", {}, {})

InRange(b, r) == r.from <= b /\ b <= r.to
Whole(r) == [from |-> r.from, to |-> r.to]
Recorded(k) == {Block[k][tables[k][x]] : x \in {y \in TxHash : tables[k][y] # 0}}
Moves(k, t, tick) == ticks' = [ticks EXCEPT ![k][t] = tick]
Becomes(j, entry) == queue' = [queue EXCEPT ![j] = entry]
FreeSlots == {j \in JobId : queue[j].state = "free"}
Running == {j \in JobId : queue[j].state \in {"writing", "failing"}}

Init ==
  /\ head \in 0..MaxBlock
  /\ tables = [k \in Kind |-> [x \in TxHash |-> 0]]
  /\ newestBlock = [k \in Kind |-> 0] /\ booted = [k \in Kind |-> FALSE]
  /\ ticks = [k \in Kind |-> [t \in TickId |-> IdleTick]]
  /\ rows = [c \in RowId |-> NoRow] /\ queue = [j \in JobId |-> NoEntry]
  /\ faults = 0 /\ hits = [k \in Kind |-> 0]
  /\ abandoned = [k \in Kind |-> {}] /\ windowStart = [k \in Kind |-> 0]

(* A fault touches the indexers K. *)
Hit(K) == hits' = [k \in Kind |-> hits[k] + IF k \in K THEN 1 ELSE 0]
Fault(f, K) == f \in FaultKinds /\ faults < MaxFaults /\ faults' = faults + 1 /\ Hit(K)

Grow ==
  /\ head < MaxBlock /\ head' = head + 1
  /\ UNCHANGED <<tables, fields, ticks, rows, queue, history>>

(***************************************************************************)
(* The checkpoint table, looked up by type                                 *)
(***************************************************************************)
FindFailedCheckpoints_AnyType(type) == {c \in RowId : rows[c].isFailed}
FindFailedCheckpoints(type) ==
  {c \in RowId : rows[c].queryType = type /\ rows[c].isFailed}

Successful_AnyType(type) == {c \in RowId : rows[c].queryType # NoType /\ ~rows[c].isFailed}
Successful(type) == {c \in RowId : rows[c].queryType = type /\ ~rows[c].isFailed}
FindLatestCheckpoint(type) ==
  {rows[c].to : c \in {d \in Successful(type) : \A e \in Successful(type) : rows[e].to <= rows[d].to}}

InsertRow(type, j, failed) ==
  \E c \in RowId :
    /\ rows[c] = NoRow
    /\ rows' = [rows EXCEPT ![c] =
         [queryType |-> type, isFailed |-> failed, from |-> queue[j].from, to |-> queue[j].to]]

(***************************************************************************)
(* Ticks of service k                                                      *)
(***************************************************************************)
StartTick(k, t) ==
  /\ ticks[k][t].pc = "idle"
  /\ Mode = "CRAWL" => ~booted[k]
  /\ Moves(k, t, Ticking("refetching", FindFailedCheckpoints(FetchType[k]), {}))
  /\ booted' = [booted EXCEPT ![k] = TRUE]
  /\ UNCHANGED <<head, tables, newestBlock, rows, queue, history>>

Refetch(k, c) ==
  LET found == {b \in Recorded(k) : InRange(b, rows[c])}
      latest == {b \in found : \A d \in found : d <= b}
  IN  IF found = {}
        THEN {[from |-> rows[c].from, to |-> rows[c].to, cp |-> c]}
        ELSE {[from |-> b + 1, to |-> rows[c].to, cp |-> c] :
                b \in {d \in latest : d < rows[c].to}}

ProbeFailed(k, t) ==
  /\ ticks[k][t].pc = "refetching"
  /\ \E c \in ticks[k][t].probe :
       Moves(k, t, Ticking("refetching", ticks[k][t].probe \ {c},
                                         ticks[k][t].todo \cup Refetch(k, c)))
  /\ UNCHANGED <<head, tables, fields, rows, queue, history>>

(* One queue.add of queryRanges, in the order of the plan. *)
Add(k, t, type, r, after) ==
  /\ \E j \in FreeSlots : Becomes(j, Entry(type, r, 0))
  /\ Moves(k, t, after)
  /\ UNCHANGED <<head, tables, fields, rows, history>>

AddRefetch(k, t) ==
  /\ ticks[k][t].pc = "refetching" /\ ticks[k][t].probe = {}
  /\ \E r \in ticks[k][t].todo :
       Add(k, t, RefreshType[k], r, Ticking("refetching", {}, ticks[k][t].todo \ {r}))

ReadHead(k, t) ==
  /\ ticks[k][t] = Ticking("refetching", {}, {})
  /\ \E n \in Greater(head - Lag, 0)..head : newestBlock' = [newestBlock EXCEPT ![k] = n]
  /\ Moves(k, t, Ticking("latest", {}, {}))
  /\ UNCHANGED <<head, tables, booted, rows, queue, history>>

ReadLatest(k, t) ==
  LET none == Successful(FetchType[k]) = {}
      starts == IF none THEN {InitialFromBlock(newestBlock[k], Window)}
                        ELSE {m + 1 : m \in FindLatestCheckpoint(FetchType[k])}
  IN  /\ ticks[k][t].pc = "latest"
      /\ \E from \in starts :
           LET todo == {[from |-> r.from, to |-> r.to, cp |-> NoCheckpoint] :
                          r \in SplitIntoRanges(from, newestBlock[k], SplitValue)}
           IN  /\ Moves(k, t, IF todo = {} THEN IdleTick ELSE Ticking("adding", {}, todo))
               /\ windowStart' = IF none
                    THEN [windowStart EXCEPT ![k] = Greater(@, from)] ELSE windowStart
      /\ UNCHANGED <<head, tables, fields, rows, queue, faults, hits, abandoned>>

AddFetch(k, t) ==
  LET todo == ticks[k][t].todo
  IN  /\ ticks[k][t].pc = "adding"
      /\ \E r \in todo :
           /\ \A q \in todo : r.from <= q.from
           /\ Add(k, t, FetchType[k], r,
                  IF todo = {r} THEN IdleTick ELSE Ticking("adding", {}, todo \ {r}))

(***************************************************************************)
(* Jobs: WorkerService.processFetchJob dispatches on the type              *)
(***************************************************************************)
Fetches(k, j) == queue[j].type = FetchType[k]
Refreshes(k, j) == queue[j].type = RefreshType[k]
Serves(k, j) == Fetches(k, j) \/ Refreshes(k, j)

Logs(k, r) ==
  {e \in 1..NumEvents[k] :
     \E b \in CreateBatches(r.from, r.to, MaxQueryBlockRange) : InRange(Block[k][e], b)}
Admitted(j) == queue[j].state = "waiting" /\ Cardinality(Running) < Concurrency
Logged(j) == queue[j].state = "writing" /\ queue[j].left = {}
With(j, state, left) == [queue[j] EXCEPT !.state = state, !.left = left]
Orphans(k, S) ==
  {Whole(queue[j]) : j \in {i \in S : queue[i].locked /\ Fetches(k, i)}}

FetchLogs(k, j) ==
  /\ Serves(k, j) /\ Admitted(j)
  /\ Becomes(j, With(j, "writing", Logs(k, queue[j])))
  /\ UNCHANGED <<head, tables, fields, ticks, rows, history>>

WriteEvent(k, j) ==
  /\ Serves(k, j) /\ queue[j].state = "writing"
  /\ \E e \in queue[j].left :
       /\ \A d \in queue[j].left : e <= d
       /\ Becomes(j, With(j, "writing", queue[j].left \ {e}))
       /\ tables' = IF e \in Valid[k] THEN [tables EXCEPT ![k][Tx[k][e]] = e] ELSE tables
  /\ UNCHANGED <<head, fields, ticks, rows, history>>

SaveCheckpoint(k, j) ==
  /\ Fetches(k, j) /\ Logged(j)
  /\ InsertRow(FetchType[k], j, FALSE)
  /\ Becomes(j, NoEntry)
  /\ UNCHANGED <<head, tables, fields, ticks, history>>

ClearFailed(k, j) ==
  /\ Refreshes(k, j) /\ Logged(j)
  /\ rows' = [rows EXCEPT ![queue[j].cp].isFailed = FALSE]
  /\ Becomes(j, NoEntry)
  /\ UNCHANGED <<head, tables, fields, ticks, history>>

JobThrows(k, j) ==
  /\ Fault("job", {k}) /\ Serves(k, j)
  /\ Admitted(j) \/ queue[j].state = "writing"
  /\ Becomes(j, IF Fetches(k, j) THEN With(j, "failing", {}) ELSE NoEntry)
  /\ UNCHANGED <<head, tables, fields, ticks, rows, abandoned, windowStart>>

SaveFailedCheckpoint(k, j) ==
  /\ Fetches(k, j) /\ queue[j].state = "failing"
  /\ InsertRow(FetchType[k], j, TRUE)
  /\ Becomes(j, NoEntry)
  /\ UNCHANGED <<head, tables, fields, ticks, history>>

(* Not counted in `faults': it follows one that is. *)
SaveFailedThrows(k, j) ==
  /\ "catch" \in FaultKinds /\ Hit({k})
  /\ Fetches(k, j) /\ queue[j].state = "failing"
  /\ Becomes(j, NoEntry)
  /\ abandoned' = [abandoned EXCEPT ![k] = @ \cup Orphans(k, {j})]
  /\ UNCHANGED <<head, tables, fields, ticks, rows, faults, windowStart>>

(***************************************************************************)
(* Faults of the queue and of the process                                  *)
(***************************************************************************)
GivesUp(j) == queue[j].stalls = MaxStalled
Unlocked(j) == [queue[j] EXCEPT !.locked = FALSE]
Redelivered(j) == Entry(queue[j].type, queue[j], queue[j].stalls + 1)

Stall(k, j) ==
  /\ Fault("stall", {k}) /\ Serves(k, j) /\ j \in Running /\ queue[j].locked
  /\ IF GivesUp(j)
       THEN /\ Becomes(j, Unlocked(j))
            /\ abandoned' = [abandoned EXCEPT ![k] = @ \cup Orphans(k, {j})]
       ELSE /\ \E i \in FreeSlots :
                 queue' = [queue EXCEPT ![j] = Unlocked(j), ![i] = Redelivered(j)]
            /\ UNCHANGED abandoned
  /\ UNCHANGED <<head, tables, fields, ticks, rows, windowStart>>

(* All three services lose their ticks and fields at once. *)
Crash ==
  LET Lost == {j \in Running : ~queue[j].locked \/ GivesUp(j)}
  IN  /\ Fault("crash", Kind)
      /\ ticks' = [k \in Kind |-> [t \in TickId |-> IdleTick]]
      /\ newestBlock' = [k \in Kind |-> 0] /\ booted' = [k \in Kind |-> FALSE]
      /\ queue' = [j \in JobId |-> IF j \notin Running THEN queue[j]
                                   ELSE IF j \in Lost THEN NoEntry ELSE Redelivered(j)]
      /\ abandoned' = [k \in Kind |-> abandoned[k] \cup Orphans(k, Lost)]
      /\ UNCHANGED <<head, tables, rows, windowStart>>

(* A tick of service k rejects: logged by cron, fatal for a boot in CRAWL mode. *)
TickThrows(k, t) ==
  /\ ticks[k][t].pc # "idle"
  /\ IF Mode = "CRAWL" THEN Crash
     ELSE /\ Fault("tick", {k}) /\ Moves(k, t, IdleTick)
          /\ UNCHANGED <<head, tables, fields, rows, queue, abandoned, windowStart>>

(***************************************************************************)
(* The services.  A query of a range reads its logs, writes its events (in  *)
(* ...Events) and saves its checkpoint, or a failed one after a rejection;  *)
(* the query of a failed range only clears its row.                        *)
(***************************************************************************)
StakingTick(t) ==
  \/ StartTick("staking", t) \/ ProbeFailed("staking", t) \/ AddRefetch("staking", t)
  \/ ReadHead("staking", t) \/ ReadLatest("staking", t) \/ AddFetch("staking", t)
  \/ TickThrows("staking", t)

RangeQuery(k, j) ==
  /\ Fetches(k, j)
  /\ \/ FetchLogs(k, j) \/ SaveCheckpoint(k, j)
     \/ SaveFailedCheckpoint(k, j) \/ SaveFailedThrows(k, j)
FailedRangeQuery(k, j) == Refreshes(k, j) /\ (FetchLogs(k, j) \/ ClearFailed(k, j))
StakingJob(j) ==
  \/ RangeQuery("staking", j) \/ FailedRangeQuery("staking", j)
  \/ WriteEvent("staking", j) \/ JobThrows("staking", j)

UnstakingQueryBlocks(t) ==
  \/ StartTick("unstaking", t) \/ ReadHead("unstaking", t)
  \/ ReadLatest("unstaking", t) \/ TickThrows("unstaking", t)
UnstakingFailedCheckpoints(t) == ProbeFailed("unstaking", t) \/ AddRefetch("unstaking", t)
UnstakingRanges(t) == AddFetch("unstaking", t)
UnstakingTick(t) ==
  UnstakingQueryBlocks(t) \/ UnstakingFailedCheckpoints(t) \/ UnstakingRanges(t)

UnstakingRangeQuery(j) == RangeQuery("unstaking", j)
UnstakingFailedRangeQuery(j) == FailedRangeQuery("unstaking", j)
UnstakingEvents(j) == WriteEvent("unstaking", j)
UnstakingJob(j) ==
  \/ UnstakingRangeQuery(j) \/ UnstakingFailedRangeQuery(j)
  \/ UnstakingEvents(j) \/ JobThrows("unstaking", j)

RewardQueryBlocks(t) ==
  \/ StartTick("reward", t) \/ ReadHead("reward", t)
  \/ ReadLatest("reward", t) \/ TickThrows("reward", t)
RewardFailedCheckpoints(t) == ProbeFailed("reward", t) \/ AddRefetch("reward", t)
RewardRanges(t) == AddFetch("reward", t)
RewardTick(t) == RewardQueryBlocks(t) \/ RewardFailedCheckpoints(t) \/ RewardRanges(t)

RewardRangeQuery(j) == RangeQuery("reward", j)
RewardFailedRangeQuery(j) == FailedRangeQuery("reward", j)
RewardEvents(j) == WriteEvent("reward", j)
RewardJob(j) ==
  \/ RewardRangeQuery(j) \/ RewardFailedRangeQuery(j)
  \/ RewardEvents(j) \/ JobThrows("reward", j)

Next ==
  \/ Grow
  \/ \E t \in TickId : StakingTick(t) \/ UnstakingTick(t) \/ RewardTick(t)
  \/ \E j \in JobId : StakingJob(j) \/ UnstakingJob(j) \/ RewardJob(j)
  \/ \E k \in Kind, j \in JobId : Stall(k, j)
  \/ Crash

Spec == Init /\ [][Next]_vars
=============================================================================
