-------------------------- MODULE RangeFetchProofs --------------------------
(***************************************************************************)
(* Machine-checked proofs about RangeFetch, for every chain, every split,  *)
(* limit and window, and any number of ticks, jobs, checkpoints and faults.*)
(***************************************************************************)
EXTENDS RangeFetchInv, TLAPS

(***************************************************************************)
(* Block arithmetic                                                        *)
(***************************************************************************)
(* Division and remainder by a positive step. *)
LEMMA QuotientBounds ==
  ASSUME NEW a \in Nat, NEW m \in Nat \ {0}
  PROVE  /\ a \div m \in Nat /\ a \div m <= a
         /\ (a \div m) * m <= a /\ a < (a \div m) * m + m
BY SMT

(* Every iteration of splitIntoRanges yields a non-empty range inside the window, and
   each but the first comes right after another one. *)
LEMMA SplitRanges ==
  ASSUME NEW from \in Int, NEW to \in Int, NEW m \in Nat \ {0},
         NEW r \in SplitIntoRanges(from, to, m)
  PROVE  /\ r.from \in Int /\ r.to \in Int
         /\ from <= r.from /\ r.from <= r.to /\ r.to <= to
         /\ r.from = from \/ \E q \in SplitIntoRanges(from, to, m) : q.to + 1 = r.from
<1>1. PICK b \in LoopStarts(from, to - 1, m) : r = [from |-> b, to |-> Lesser(b + m - 1, to)]
  BY DEF SplitIntoRanges
<1>2. PICK k \in 0..(to - 1 - from) : b = from + k * m
  BY DEF LoopStarts
<1>3. b \in Int /\ from <= b /\ b <= to - 1
  BY DEF LoopStarts
<1>4. CASE k = 0
  BY <1>1, <1>2, <1>3, <1>4 DEF Lesser
<1>5. CASE k > 0
  <2>1. k - 1 \in Nat /\ (k - 1) * m \in Nat /\ (k - 1) * m + m = k * m
    BY <1>2, <1>5
  <2>2. b - m = from + (k - 1) * m /\ k - 1 \in 0..(to - 1 - from)
    BY <2>1, <1>2, <1>3, <1>5
  <2>3. b - m \in LoopStarts(from, to - 1, m)
    BY <2>1, <2>2, <1>3 DEF LoopStarts
  <2>4. [from |-> b - m, to |-> Lesser(b - m + m - 1, to)] \in SplitIntoRanges(from, to, m)
    BY <2>3 DEF SplitIntoRanges
  <2>5. Lesser(b - m + m - 1, to) + 1 = b
    BY <1>3 DEF Lesser
  <2>6. \E q \in SplitIntoRanges(from, to, m) : q.to + 1 = r.from
    BY <2>4, <2>5, <1>1
  <2>7. QED
    BY <2>6, <1>1, <1>3 DEF Lesser
<1>6. QED
  BY <1>2, <1>4, <1>5

(* The queries of createBatches together ask for exactly the blocks of the range. *)
LEMMA BatchesCover ==
  ASSUME NEW from \in Int, NEW to \in Int, NEW c \in Nat \ {0}, NEW b \in Int
  PROVE  (\E q \in CreateBatches(from, to, c) : InRange(b, q)) <=> from <= b /\ b <= to
<1> DEFINE m == MaxBlockRange(c)
<1>1. m \in Nat \ {0}
  BY DEF MaxBlockRange
<1> HIDE DEF m
<1>2. ASSUME NEW q \in CreateBatches(from, to, c), InRange(b, q)
      PROVE  from <= b /\ b <= to
  <2>1. PICK s \in LoopStarts(from, to, m) : q = [from |-> s, to |-> Lesser(s + m - 1, to)]
    BY DEF CreateBatches, m
  <2>2. QED
    BY <2>1, <1>1, <1>2 DEF InRange, Lesser, LoopStarts
<1>3. ASSUME from <= b, b <= to
      PROVE  \E q \in CreateBatches(from, to, c) : InRange(b, q)
  <2> DEFINE k == (b - from) \div m
             s == from + k * m
  <2>1. k \in Nat /\ k <= b - from /\ k * m <= b - from /\ b - from < k * m + m
    BY <1>1, <1>3, QuotientBounds
  <2>2. k * m \in Nat
    BY <2>1, <1>1
  <2> HIDE DEF k
  <2>3. s \in LoopStarts(from, to, m)
    BY <2>1, <2>2, <1>3 DEF LoopStarts
  <2>4. [from |-> s, to |-> Lesser(s + m - 1, to)] \in CreateBatches(from, to, c)
    BY <2>3 DEF CreateBatches, m
  <2>5. InRange(b, [from |-> s, to |-> Lesser(s + m - 1, to)])
    BY <2>1, <2>2, <1>1, <1>3 DEF InRange, Lesser
  <2>6. QED
    BY <2>4, <2>5
<1>4. QED
  BY <1>2, <1>3

(***************************************************************************)
(* Type correctness                                                        *)
(***************************************************************************)
(* An empty slot has the type of a queue entry. *)
LEMMA FreeJobType == FreeJob \in JobRecord
BY ConfigAssumption DEF FreeJob, JobRecord

(* An idle tick has the type of a tick. *)
LEMMA IdleTickType == IdleTick \in TickRecord
BY DEF IdleTick, Ticking, TickRecord

(* The record of a tick in progress, field by field. *)
LEMMA TickingType ==
  ASSUME NEW pc \in {"idle", "refetching", "latest", "adding"},
         NEW probe \in SUBSET RowId, NEW todo \in SUBSET Tasks
  PROVE  /\ Ticking(pc, probe, todo) \in TickRecord
         /\ Ticking(pc, probe, todo).pc = pc
         /\ Ticking(pc, probe, todo).probe = probe
         /\ Ticking(pc, probe, todo).todo = todo
BY DEF Ticking, TickRecord

(* A job moved to another state keeps its range, checkpoint, lock and stalls. *)
LEMMA MovedType ==
  ASSUME TypeOK, NEW j \in JobId, NEW left \in SUBSET Event,
         NEW state \in {"free", "waiting", "writing", "failing"}
  PROVE  /\ Moved(j, state, left) \in JobRecord
         /\ Moved(j, state, left).state = state /\ Moved(j, state, left).left = left
         /\ Moved(j, state, left).from = job[j].from /\ Moved(j, state, left).to = job[j].to
         /\ Moved(j, state, left).cp = job[j].cp
         /\ Moved(j, state, left).locked = job[j].locked
         /\ Moved(j, state, left).stalls = job[j].stalls
<1>1. job[j] \in JobRecord
  BY DEF TypeOK
<1>2. QED
  BY <1>1 DEF Moved, JobRecord

(* A job that lost its lock keeps everything else. *)
LEMMA UnlockedType ==
  ASSUME TypeOK, NEW j \in JobId
  PROVE  /\ Unlocked(j) \in JobRecord
         /\ Unlocked(j).state = job[j].state /\ Unlocked(j).left = job[j].left
         /\ Unlocked(j).from = job[j].from /\ Unlocked(j).to = job[j].to
         /\ Unlocked(j).cp = job[j].cp /\ Unlocked(j).locked = FALSE
<1>1. job[j] \in JobRecord
  BY DEF TypeOK
<1>2. QED
  BY <1>1 DEF Unlocked, JobRecord

(* A queue entry made from a range, field by field. *)
LEMMA WaitingJobType ==
  ASSUME NEW r, r.from \in 0..(MaxBlock + 1), r.to \in 0..MaxBlock,
         r.cp \in RowId \cup {NoCheckpoint}, NEW n \in 0..MaxStalled
  PROVE  /\ WaitingJob(r, n) \in JobRecord
         /\ WaitingJob(r, n).state = "waiting"
         /\ WaitingJob(r, n).from = r.from /\ WaitingJob(r, n).to = r.to
         /\ WaitingJob(r, n).cp = r.cp /\ WaitingJob(r, n).left = {}
         /\ WaitingJob(r, n).stalls = n /\ WaitingJob(r, n).locked = TRUE
BY DEF WaitingJob, JobRecord

(* Only blocks of the chain are recorded. *)
LEMMA RecordedBlocksType ==
  ASSUME TypeOK PROVE RecordedBlocks \subseteq 0..MaxBlock
BY EventAssumption DEF TypeOK, RecordedBlocks, Event

(* What a tick plans to refetch is well typed, non-empty, and ends with its row. *)
LEMMA RefetchTasks ==
  ASSUME TypeOK, NEW c \in RowId, row[c].from <= row[c].to, NEW r \in Refetch(c)
  PROVE  /\ r \in Tasks /\ r.cp = c /\ r.to = row[c].to
         /\ row[c].from <= r.from /\ r.from <= r.to
         /\ r.from = row[c].from \/ \E b \in RecordedBlocks : r.from = b + 1
<1> DEFINE found == {b \in RecordedBlocks : InRange(b, row[c])}
           latest == {b \in found : \A d \in found : d <= b}
<1>1. row[c].from \in 0..(MaxBlock + 1) /\ row[c].to \in 0..MaxBlock
  BY DEF TypeOK, RowRecord
<1>2. CASE found = {}
  <2>1. r = [from |-> row[c].from, to |-> row[c].to, cp |-> c]
    BY <1>2 DEF Refetch
  <2>2. QED
    BY <2>1, <1>1 DEF Tasks
<1>3. CASE found # {}
  <2>1. PICK b \in latest : b < row[c].to /\ r = [from |-> b + 1, to |-> row[c].to, cp |-> c]
    BY <1>3 DEF Refetch
  <2>2. b \in RecordedBlocks /\ b \in 0..MaxBlock /\ row[c].from <= b
    BY <2>1, RecordedBlocksType DEF InRange
  <2>3. QED
    BY <2>1, <2>2, <1>1, ConfigAssumption DEF Tasks
<1>4. QED
  BY <1>2, <1>3

(* The first block of the next window lies on the chain, or right above it after a
   successful checkpoint at its end. *)
LEMMA StartBlocksType ==
  ASSUME TypeOK, NEW from \in StartBlocks
  PROVE  /\ from \in 0..(MaxBlock + 1)
         /\ OkEnds = {} => from \in 0..MaxBlock
<1>1. CASE OkEnds = {}
  BY <1>1, ConfigAssumption DEF TypeOK, StartBlocks, InitialFromBlock, Greater
<1>2. CASE OkEnds # {}
  <2>1. OkEnds \subseteq 0..MaxBlock
    BY DEF TypeOK, RowRecord, OkEnds
  <2>2. PICK m \in OkEnds : from = m + 1
    BY <1>2 DEF StartBlocks, LatestEnd
  <2>3. QED
    BY <1>2, <2>1, <2>2, ConfigAssumption
<1>3. QED
  BY <1>1, <1>2

(* The plan made by ReadLatest from block `from`. *)
Plan(from) == {[from |-> r.from, to |-> r.to, cp |-> NoCheckpoint] :
                 r \in SplitIntoRanges(from, newestBlock, SplitValue)}

(* A plan is well typed, lies in the window, and each range but the first comes right
   after another one. *)
LEMMA PlanTasks ==
  ASSUME TypeOK, NEW from \in 0..(MaxBlock + 1), NEW r \in Plan(from)
  PROVE  /\ r \in Tasks /\ r.cp = NoCheckpoint
         /\ from <= r.from /\ r.from <= r.to /\ r.to <= newestBlock
         /\ r.from = from \/ \E q \in Plan(from) : q.to + 1 = r.from
<1>1. PICK s \in SplitIntoRanges(from, newestBlock, SplitValue) :
        r = [from |-> s.from, to |-> s.to, cp |-> NoCheckpoint]
  BY DEF Plan
<1>2. newestBlock \in 0..MaxBlock /\ from \in Int /\ newestBlock \in Int /\ SplitValue \in Nat \ {0}
  BY ConfigAssumption DEF TypeOK
<1>3. /\ s.from \in Int /\ s.to \in Int
      /\ from <= s.from /\ s.from <= s.to /\ s.to <= newestBlock
      /\ s.from = from \/ \E q \in SplitIntoRanges(from, newestBlock, SplitValue) :
                             q.to + 1 = s.from
  BY <1>2, SplitRanges
<1>4. ASSUME NEW q \in SplitIntoRanges(from, newestBlock, SplitValue), q.to + 1 = s.from
      PROVE  \E p \in Plan(from) : p.to + 1 = r.from
  <2>1. [from |-> q.from, to |-> q.to, cp |-> NoCheckpoint] \in Plan(from)
    BY DEF Plan
  <2>2. QED
    BY <2>1, <1>1, <1>4
<1>5. r \in Tasks
  BY <1>1, <1>2, <1>3, ConfigAssumption DEF Tasks
<1>6. QED
  BY <1>1, <1>3, <1>4, <1>5

(* queue.add keeps the type of the queue. *)
LEMMA EnqueueType ==
  ASSUME TypeOK, NEW r \in Tasks, Enqueue(r)
  PROVE  job' \in [JobId -> JobRecord]
<1>1. PICK j \in JobId : job' = [job EXCEPT ![j] = WaitingJob(r, 0)]
  BY DEF Enqueue, FreeSlots
<1>2. 0 \in 0..MaxStalled
  BY ConfigAssumption
<1>3. r.from \in 0..(MaxBlock + 1) /\ r.to \in 0..MaxBlock /\ r.cp \in RowId \cup {NoCheckpoint}
  BY DEF Tasks
<1>4. WaitingJob(r, 0) \in JobRecord
  BY <1>2, <1>3, WaitingJobType
<1>5. QED
  BY <1>1, <1>4 DEF TypeOK

(* An entry that may stall once more is put back well typed. *)
LEMMA RedeliveryType ==
  ASSUME TypeOK, NEW j \in JobId, ~GivesUp(j)
  PROVE  WaitingJob(job[j], job[j].stalls + 1) \in JobRecord
<1>1. job[j] \in JobRecord
  BY DEF TypeOK
<1>2. job[j].stalls + 1 \in 0..MaxStalled
  BY <1>1, ConfigAssumption DEF JobRecord, GivesUp
<1>3. QED
  BY <1>1, <1>2, WaitingJobType DEF JobRecord

(* What is abandoned is a set of ranges. *)
LEMMA OrphansType ==
  ASSUME TypeOK, NEW S \in SUBSET JobId PROVE Orphans(S) \subseteq Ranges
BY DEF TypeOK, JobRecord, Orphans, RangeOf, Ranges

(* An inserted checkpoint is well typed. *)
LEMMA InsertRowType ==
  ASSUME TypeOK, NEW j \in JobId, NEW s \in {"ok", "failed"}, InsertRow(j, s)
  PROVE  row' \in [RowId -> RowRecord]
<1>1. PICK c \in RowId :
        row' = [row EXCEPT ![c] = [state |-> s, from |-> job[j].from, to |-> job[j].to]]
  BY DEF InsertRow, NewRows
<1>2. [state |-> s, from |-> job[j].from, to |-> job[j].to] \in RowRecord
  BY DEF TypeOK, JobRecord, RowRecord
<1>3. QED
  BY <1>1, <1>2 DEF TypeOK

(* A restart keeps every type. *)
LEMMA RestartType ==
  ASSUME TypeOK, Restart, faults' \in 0..MaxFaults
  PROVE  TypeOK'
<1>1. ASSUME NEW j \in JobId PROVE job'[j] \in JobRecord
  <2>1. job[j] \in JobRecord
    BY DEF TypeOK
  <2>2. CASE job'[j] = job[j]
    BY <2>1, <2>2
  <2>3. CASE job'[j] = FreeJob
    BY <2>3, FreeJobType
  <2>4. CASE job'[j] = WaitingJob(job[j], job[j].stalls + 1) /\ ~GivesUp(j)
    BY <2>4, RedeliveryType
  <2>5. QED
    BY <2>2, <2>3, <2>4 DEF Restart, Redelivered
<1>2. job' \in [JobId -> JobRecord]
  BY <1>1 DEF Restart
<1>3. tick' \in [TickId -> TickRecord]
  BY IdleTickType DEF Restart
<1>4. abandoned' \subseteq Ranges
  <2>1. {j \in Running : ~job[j].locked \/ GivesUp(j)} \in SUBSET JobId
    BY DEF Running
  <2>2. QED
    BY <2>1, OrphansType DEF TypeOK, Restart
<1>5. newestBlock' \in 0..MaxBlock /\ booted' \in BOOLEAN
  <2>1. newestBlock' = 0 /\ booted' = FALSE
    BY DEF Restart
  <2>2. newestBlock' \in 0..MaxBlock
    BY <2>1, ConfigAssumption
  <2>3. booted' \in BOOLEAN
    BY <2>1
  <2>4. QED
    BY <2>2, <2>3
<1>6. /\ head' \in 0..MaxBlock /\ windowStart' \in 0..MaxBlock
      /\ table' \in [TxHash -> Event \cup {0}] /\ row' \in [RowId -> RowRecord]
  BY DEF TypeOK, Restart
<1>7. QED
  BY <1>2, <1>3, <1>4, <1>5, <1>6 DEF TypeOK

(* Every step keeps every type. *)
LEMMA TypeStep == IInv /\ [Next]_vars => TypeOK'
<1> SUFFICES ASSUME IInv, [Next]_vars PROVE TypeOK'
  OBVIOUS
<1>0. /\ TypeOK
      /\ \A c \in RowId : RowInv(c)
      /\ \A t \in TickId : TickInv(t)
      /\ job \in [JobId -> JobRecord]
      /\ tick \in [TickId -> TickRecord]
  BY DEF IInv, TypeOK
<1> DEFINE Rest == /\ head' \in 0..MaxBlock
                   /\ newestBlock' \in 0..MaxBlock /\ booted' \in BOOLEAN
                   /\ faults' \in 0..MaxFaults /\ abandoned' \subseteq Ranges
                   /\ windowStart' \in 0..MaxBlock
                   /\ row' \in [RowId -> RowRecord]
                   /\ table' \in [TxHash -> Event \cup {0}]
<1>a. ASSUME Rest, job' \in [JobId -> JobRecord], tick' \in [TickId -> TickRecord]
      PROVE  TypeOK'
  BY <1>a DEF TypeOK
<1>b. ASSUME NEW kind, Fault(kind) PROVE faults' \in 0..MaxFaults
  BY <1>0, <1>b, ConfigAssumption DEF Fault, TypeOK
<1> HIDE DEF Rest
<1>1. CASE UNCHANGED vars
  BY <1>0, <1>1 DEF vars, TypeOK
<1>2. CASE Grow
  BY <1>0, <1>2, ConfigAssumption DEF Grow, TypeOK
<1>3. ASSUME NEW t \in TickId, StartTick(t) PROVE TypeOK'
  <2>1. Ticking("refetching", {c \in RowId : row[c].state = "failed"}, {}) \in TickRecord
    BY TickingType
  <2>2. tick' \in [TickId -> TickRecord] /\ job' \in [JobId -> JobRecord] /\ Rest
    BY <2>1, <1>0, <1>3 DEF StartTick, TypeOK, Rest
  <2>3. QED
    BY <2>2, <1>a
<1>4. ASSUME NEW t \in TickId, ProbeFailed(t) PROVE TypeOK'
  <2>1. PICK c \in tick[t].probe :
          tick' = [tick EXCEPT ![t] =
            Ticking("refetching", tick[t].probe \ {c}, tick[t].todo \cup Refetch(c))]
    BY <1>4 DEF ProbeFailed
  <2>2. tick[t] \in TickRecord /\ c \in RowId /\ row[c].state # "none"
    BY <2>1, <1>0 DEF TickRecord, TickInv
  <2>3. Refetch(c) \subseteq Tasks
    BY <2>2, <1>0, RefetchTasks DEF RowInv
  <2>4. tick[t].probe \ {c} \in SUBSET RowId /\ tick[t].todo \cup Refetch(c) \in SUBSET Tasks
    BY <2>2, <2>3 DEF TickRecord
  <2>5. tick' \in [TickId -> TickRecord]
    BY <2>1, <2>4, <1>0, TickingType
  <2>6. job' \in [JobId -> JobRecord] /\ Rest
    BY <1>0, <1>4 DEF ProbeFailed, TypeOK, Rest
  <2>7. QED
    BY <2>5, <2>6, <1>a
<1>5. ASSUME NEW t \in TickId, AddRefetch(t) PROVE TypeOK'
  <2>1. PICK r \in tick[t].todo :
          Enqueue(r) /\ tick' = [tick EXCEPT ![t] = Ticking("refetching", {}, tick[t].todo \ {r})]
    BY <1>5 DEF AddRefetch
  <2>2. r \in Tasks /\ tick[t].todo \ {r} \in SUBSET Tasks
    BY <2>1, <1>0 DEF TickRecord
  <2>3. job' \in [JobId -> JobRecord]
    BY <2>1, <2>2, <1>0, EnqueueType
  <2>4. tick' \in [TickId -> TickRecord]
    BY <2>1, <2>2, <1>0, TickingType
  <2>5. Rest
    BY <1>0, <1>5 DEF AddRefetch, TypeOK, Rest
  <2>6. QED
    BY <2>3, <2>4, <2>5, <1>a
<1>6. ASSUME NEW t \in TickId, ReadHead(t) PROVE TypeOK'
  <2>1. tick' \in [TickId -> TickRecord]
    BY <1>0, <1>6, TickingType DEF ReadHead
  <2>2. newestBlock' \in 0..MaxBlock
    BY <1>0, <1>6, ConfigAssumption DEF ReadHead, SeenHeads, Greater, TypeOK
  <2>3. job' \in [JobId -> JobRecord] /\ Rest
    BY <2>2, <1>0, <1>6 DEF ReadHead, TypeOK, Rest
  <2>4. QED
    BY <2>1, <2>3, <1>a
<1>7. ASSUME NEW t \in TickId, ReadLatest(t) PROVE TypeOK'
  <2>1. PICK from \in StartBlocks :
          /\ tick' = [tick EXCEPT ![t] =
               IF Plan(from) = {} THEN IdleTick ELSE Ticking("adding", {}, Plan(from))]
          /\ windowStart' = IF OkEnds = {} THEN Greater(windowStart, from) ELSE windowStart
    BY <1>7 DEF ReadLatest, Plan
  <2>2. from \in 0..(MaxBlock + 1) /\ Plan(from) \in SUBSET Tasks
    BY <1>0, StartBlocksType, PlanTasks
  <2>3. tick' \in [TickId -> TickRecord]
    BY <2>1, <2>2, <1>0, TickingType, IdleTickType
  <2>4. windowStart' \in 0..MaxBlock
    BY <2>1, <1>0, StartBlocksType DEF Greater, TypeOK
  <2>5. job' \in [JobId -> JobRecord] /\ Rest
    BY <2>4, <1>0, <1>7 DEF ReadLatest, TypeOK, Rest
  <2>6. QED
    BY <2>3, <2>5, <1>a
<1>8. ASSUME NEW t \in TickId, AddFetch(t) PROVE TypeOK'
  <2>1. PICK r \in tick[t].todo :
          /\ Enqueue(r)
          /\ tick' = [tick EXCEPT ![t] =
               IF tick[t].todo = {r} THEN IdleTick ELSE Ticking("adding", {}, tick[t].todo \ {r})]
    BY <1>8 DEF AddFetch
  <2>2. r \in Tasks /\ tick[t].todo \ {r} \in SUBSET Tasks
    BY <2>1, <1>0 DEF TickRecord
  <2>3. job' \in [JobId -> JobRecord]
    BY <2>1, <2>2, <1>0, EnqueueType
  <2>4. tick' \in [TickId -> TickRecord]
    BY <2>1, <2>2, <1>0, IdleTickType, TickingType
  <2>5. Rest
    BY <1>0, <1>8 DEF AddFetch, TypeOK, Rest
  <2>6. QED
    BY <2>3, <2>4, <2>5, <1>a
<1>9. ASSUME NEW j \in JobId, FetchLogs(j) PROVE TypeOK'
  <2>1. Fetched(job[j]) \in SUBSET Event
    BY DEF Fetched
  <2>2. job' \in [JobId -> JobRecord]
    BY <2>1, <1>0, <1>9, MovedType DEF FetchLogs
  <2>3. tick' \in [TickId -> TickRecord] /\ Rest
    BY <1>0, <1>9 DEF FetchLogs, TypeOK, Rest
  <2>4. QED
    BY <2>2, <2>3, <1>a
<1>10. ASSUME NEW j \in JobId, WriteEvent(j) PROVE TypeOK'
  <2>1. PICK e \in job[j].left :
          /\ job' = [job EXCEPT ![j] = Moved(j, "writing", job[j].left \ {e})]
          /\ table' = Upsert(e)
    BY <1>10 DEF WriteEvent
  <2>2. e \in Event /\ job[j].left \ {e} \in SUBSET Event
    BY <2>1, <1>0 DEF JobRecord
  <2>3. job' \in [JobId -> JobRecord]
    BY <2>1, <2>2, <1>0, MovedType
  <2>4. table' \in [TxHash -> Event \cup {0}]
    BY <2>1, <2>2, <1>0, EventAssumption DEF Upsert, TypeOK
  <2>5. tick' \in [TickId -> TickRecord] /\ Rest
    BY <2>4, <1>0, <1>10 DEF WriteEvent, TypeOK, Rest
  <2>6. QED
    BY <2>3, <2>5, <1>a
<1>11. ASSUME NEW j \in JobId, SaveCheckpoint(j) PROVE TypeOK'
  <2>1. job' \in [JobId -> JobRecord] /\ tick' \in [TickId -> TickRecord]
    BY <1>0, <1>11, FreeJobType DEF SaveCheckpoint
  <2>2. Rest
    BY <1>0, <1>11, InsertRowType DEF SaveCheckpoint, TypeOK, Rest
  <2>3. QED
    BY <2>1, <2>2, <1>a
<1>12. ASSUME NEW j \in JobId, ClearFailed(j) PROVE TypeOK'
  <2>1. job' \in [JobId -> JobRecord] /\ tick' \in [TickId -> TickRecord]
    BY <1>0, <1>12, FreeJobType DEF ClearFailed
  <2>2. job[j].cp \in RowId
    BY <1>0, <1>12 DEF ClearFailed, IsFetch, JobRecord
  <2>3. row' \in [RowId -> RowRecord]
    BY <2>2, <1>0, <1>12 DEF ClearFailed, TypeOK, RowRecord
  <2>4. Rest
    BY <2>3, <1>0, <1>12 DEF ClearFailed, TypeOK, Rest
  <2>5. QED
    BY <2>1, <2>4, <1>a
<1>13. ASSUME NEW j \in JobId, SaveFailedCheckpoint(j) PROVE TypeOK'
  <2>1. job' \in [JobId -> JobRecord] /\ tick' \in [TickId -> TickRecord]
    BY <1>0, <1>13, FreeJobType DEF SaveFailedCheckpoint
  <2>2. Rest
    BY <1>0, <1>13, InsertRowType DEF SaveFailedCheckpoint, TypeOK, Rest
  <2>3. QED
    BY <2>1, <2>2, <1>a
<1>14. ASSUME NEW j \in JobId, JobThrows(j) PROVE TypeOK'
  <2>1. Caught(j) \in JobRecord
    BY <1>0, FreeJobType, MovedType DEF Caught
  <2>2. job' \in [JobId -> JobRecord] /\ tick' \in [TickId -> TickRecord]
    BY <2>1, <1>0, <1>14 DEF JobThrows
  <2>3. faults' \in 0..MaxFaults
    BY <1>14, <1>b DEF JobThrows
  <2>4. Rest
    BY <2>3, <1>0, <1>14 DEF JobThrows, TypeOK, Rest
  <2>5. QED
    BY <2>2, <2>4, <1>a
<1>15. ASSUME NEW j \in JobId, SaveFailedThrows(j) PROVE TypeOK'
  <2>1. job' \in [JobId -> JobRecord] /\ tick' \in [TickId -> TickRecord]
    BY <1>0, <1>15, FreeJobType DEF SaveFailedThrows
  <2>2. faults' \in 0..MaxFaults
    BY <1>15, <1>b DEF SaveFailedThrows
  <2>3. abandoned' \subseteq Ranges
    BY <1>0, <1>15, OrphansType DEF SaveFailedThrows, TypeOK
  <2>4. Rest
    BY <2>2, <2>3, <1>0, <1>15 DEF SaveFailedThrows, TypeOK, Rest
  <2>5. QED
    BY <2>1, <2>4, <1>a
<1>16. ASSUME NEW j \in JobId, Stall(j) PROVE TypeOK'
  <2>1. faults' \in 0..MaxFaults /\ tick' \in [TickId -> TickRecord]
    BY <1>0, <1>16, <1>b DEF Stall
  <2>2. abandoned' \subseteq Ranges
    BY <1>0, <1>16, OrphansType DEF Stall, TypeOK
  <2>3. Rest
    BY <2>1, <2>2, <1>0, <1>16 DEF Stall, TypeOK, Rest
  <2>4. CASE GivesUp(j)
    <3>1. job' \in [JobId -> JobRecord]
      BY <2>4, <1>0, <1>16, UnlockedType DEF Stall
    <3>2. QED
      BY <3>1, <2>1, <2>3, <1>a
  <2>5. CASE ~GivesUp(j)
    <3>1. PICK k \in JobId :
            job' = [job EXCEPT ![j] = Unlocked(j), ![k] = Redelivered(j)]
      BY <2>5, <1>16 DEF Stall, FreeSlots
    <3>2. Redelivered(j) \in JobRecord
      BY <2>5, <1>0, RedeliveryType DEF Redelivered
    <3>3. job' \in [JobId -> JobRecord]
      BY <3>1, <3>2, <1>0, UnlockedType
    <3>4. QED
      BY <3>3, <2>1, <2>3, <1>a
  <2>6. QED
    BY <2>4, <2>5
<1>17. CASE Crash
  BY <1>0, <1>17, <1>b, RestartType DEF Crash
<1>18. ASSUME NEW t \in TickId, TickThrows(t) PROVE TypeOK'
  <2>1. faults' \in 0..MaxFaults
    BY <1>18, <1>b DEF TickThrows
  <2>2. CASE Mode = "CRAWL"
    BY <2>1, <2>2, <1>0, <1>18, RestartType DEF TickThrows
  <2>3. CASE Mode # "CRAWL"
    <3>1. tick' \in [TickId -> TickRecord] /\ job' \in [JobId -> JobRecord]
      BY <2>3, <1>0, <1>18, IdleTickType DEF TickThrows
    <3>2. Rest
      BY <2>1, <2>3, <1>0, <1>18 DEF TickThrows, TypeOK, Rest
    <3>3. QED
      BY <3>1, <3>2, <1>a
  <2>4. QED
    BY <2>2, <2>3
<1>19. QED
  BY <1>1, <1>2, <1>3, <1>4, <1>5, <1>6, <1>7, <1>8, <1>9, <1>10, <1>11, <1>12, <1>13,
     <1>14, <1>15, <1>16, <1>17, <1>18 DEF Next, TickStep, JobStep

(***************************************************************************)
(* What a step must leave alone for the parts it does not touch to keep    *)
(* their invariant                                                         *)
(***************************************************************************)
RowsKept == \A c \in RowId : row[c].state # "none" =>
              row'[c].state # "none" /\ row'[c].from = row[c].from /\ row'[c].to = row[c].to
TableKept == \A x \in TxHash : table[x] # 0 => table'[x] # 0
Frame == head <= head' /\ SafeStarts \subseteq SafeStarts' /\ TableKept /\ RowsKept

(* Safe starts stay safe when nothing recorded or abandoned is forgotten and every
   owner stays or its range is abandoned. *)
LEMMA SafeKept ==
  ASSUME TypeOK, windowStart' \in 0..MaxBlock, windowStart <= windowStart',
         RecordedBlocks \subseteq RecordedBlocks', abandoned \subseteq abandoned',
         Owners \subseteq Owners' \cup abandoned'
  PROVE  SafeStarts \subseteq SafeStarts'
<1> SUFFICES ASSUME NEW s \in SafeStarts, NEW e \in Valid,
                    windowStart' <= Block[e], Block[e] < s
             PROVE  Block[e] \in RecordedBlocks' \/ Abandoned(Block[e])' \/ Owned(Block[e], s)'
  BY DEF SafeStarts
<1>1. windowStart <= Block[e]
  BY EventAssumption, ConfigAssumption DEF TypeOK
<1>2. Block[e] \in RecordedBlocks \/ Abandoned(Block[e]) \/ Owned(Block[e], s)
  BY <1>1 DEF SafeStarts
<1>3. QED
  BY <1>2 DEF Abandoned, Owned

(* A job that does not change keeps its invariant within a frame. *)
LEMMA JobKept ==
  ASSUME TypeOK, TypeOK', Frame, NEW j \in JobId, JobInv(j), job'[j] = job[j]
  PROVE  JobInv(j)'
<1>1. CASE job[j].state = "free"
  BY <1>1 DEF JobInv
<1>2. CASE job[j].state # "free"
  <2>1. job[j] \in JobRecord /\ head \in Int /\ head' \in Int
    BY DEF TypeOK
  <2>2. RefetchOf(job[j])'
    BY <1>2, <2>1 DEF JobInv, JobRecord, Frame, RowsKept, RefetchOf
  <2>3. job'[j].to <= head'
    BY <1>2, <2>1 DEF JobInv, JobRecord, Frame
  <2>4. \A e \in Valid : table[Tx[e]] # 0 => table'[Tx[e]] # 0
    BY EventAssumption DEF Frame, TableKept
  <2>5. JobInv(j)
    OBVIOUS
  <2>6. job'[j].from \in SafeStarts'
    BY <1>2, <2>5 DEF JobInv, Frame
  <2>7. QED
    BY <1>2, <2>2, <2>3, <2>4, <2>5, <2>6 DEF JobInv
<1>3. QED
  BY <1>1, <1>2

(* A checkpoint row that does not change keeps its invariant within a frame. *)
LEMMA RowKept ==
  ASSUME TypeOK, TypeOK', Frame, NEW c \in RowId, RowInv(c), row'[c] = row[c]
  PROVE  RowInv(c)'
<1>1. row[c] \in RowRecord /\ head \in Int /\ head' \in Int
  BY DEF TypeOK
<1>2. QED
  BY <1>1 DEF RowInv, RowRecord, Frame

(* A tick that does not change keeps its invariant within a frame. *)
LEMMA TickKept ==
  ASSUME TypeOK, TypeOK', Frame, NEW t \in TickId, TickInv(t), tick'[t] = tick[t]
  PROVE  TickInv(t)'
<1>1. tick[t] \in TickRecord /\ head \in Int /\ head' \in Int
  BY DEF TypeOK
<1>2. \A c \in tick'[t].probe : row'[c].state # "none"
  BY <1>1 DEF TickInv, TickRecord, Frame, RowsKept
<1>3. ASSUME NEW r \in tick'[t].todo
      PROVE  r.from <= r.to /\ r.to <= head' /\ RefetchOf(r)'
  <2>1. r \in Tasks
    BY <1>1 DEF TickRecord
  <2>2. r.from <= r.to /\ r.to <= head /\ RefetchOf(r)
    BY DEF TickInv
  <2>3. RefetchOf(r)'
    BY <2>1, <2>2 DEF Tasks, Frame, RowsKept, RefetchOf
  <2>4. QED
    BY <1>1, <2>1, <2>2, <2>3 DEF Tasks, Frame
<1>4. QED
  BY <1>2, <1>3 DEF TickInv, Frame

(* The invariant holds after a step when it holds of each part the step changed. *)
LEMMA Assemble ==
  ASSUME IInv, TypeOK', Frame, newestBlock' <= head', TableInv',
         \A j \in JobId : job'[j] = job[j] \/ JobInv(j)',
         \A c \in RowId : row'[c] = row[c] \/ RowInv(c)',
         \A t \in TickId : tick'[t] = tick[t] \/ TickInv(t)'
  PROVE  IInv'
<1>1. \A j \in JobId : JobInv(j)'
  BY JobKept DEF IInv
<1>2. \A c \in RowId : RowInv(c)'
  BY RowKept DEF IInv
<1>3. \A t \in TickId : TickInv(t)'
  BY TickKept DEF IInv
<1>4. QED
  BY <1>1, <1>2, <1>3 DEF IInv

(* Ownership survives when each live fetch stays live, is passed on, or is abandoned. *)
LEMMA OwnersKept ==
  ASSUME row' = row,
         \A j \in LiveFetches : \/ RangeOf(job[j]) \in abandoned'
                                \/ \E k \in LiveFetches' : RangeOf(job'[k]) = RangeOf(job[j])
  PROVE  Owners \subseteq Owners' \cup abandoned'
BY DEF Owners, FailedRows

(* The frame of a step that leaves both tables and the chain alone. *)
LEMMA TablesKept ==
  ASSUME IInv, UNCHANGED <<head, table, row>>, windowStart' \in 0..MaxBlock,
         windowStart <= windowStart', abandoned \subseteq abandoned',
         Owners \subseteq Owners' \cup abandoned'
  PROVE  Frame /\ TableInv'
<1>1. TypeOK /\ TableInv /\ head \in Int
  BY DEF IInv, TypeOK
<1>2. RecordedBlocks' = RecordedBlocks
  BY DEF RecordedBlocks
<1>3. SafeStarts \subseteq SafeStarts'
  BY <1>1, <1>2, SafeKept
<1>4. QED
  BY <1>1, <1>2, <1>3 DEF Frame, RowsKept, TableKept, TableInv

(* A step that only changes a tick or a field of the process keeps the frame. *)
LEMMA TickOnlyKept ==
  ASSUME IInv, UNCHANGED <<head, table, row, job, abandoned>>,
         windowStart' \in 0..MaxBlock, windowStart <= windowStart'
  PROVE  Frame /\ TableInv'
<1>1. Owners' = Owners
  BY DEF Owners, LiveFetches, FailedRows, IsFetch
<1>2. QED
  BY <1>1, TablesKept

(* A safe start can be moved past a range whose event blocks are all accounted for. *)
LEMMA SafeExtend ==
  ASSUME NEW from \in 0..(MaxBlock + 1), NEW to \in 0..MaxBlock, from <= to,
         from \in SafeStarts',
         \A e \in Valid : from <= Block[e] /\ Block[e] <= to =>
           Block[e] \in RecordedBlocks' \/ Abandoned(Block[e])' \/ Owned(Block[e], to + 1)',
         \A r \in Owners' : r.to \in Int
  PROVE  to + 1 \in SafeStarts'
<1>1. to + 1 \in 0..(MaxBlock + 1)
  BY ConfigAssumption
<1>2. ASSUME NEW e \in Valid, windowStart' <= Block[e], Block[e] < to + 1
      PROVE  Block[e] \in RecordedBlocks' \/ Abandoned(Block[e])' \/ Owned(Block[e], to + 1)'
  <2>1. Block[e] \in Int
    BY EventAssumption
  <2>2. CASE from <= Block[e]
    BY <2>1, <2>2, <1>2
  <2>3. CASE Block[e] < from
    <3>1. Block[e] \in RecordedBlocks' \/ Abandoned(Block[e])' \/ Owned(Block[e], from)'
      BY <2>3, <1>2 DEF SafeStarts
    <3>2. Owned(Block[e], from)' => Owned(Block[e], to + 1)'
      BY DEF Owned
    <3>3. QED
      BY <3>1, <3>2
  <2>4. QED
    BY <2>1, <2>2, <2>3
<1>3. QED
  BY <1>1, <1>2 DEF SafeStarts

(* The ranges of owners end at numbers. *)
LEMMA OwnersType ==
  ASSUME TypeOK' PROVE \A r \in Owners' : r.to \in Int
<1>1. \A j \in JobId : RangeOf(job'[j]).to \in Int
  BY DEF TypeOK, JobRecord, RangeOf
<1>2. \A c \in RowId : RangeOf(row'[c]).to \in Int
  BY DEF TypeOK, RowRecord, RangeOf
<1>3. QED
  BY <1>1, <1>2 DEF Owners, LiveFetches, FailedRows

(* queue.add of a well-formed range: only a fresh job appears, and a plain fetch owns
   its range from then on. *)
LEMMA EnqueueKeeps ==
  ASSUME IInv, TypeOK', UNCHANGED <<head, table, row, abandoned, windowStart>>,
         NEW r \in Tasks, Enqueue(r),
         r.from <= r.to, r.to <= head, RefetchOf(r), r.from \in SafeStarts
  PROVE  /\ Frame /\ TableInv'
         /\ \A j \in JobId : job'[j] = job[j] \/ JobInv(j)'
         /\ r.cp = NoCheckpoint => RangeOf(r) \in Owners'
<1> DEFINE new == WaitingJob(r, 0)
<1>1. PICK k \in JobId : job[k].state = "free" /\ job' = [job EXCEPT ![k] = new]
  BY DEF Enqueue, FreeSlots
<1>2. /\ new.state = "waiting" /\ new.from = r.from /\ new.to = r.to
      /\ new.cp = r.cp /\ new.left = {} /\ new.locked = TRUE
  BY DEF WaitingJob
<1> HIDE DEF new
<1>3. TypeOK /\ job'[k] = new /\ \A j \in JobId : j # k => job'[j] = job[j]
  BY <1>1 DEF IInv, TypeOK
<1>4. \A j \in LiveFetches : \E i \in LiveFetches' : RangeOf(job'[i]) = RangeOf(job[j])
  BY <1>1, <1>3 DEF LiveFetches, IsFetch
<1>5. windowStart' \in 0..MaxBlock /\ windowStart <= windowStart'
  BY <1>3, ConfigAssumption DEF TypeOK
<1>6. Frame /\ TableInv'
  BY <1>4, <1>5, OwnersKept, TablesKept
<1>7. JobInv(k)'
  <2>1. RefetchOf(r)'
    BY DEF RefetchOf
  <2>2. r.from \in SafeStarts'
    BY <1>6 DEF Frame
  <2>3. QED
    BY <1>2, <1>3, <2>1, <2>2 DEF JobInv, RefetchOf
<1>8. ASSUME r.cp = NoCheckpoint PROVE RangeOf(r) \in Owners'
  <2>1. k \in LiveFetches'
    BY <1>2, <1>3, <1>8 DEF LiveFetches, IsFetch
  <2>2. RangeOf(job'[k]) = RangeOf(r)
    BY <1>2, <1>3 DEF RangeOf
  <2>3. QED
    BY <2>1, <2>2 DEF Owners
<1>9. QED
  BY <1>3, <1>6, <1>7, <1>8

(***************************************************************************)
(* The steps of a tick                                                     *)
(***************************************************************************)
(* A new block changes no range and no record. *)
LEMMA GrowInv == ASSUME IInv, TypeOK', Grow PROVE IInv'
<1>1. /\ UNCHANGED <<table, row, job, tick, newestBlock, abandoned, windowStart>>
      /\ head' = head + 1
  BY DEF Grow
<1>2. TypeOK /\ TableInv /\ head \in Int /\ newestBlock <= head /\ newestBlock \in Int
      /\ windowStart' \in 0..MaxBlock /\ windowStart <= windowStart'
  BY <1>1 DEF IInv, TypeOK
<1>3. Owners' = Owners /\ RecordedBlocks' = RecordedBlocks
  BY <1>1 DEF Owners, LiveFetches, FailedRows, IsFetch, RecordedBlocks
<1>4. SafeStarts \subseteq SafeStarts'
  BY <1>1, <1>2, <1>3, SafeKept
<1>5. Frame /\ TableInv' /\ newestBlock' <= head'
  BY <1>1, <1>2, <1>3, <1>4 DEF Frame, RowsKept, TableKept, TableInv
<1>6. QED
  BY <1>1, <1>5, Assemble

(* A tick starts with the failed rows and an empty plan. *)
LEMMA StartTickInv == ASSUME IInv, TypeOK', NEW t \in TickId, StartTick(t) PROVE IInv'
<1> DEFINE new == Ticking("refetching", {c \in RowId : row[c].state = "failed"}, {})
<1>1. /\ UNCHANGED <<head, table, row, job, newestBlock, abandoned, windowStart>>
      /\ tick' = [tick EXCEPT ![t] = new]
  BY DEF StartTick
<1>2. new.pc = "refetching" /\ new.todo = {} /\ \A c \in new.probe : row[c].state = "failed"
  BY DEF Ticking
<1> HIDE DEF new
<1>3. TypeOK /\ windowStart' \in 0..MaxBlock /\ windowStart <= windowStart'
      /\ newestBlock' <= head'
  BY <1>1 DEF IInv, TypeOK
<1>4. Frame /\ TableInv'
  BY <1>1, <1>3, TickOnlyKept
<1>5. tick'[t] = new /\ \A u \in TickId : u # t => tick'[u] = tick[u]
  BY <1>1, <1>3 DEF TypeOK
<1>6. TickInv(t)'
  BY <1>1, <1>2, <1>5 DEF TickInv
<1>7. QED
  BY <1>1, <1>3, <1>4, <1>5, <1>6, Assemble

(* A refetch starts at its row's first block or right after a recorded block, both
   safe starts. *)
LEMMA ProbeFailedInv == ASSUME IInv, TypeOK', NEW t \in TickId, ProbeFailed(t) PROVE IInv'
<1>1. PICK c \in tick[t].probe :
        tick' = [tick EXCEPT ![t] =
          Ticking("refetching", tick[t].probe \ {c}, tick[t].todo \cup Refetch(c))]
  BY DEF ProbeFailed
<1>2. /\ UNCHANGED <<head, table, row, job, newestBlock, abandoned, windowStart>>
      /\ tick[t].pc = "refetching"
  BY DEF ProbeFailed
<1> DEFINE new == Ticking("refetching", tick[t].probe \ {c}, tick[t].todo \cup Refetch(c))
<1>3. /\ new.pc = "refetching" /\ new.probe = tick[t].probe \ {c}
      /\ new.todo = tick[t].todo \cup Refetch(c)
  BY DEF Ticking
<1> HIDE DEF new
<1>4. TypeOK /\ windowStart' \in 0..MaxBlock /\ windowStart <= windowStart'
      /\ newestBlock' <= head' /\ TickInv(t) /\ TableInv
  BY <1>2 DEF IInv, TypeOK
<1>5. Frame /\ TableInv'
  BY <1>2, <1>4, TickOnlyKept
<1>6. tick'[t] = new /\ \A u \in TickId : u # t => tick'[u] = tick[u]
  BY <1>1, <1>4 DEF TypeOK, new
<1>7. tick[t] \in TickRecord
  BY <1>4 DEF TypeOK
<1>8. c \in RowId /\ row[c].state # "none" /\ RowInv(c)
  BY <1>4, <1>7 DEF TickInv, TickRecord, IInv
<1>9. ASSUME NEW r \in Refetch(c)
      PROVE  /\ r.from <= r.to /\ r.to <= head /\ RefetchOf(r)
             /\ r.cp # NoCheckpoint /\ r.from \in SafeStarts
  <2>1. /\ r \in Tasks /\ r.cp = c /\ r.to = row[c].to
        /\ row[c].from <= r.from /\ r.from <= r.to
        /\ r.from = row[c].from \/ \E b \in RecordedBlocks : r.from = b + 1
    BY <1>4, <1>8, RefetchTasks DEF RowInv
  <2>2. r.from \in SafeStarts
    <3>1. CASE r.from = row[c].from
      BY <3>1, <1>8 DEF RowInv
    <3>2. ASSUME NEW b \in RecordedBlocks, r.from = b + 1
          PROVE  r.from \in SafeStarts
      <4>1. b \in SafeStarts /\ b \in 0..MaxBlock
        BY <1>4, RecordedBlocksType DEF TableInv
      <4>2. b + 1 \in 0..(MaxBlock + 1)
        BY <4>1, ConfigAssumption
      <4>3. ASSUME NEW e \in Valid, windowStart <= Block[e], Block[e] < b + 1
            PROVE  Block[e] \in RecordedBlocks \/ Abandoned(Block[e]) \/ Owned(Block[e], b + 1)
        <5>1. Block[e] \in Int
          BY EventAssumption
        <5>2. CASE Block[e] = b
          BY <5>2
        <5>3. CASE Block[e] < b
          <6>1. Block[e] \in RecordedBlocks \/ Abandoned(Block[e]) \/ Owned(Block[e], b)
            BY <5>3, <4>1, <4>3 DEF SafeStarts
          <6>2. \A o \in Owners : o.to < b => o.to < b + 1
            <7>1. \A j \in JobId : RangeOf(job[j]).to \in Int
              BY <1>4 DEF TypeOK, JobRecord, RangeOf
            <7>2. \A d \in RowId : RangeOf(row[d]).to \in Int
              BY <1>4 DEF TypeOK, RowRecord, RangeOf
            <7>3. QED
              BY <7>1, <7>2, <4>1 DEF Owners, LiveFetches, FailedRows
          <6>3. QED
            BY <6>1, <6>2 DEF Owned
        <5>4. QED
          BY <5>1, <5>2, <5>3, <4>1, <4>3
      <4>4. QED
        BY <4>2, <4>3, <3>2 DEF SafeStarts
    <3>3. QED
      BY <2>1, <3>1, <3>2
  <2>3. QED
    BY <2>1, <2>2, <1>8, ConfigAssumption DEF RowInv, RefetchOf
<1>10. ASSUME NEW r \in new.todo
       PROVE  /\ r.from <= r.to /\ r.to <= head /\ RefetchOf(r)
              /\ r.cp # NoCheckpoint /\ r.from \in SafeStarts
  BY <1>2, <1>3, <1>4, <1>9 DEF TickInv
<1>11. TickInv(t)'
  BY <1>2, <1>3, <1>4, <1>5, <1>6, <1>10 DEF TickInv, RefetchOf, Frame
<1>12. QED
  BY <1>2, <1>4, <1>5, <1>6, <1>11, Assemble

(* A refetch moves from the plan to the queue. *)
LEMMA AddRefetchInv == ASSUME IInv, TypeOK', NEW t \in TickId, AddRefetch(t) PROVE IInv'
<1>1. PICK r \in tick[t].todo :
        Enqueue(r) /\ tick' = [tick EXCEPT ![t] = Ticking("refetching", {}, tick[t].todo \ {r})]
  BY DEF AddRefetch
<1>2. /\ UNCHANGED <<head, table, row, newestBlock, abandoned, windowStart>>
      /\ tick[t].pc = "refetching"
  BY DEF AddRefetch
<1> DEFINE new == Ticking("refetching", {}, tick[t].todo \ {r})
<1>3. new.pc = "refetching" /\ new.probe = {} /\ new.todo = tick[t].todo \ {r}
  BY DEF Ticking
<1> HIDE DEF new
<1>4. TypeOK /\ TickInv(t) /\ newestBlock' <= head'
  BY <1>2 DEF IInv
<1>5. r \in Tasks
  BY <1>4 DEF TypeOK, TickRecord
<1>6. /\ Frame /\ TableInv'
      /\ \A j \in JobId : job'[j] = job[j] \/ JobInv(j)'
  BY <1>1, <1>2, <1>4, <1>5, EnqueueKeeps DEF TickInv
<1>7. tick'[t] = new /\ \A u \in TickId : u # t => tick'[u] = tick[u]
  BY <1>1, <1>4 DEF TypeOK, new
<1>8. TickInv(t)'
  BY <1>2, <1>3, <1>4, <1>6, <1>7 DEF TickInv, RefetchOf, Frame
<1>9. QED
  BY <1>2, <1>4, <1>6, <1>7, <1>8, Assemble

(* The height read never exceeds the head, and the plan stays empty. *)
LEMMA ReadHeadInv == ASSUME IInv, TypeOK', NEW t \in TickId, ReadHead(t) PROVE IInv'
<1>1. /\ UNCHANGED <<head, table, row, job, abandoned, windowStart>>
      /\ tick' = [tick EXCEPT ![t] = Ticking("latest", {}, {})]
      /\ newestBlock' \in SeenHeads
  BY DEF ReadHead
<1>2. TypeOK /\ head \in Int /\ windowStart' \in 0..MaxBlock /\ windowStart <= windowStart'
  BY <1>1 DEF IInv, TypeOK
<1>3. newestBlock' <= head'
  BY <1>1, <1>2, ConfigAssumption DEF SeenHeads, Greater
<1>4. Frame /\ TableInv'
  BY <1>1, <1>2, TickOnlyKept
<1>5. tick'[t] = Ticking("latest", {}, {}) /\ \A u \in TickId : u # t => tick'[u] = tick[u]
  BY <1>1, <1>2 DEF TypeOK
<1>6. TickInv(t)'
  BY <1>5 DEF TickInv, Ticking
<1>7. QED
  BY <1>1, <1>3, <1>4, <1>5, <1>6, Assemble

(* The next window starts at a safe block: right after the highest successful
   checkpoint, or where windowStart says that coverage begins. *)
LEMMA ReadLatestInv == ASSUME IInv, TypeOK', NEW t \in TickId, ReadLatest(t) PROVE IInv'
<1>1. PICK from \in StartBlocks :
        /\ tick' = [tick EXCEPT ![t] =
             IF Plan(from) = {} THEN IdleTick ELSE Ticking("adding", {}, Plan(from))]
        /\ windowStart' = IF OkEnds = {} THEN Greater(windowStart, from) ELSE windowStart
  BY DEF ReadLatest, Plan
<1>2. UNCHANGED <<head, table, row, job, newestBlock, abandoned>>
  BY DEF ReadLatest
<1>3. TypeOK /\ newestBlock \in Int /\ head \in Int /\ newestBlock <= head
      /\ windowStart \in Int /\ windowStart' \in 0..MaxBlock
  BY DEF IInv, TypeOK
<1>4. from \in 0..(MaxBlock + 1)
  BY <1>3, StartBlocksType
<1>5. windowStart <= windowStart' /\ (OkEnds = {} => from <= windowStart')
  BY <1>1, <1>3, <1>4 DEF Greater
<1>6. Frame /\ TableInv'
  BY <1>2, <1>3, <1>5, TickOnlyKept
<1>7. from \in SafeStarts'
  <2>1. CASE OkEnds = {}
    <3>1. \A e \in Valid : ~(windowStart' <= Block[e] /\ Block[e] < from)
      BY <2>1, <1>3, <1>4, <1>5, EventAssumption
    <3>2. QED
      BY <3>1, <1>4 DEF SafeStarts
  <2>2. CASE OkEnds # {}
    <3>1. PICK c \in RowId : row[c].state = "ok" /\ from = row[c].to + 1
      BY <2>2 DEF StartBlocks, LatestEnd, OkEnds
    <3>2. from \in SafeStarts
      BY <3>1 DEF IInv, RowInv
    <3>3. QED
      BY <3>2, <1>6 DEF Frame
  <2>3. QED
    BY <2>1, <2>2
<1>8. /\ \A u \in TickId : u # t => tick'[u] = tick[u]
      /\ tick'[t] = IF Plan(from) = {} THEN IdleTick ELSE Ticking("adding", {}, Plan(from))
  BY <1>1, <1>3 DEF TypeOK
<1>9. TickInv(t)'
  <2>1. CASE Plan(from) = {}
    <3>1. tick'[t].pc = "idle" /\ tick'[t].probe = {} /\ tick'[t].todo = {}
      BY <2>1, <1>8 DEF IdleTick, Ticking
    <3>2. QED
      BY <3>1 DEF TickInv
  <2>2. CASE Plan(from) # {}
    <3>1. tick'[t].pc = "adding" /\ tick'[t].probe = {} /\ tick'[t].todo = Plan(from)
      BY <2>2, <1>8 DEF Ticking
    <3>2. ASSUME NEW r \in Plan(from)
          PROVE  /\ r.from <= r.to /\ r.to <= head'
                 /\ r.cp = NoCheckpoint
                 /\ r.from \in SafeStarts' \/ \E q \in Plan(from) : q.to + 1 = r.from
      <4>1. /\ r \in Tasks /\ r.cp = NoCheckpoint
            /\ from <= r.from /\ r.from <= r.to /\ r.to <= newestBlock
            /\ r.from = from \/ \E q \in Plan(from) : q.to + 1 = r.from
        BY <1>3, <1>4, PlanTasks
      <4>2. QED
        BY <4>1, <1>2, <1>3, <1>7 DEF Tasks
    <3>3. QED
      BY <3>1, <3>2 DEF TickInv, RefetchOf
  <2>3. QED
    BY <2>1, <2>2
<1>10. newestBlock' <= head'
  BY <1>2, <1>3
<1>11. QED
  BY <1>2, <1>6, <1>8, <1>9, <1>10, Assemble

(* The lowest range of a plan starts where nothing is forgotten: no other comes before it. *)
LEMMA LowestSafe ==
  ASSUME IInv, NEW t \in TickId, tick[t].pc = "adding",
         NEW r \in tick[t].todo, Lowest(r, tick[t].todo)
  PROVE  r.from \in SafeStarts
<1>1. TickInv(t) /\ tick[t].todo \subseteq Tasks
  BY DEF IInv, TypeOK, TickRecord
<1>2. ASSUME NEW q \in tick[t].todo, q.to + 1 = r.from PROVE FALSE
  <2>1. r.from <= q.from /\ q.from <= q.to
    BY <1>1 DEF Lowest, TickInv
  <2>2. QED
    BY <1>1, <1>2, <2>1 DEF Tasks
<1>3. QED
  BY <1>1, <1>2 DEF TickInv

(* Adding a range of the plan makes it owned, so the range after it may start safely.
   The plan is added upwards: the range added itself starts at a safe block. *)
LEMMA AddFetchInv == ASSUME IInv, TypeOK', NEW t \in TickId, AddFetch(t) PROVE IInv'
<1>1. PICK r \in tick[t].todo :
        /\ Lowest(r, tick[t].todo)
        /\ Enqueue(r)
        /\ tick' = [tick EXCEPT ![t] =
             IF tick[t].todo = {r} THEN IdleTick ELSE Ticking("adding", {}, tick[t].todo \ {r})]
  BY DEF AddFetch
<1>2. /\ UNCHANGED <<head, table, row, newestBlock, abandoned, windowStart>>
      /\ tick[t].pc = "adding"
  BY DEF AddFetch
<1>3. TypeOK /\ TickInv(t) /\ newestBlock' <= head'
  BY <1>2 DEF IInv
<1>4. tick[t].todo \subseteq Tasks
  BY <1>3 DEF TypeOK, TickRecord
<1>5. r \in Tasks /\ r.cp = NoCheckpoint /\ r.from <= r.to /\ r.to <= head /\ RefetchOf(r)
  BY <1>2, <1>3, <1>4 DEF TickInv
<1>6. r.from \in SafeStarts
  BY <1>1, <1>2, LowestSafe
<1>7. /\ Frame /\ TableInv'
      /\ \A j \in JobId : job'[j] = job[j] \/ JobInv(j)'
      /\ RangeOf(r) \in Owners'
  BY <1>1, <1>2, <1>5, <1>6, EnqueueKeeps
<1>8. r.to + 1 \in SafeStarts'
  <2>1. r.from \in SafeStarts' /\ r.from \in 0..(MaxBlock + 1) /\ r.to \in 0..MaxBlock
    BY <1>5, <1>6, <1>7 DEF Frame, Tasks
  <2>2. \A e \in Valid : r.from <= Block[e] /\ Block[e] <= r.to => Owned(Block[e], r.to + 1)'
    BY <2>1, <1>7 DEF Owned, InRange, RangeOf
  <2>3. QED
    BY <2>1, <2>2, <1>5, SafeExtend, OwnersType
<1>9. /\ \A u \in TickId : u # t => tick'[u] = tick[u]
      /\ tick'[t] = IF tick[t].todo = {r} THEN IdleTick
                    ELSE Ticking("adding", {}, tick[t].todo \ {r})
  BY <1>1, <1>3 DEF TypeOK
<1>10. TickInv(t)'
  <2>1. CASE tick[t].todo = {r}
    <3>1. tick'[t].pc = "idle" /\ tick'[t].probe = {} /\ tick'[t].todo = {}
      BY <2>1, <1>9 DEF IdleTick, Ticking
    <3>2. QED
      BY <3>1 DEF TickInv
  <2>2. CASE tick[t].todo # {r}
    <3>1. /\ tick'[t].pc = "adding" /\ tick'[t].probe = {}
          /\ tick'[t].todo = tick[t].todo \ {r}
      BY <2>2, <1>9 DEF Ticking
    <3>2. ASSUME NEW q \in tick[t].todo \ {r}
          PROVE  /\ q.from <= q.to /\ q.to <= head' /\ q.cp = NoCheckpoint
                 /\ \/ q.from \in SafeStarts'
                    \/ \E p \in tick[t].todo \ {r} : p.to + 1 = q.from
      <4>1. /\ q.from <= q.to /\ q.to <= head /\ q.cp = NoCheckpoint
            /\ q.from \in SafeStarts \/ \E p \in tick[t].todo : p.to + 1 = q.from
        BY <1>2, <1>3 DEF TickInv
      <4>2. CASE q.from = r.to + 1
        BY <4>1, <4>2, <1>2, <1>8
      <4>3. CASE q.from # r.to + 1
        BY <4>1, <4>3, <1>2, <1>7 DEF Frame
      <4>4. QED
        BY <4>2, <4>3
    <3>3. QED
      BY <3>1, <3>2 DEF TickInv, RefetchOf
  <2>3. QED
    BY <2>1, <2>2
<1>11. QED
  BY <1>2, <1>3, <1>7, <1>9, <1>10, Assemble

(***************************************************************************)
(* The steps of a job                                                      *)
(***************************************************************************)
(* A step that only moves job j to another state, keeping its range and its lock. *)
LEMMA MoveKeeps ==
  ASSUME IInv, TypeOK', UNCHANGED <<head, table, row, tick, newestBlock, abandoned, windowStart>>,
         NEW j \in JobId, job[j].state # "free",
         NEW state \in {"writing", "failing"}, NEW left \in SUBSET Event,
         job' = [job EXCEPT ![j] = Moved(j, state, left)],
         \A e \in left : InRange(Block[e], job[j]),
         state = "writing" => \A e \in Valid : InRange(Block[e], job[j]) => e \in left
  PROVE  IInv'
<1> DEFINE new == Moved(j, state, left)
<1>1. TypeOK /\ JobInv(j) /\ newestBlock' <= head'
      /\ windowStart' \in 0..MaxBlock /\ windowStart <= windowStart'
  BY DEF IInv, TypeOK
<1>2. /\ new.state = state /\ new.left = left
      /\ new.from = job[j].from /\ new.to = job[j].to
      /\ new.cp = job[j].cp /\ new.locked = job[j].locked
  BY <1>1, MovedType
<1>3. job'[j] = new /\ \A k \in JobId : k # j => job'[k] = job[k]
  BY <1>1 DEF TypeOK
<1> HIDE DEF new
<1>4. \A k \in LiveFetches : k \in LiveFetches' /\ RangeOf(job'[k]) = RangeOf(job[k])
  BY <1>2, <1>3 DEF LiveFetches, IsFetch, RangeOf
<1>5. Frame /\ TableInv'
  BY <1>1, <1>4, OwnersKept, TablesKept
<1>6. JobInv(j)'
  <2>1. job[j].from \in SafeStarts /\ RefetchOf(job[j])
        /\ job[j].from <= job[j].to /\ job[j].to <= head
    BY <1>1 DEF JobInv
  <2>2. new.from \in SafeStarts'
    BY <1>2, <1>5, <2>1 DEF Frame
  <2>3. QED
    BY <1>2, <1>3, <2>1, <2>2 DEF JobInv, RefetchOf, InRange
<1>7. QED
  BY <1>1, <1>3, <1>5, <1>6, Assemble

(* The batches of a job return exactly the events of its range. *)
LEMMA FetchLogsInv == ASSUME IInv, TypeOK', NEW j \in JobId, FetchLogs(j) PROVE IInv'
<1>1. /\ UNCHANGED <<head, table, row, tick, newestBlock, abandoned, windowStart>>
      /\ job' = [job EXCEPT ![j] = Moved(j, "writing", Fetched(job[j]))]
      /\ job[j].state # "free"
  BY DEF FetchLogs, Admitted
<1>2. job[j].from \in Int /\ job[j].to \in Int
  BY DEF IInv, TypeOK, JobRecord
<1>3. Fetched(job[j]) \in SUBSET Event
  BY DEF Fetched
<1>4. \A e \in Event : e \in Fetched(job[j]) <=> InRange(Block[e], job[j])
  <2> SUFFICES ASSUME NEW e \in Event PROVE e \in Fetched(job[j]) <=> InRange(Block[e], job[j])
    OBVIOUS
  <2>1. Block[e] \in Int /\ MaxQueryBlockRange \in Nat \ {0}
    BY EventAssumption, ConfigAssumption
  <2>2. (\E q \in CreateBatches(job[j].from, job[j].to, MaxQueryBlockRange) : InRange(Block[e], q))
          <=> job[j].from <= Block[e] /\ Block[e] <= job[j].to
    BY <2>1, <1>2, BatchesCover
  <2>3. QED
    BY <2>2 DEF Fetched, InRange
<1>5. QED
  BY <1>1, <1>3, <1>4, EventAssumption, MoveKeeps

(* The block of the next event to write is a safe start: every event block of the job's
   range before it has been written. *)
LEMMA WriteEventInv == ASSUME IInv, TypeOK', NEW j \in JobId, WriteEvent(j) PROVE IInv'
<1>1. PICK e \in job[j].left :
        /\ NextLog(e, job[j].left)
        /\ job' = [job EXCEPT ![j] = Moved(j, "writing", job[j].left \ {e})]
        /\ table' = Upsert(e)
  BY DEF WriteEvent
<1>2. /\ UNCHANGED <<head, row, tick, newestBlock, abandoned, windowStart>>
      /\ job[j].state = "writing"
  BY DEF WriteEvent
<1> DEFINE new == Moved(j, "writing", job[j].left \ {e})
<1>3. TypeOK /\ JobInv(j) /\ TableInv /\ newestBlock' <= head'
      /\ windowStart' \in 0..MaxBlock /\ windowStart <= windowStart'
      /\ job[j] \in JobRecord /\ head \in Int
  BY <1>2 DEF IInv, TypeOK
<1>4. e \in Event /\ job[j].left \ {e} \in SUBSET Event /\ InRange(Block[e], job[j])
      /\ Block[e] \in 0..MaxBlock /\ Tx[e] \in TxHash
  BY <1>1, <1>2, <1>3, EventAssumption DEF JobRecord, JobInv
<1>5. /\ new.state = "writing" /\ new.left = job[j].left \ {e}
      /\ new.from = job[j].from /\ new.to = job[j].to
      /\ new.cp = job[j].cp /\ new.locked = job[j].locked
  BY <1>3, <1>4, MovedType
<1>6. job'[j] = new /\ \A k \in JobId : k # j => job'[k] = job[k]
  BY <1>1, <1>3 DEF TypeOK
<1> HIDE DEF new
<1>7. /\ e \in Valid => table' = [table EXCEPT ![Tx[e]] = e]
      /\ e \notin Valid => table' = table
  BY <1>1 DEF Upsert
<1>8. e # 0 /\ TableKept /\ table \in [TxHash -> Event \cup {0}]
  BY <1>3, <1>4, <1>7 DEF TableKept, TypeOK, Event
<1>9. /\ \A x \in TxHash : table'[x] # 0 => table'[x] \in Valid /\ Tx[table'[x]] = x
      /\ RecordedBlocks \subseteq RecordedBlocks'
      /\ RecordedBlocks' \subseteq RecordedBlocks \cup (IF e \in Valid THEN {Block[e]} ELSE {})
  <2>1. CASE e \notin Valid
    BY <2>1, <1>3, <1>7 DEF TableInv, RecordedBlocks
  <2>2. CASE e \in Valid
    <3>1. /\ table'[Tx[e]] = e
          /\ \A x \in TxHash : x # Tx[e] => table'[x] = table[x]
      BY <2>2, <1>4, <1>7, <1>8
    <3>2. \A x \in TxHash : table'[x] # 0 => table'[x] \in Valid /\ Tx[table'[x]] = x
      BY <2>2, <3>1, <1>3 DEF TableInv
    <3>3. table[Tx[e]] # 0 => Block[table[Tx[e]]] = Block[e]
      BY <1>3, <1>4, EventAssumption DEF TableInv
    <3>4. RecordedBlocks \subseteq RecordedBlocks'
      BY <3>1, <3>3, <1>4, <1>8 DEF RecordedBlocks
    <3>5. RecordedBlocks' \subseteq RecordedBlocks \cup {Block[e]}
      BY <3>1, <1>4 DEF RecordedBlocks
    <3>6. QED
      BY <2>2, <3>2, <3>4, <3>5
  <2>3. QED
    BY <2>1, <2>2
<1>10. Owners \subseteq Owners' \cup abandoned'
  <2>1. \A k \in LiveFetches : k \in LiveFetches' /\ RangeOf(job'[k]) = RangeOf(job[k])
    BY <1>2, <1>5, <1>6 DEF LiveFetches, IsFetch, RangeOf
  <2>2. QED
    BY <2>1, <1>2, OwnersKept
<1>11. SafeStarts \subseteq SafeStarts'
  BY <1>2, <1>3, <1>9, <1>10, SafeKept
<1>12. Frame
  BY <1>2, <1>3, <1>8, <1>11 DEF Frame, RowsKept
<1>13. \A d \in Valid : InRange(Block[d], job[j]) => d \in job[j].left \/ table[Tx[d]] # 0
  BY <1>2, <1>3 DEF JobInv
<1>14. ASSUME e \in Valid PROVE Block[e] \in SafeStarts'
  <2>1. job[j].from \in SafeStarts' /\ job[j].from \in 0..(MaxBlock + 1)
        /\ job[j].from <= Block[e] /\ Block[e] <= job[j].to
    BY <1>2, <1>3, <1>4, <1>11 DEF JobInv, JobRecord, InRange
  <2>2. CASE job[j].from = Block[e]
    BY <2>1, <2>2
  <2>3. CASE job[j].from < Block[e]
    <3>1. Block[e] - 1 \in 0..MaxBlock /\ job[j].from <= Block[e] - 1
      BY <2>1, <2>3, <1>4, ConfigAssumption
    <3>2. ASSUME NEW d \in Valid, job[j].from <= Block[d], Block[d] <= Block[e] - 1
          PROVE  Block[d] \in RecordedBlocks'
      <4>1. d \in Event /\ Block[d] \in 0..MaxBlock /\ Tx[d] \in TxHash
        BY EventAssumption
      <4>2. InRange(Block[d], job[j])
        BY <3>2, <4>1, <2>1, <1>3, <1>4 DEF InRange, JobRecord
      <4>3. d \notin job[j].left
        <5>1. SUFFICES ASSUME d \in job[j].left PROVE FALSE
          OBVIOUS
        <5>2. Block[e] <= Block[d]
          BY <5>1, <4>1, <1>1, <1>4, EventAssumption DEF NextLog
        <5>3. QED
          BY <5>2, <4>1, <1>4, <3>2
      <4>4. table[Tx[d]] # 0
        BY <4>2, <4>3, <1>13
      <4>5. table[Tx[d]] \in Event /\ Tx[table[Tx[d]]] = Tx[d]
        BY <4>1, <4>4, <1>3, EventAssumption DEF TableInv
      <4>6. Block[table[Tx[d]]] = Block[d]
        BY <4>1, <4>5, EventAssumption
      <4>7. Block[d] \in RecordedBlocks
        BY <4>1, <4>4, <4>6 DEF RecordedBlocks
      <4>8. QED
        BY <4>7, <1>9
    <3>3. Block[e] - 1 + 1 \in SafeStarts'
      BY <3>1, <3>2, <2>1, SafeExtend, OwnersType
    <3>4. QED
      BY <3>3, <1>4
  <2>4. QED
    BY <2>1, <2>2, <2>3, <1>4
<1>15. TableInv'
  BY <1>3, <1>9, <1>11, <1>14 DEF TableInv
<1>16. JobInv(j)'
  <2>1. /\ job[j].from \in SafeStarts /\ RefetchOf(job[j])
        /\ job[j].from <= job[j].to /\ job[j].to <= head
        /\ \A d \in job[j].left : InRange(Block[d], job[j])
    BY <1>2, <1>3 DEF JobInv
  <2>2. new.from \in SafeStarts'
    BY <1>5, <1>11, <2>1
  <2>3. ASSUME NEW d \in Valid, InRange(Block[d], job[j])
        PROVE  d \in new.left \/ table'[Tx[d]] # 0
    <3>1. Tx[d] \in TxHash
      BY EventAssumption
    <3>2. CASE d = e
      BY <3>2, <1>4, <1>7, <1>8
    <3>3. CASE d # e
      BY <3>1, <3>3, <2>3, <1>5, <1>8, <1>13 DEF TableKept
    <3>4. QED
      BY <3>2, <3>3
  <2>4. QED
    BY <1>2, <1>5, <1>6, <2>1, <2>2, <2>3 DEF JobInv, RefetchOf, InRange
<1>17. QED
  BY <1>2, <1>3, <1>6, <1>12, <1>15, <1>16, Assemble

(* When logEvents has returned, the job's range is recorded. *)
LEMMA LoggedRecorded ==
  ASSUME IInv, NEW j \in JobId, Logged(j), NEW e \in Valid, InRange(Block[e], job[j])
  PROVE  table[Tx[e]] # 0 /\ Block[e] \in RecordedBlocks
<1>1. TypeOK /\ JobInv(j) /\ TableInv /\ e \in Event /\ Tx[e] \in TxHash
  BY EventAssumption DEF IInv
<1>2. table[Tx[e]] # 0
  BY <1>1 DEF Logged, JobInv
<1>3. table[Tx[e]] \in Event /\ Tx[table[Tx[e]]] = Tx[e]
  BY <1>1, <1>2, EventAssumption DEF TableInv
<1>4. Block[table[Tx[e]]] = Block[e]
  BY <1>1, <1>3, EventAssumption
<1>5. QED
  BY <1>1, <1>2, <1>4 DEF RecordedBlocks

(* A job that leaves a row of its own range behind: the row takes over what the job
   owned, and a successful row is inserted only once the range is recorded. *)
LEMMA InsertRowInv ==
  ASSUME IInv, TypeOK', NEW j \in JobId, NEW s \in {"ok", "failed"}, InsertRow(j, s),
         UNCHANGED <<head, table, tick, newestBlock, abandoned, windowStart>>,
         job' = [job EXCEPT ![j] = FreeJob], job[j].state # "free",
         s = "ok" => Logged(j)
  PROVE  IInv'
<1> DEFINE new == [state |-> s, from |-> job[j].from, to |-> job[j].to]
<1>1. PICK c \in RowId : row[c].state = "none" /\ row' = [row EXCEPT ![c] = new]
  BY DEF InsertRow, NewRows
<1>2. new.state = s /\ new.from = job[j].from /\ new.to = job[j].to
  OBVIOUS
<1> HIDE DEF new
<1>3. TypeOK /\ JobInv(j) /\ TableInv /\ newestBlock' <= head' /\ job[j] \in JobRecord
      /\ windowStart' \in 0..MaxBlock /\ windowStart <= windowStart' /\ head \in Int
  BY DEF IInv, TypeOK
<1>4. row'[c] = new /\ \A d \in RowId : d # c => row'[d] = row[d]
  BY <1>1, <1>3 DEF TypeOK
<1>5. job'[j] = FreeJob /\ \A k \in JobId : k # j => job'[k] = job[k]
  BY <1>3 DEF TypeOK
<1>6. RecordedBlocks' = RecordedBlocks
  BY DEF RecordedBlocks
<1>7. SafeStarts \subseteq SafeStarts'
  <2>1. CASE s = "failed"
    <3>1. ASSUME NEW k \in LiveFetches PROVE RangeOf(job[k]) \in Owners'
      <4>1. CASE k = j
        <5>1. c \in FailedRows' /\ RangeOf(row'[c]) = RangeOf(job[j])
          BY <2>1, <1>2, <1>4 DEF FailedRows, RangeOf
        <5>2. QED
          BY <5>1, <4>1 DEF Owners
      <4>2. CASE k # j
        <5>1. k \in LiveFetches' /\ job'[k] = job[k]
          BY <4>2, <1>5 DEF LiveFetches, IsFetch
        <5>2. QED
          BY <5>1 DEF Owners
      <4>3. QED
        BY <4>1, <4>2
    <3>2. ASSUME NEW d \in FailedRows PROVE RangeOf(row[d]) \in Owners'
      <4>1. d \in FailedRows' /\ row'[d] = row[d]
        BY <1>1, <1>4 DEF FailedRows
      <4>2. QED
        BY <4>1 DEF Owners
    <3>3. Owners \subseteq Owners'
      BY <3>1, <3>2 DEF Owners
    <3>4. QED
      BY <3>3, <1>3, <1>6, SafeKept
  <2>2. CASE s = "ok"
    <3>1. ASSUME NEW k \in LiveFetches, k # j PROVE RangeOf(job[k]) \in Owners'
      <4>1. k \in LiveFetches' /\ job'[k] = job[k]
        BY <3>1, <1>5 DEF LiveFetches, IsFetch
      <4>2. QED
        BY <4>1 DEF Owners
    <3>2. ASSUME NEW d \in FailedRows PROVE RangeOf(row[d]) \in Owners'
      <4>1. d \in FailedRows' /\ row'[d] = row[d]
        BY <1>1, <1>4 DEF FailedRows
      <4>2. QED
        BY <4>1 DEF Owners
    <3>3. Owners \subseteq Owners' \cup {RangeOf(job[j])}
      BY <3>1, <3>2 DEF Owners
    <3>4. ASSUME NEW t \in SafeStarts, NEW e \in Valid, windowStart <= Block[e], Block[e] < t
          PROVE  Block[e] \in RecordedBlocks' \/ Abandoned(Block[e])' \/ Owned(Block[e], t)'
      <4>1. Block[e] \in RecordedBlocks \/ Abandoned(Block[e]) \/ Owned(Block[e], t)
        BY <3>4 DEF SafeStarts
      <4>2. CASE InRange(Block[e], job[j])
        BY <4>2, <2>2, <1>6, LoggedRecorded
      <4>3. CASE ~InRange(Block[e], job[j])
        <5>1. ~InRange(Block[e], RangeOf(job[j]))
          BY <4>3 DEF InRange, RangeOf
        <5>2. Owned(Block[e], t) => Owned(Block[e], t)'
          BY <5>1, <3>3 DEF Owned
        <5>3. QED
          BY <4>1, <5>2, <1>6 DEF Abandoned
      <4>4. QED
        BY <4>2, <4>3
    <3>5. QED
      BY <3>4 DEF SafeStarts
  <2>3. QED
    BY <2>1, <2>2
<1>8. Frame /\ TableInv'
  BY <1>1, <1>3, <1>4, <1>6, <1>7 DEF Frame, RowsKept, TableKept, TableInv
<1>9. JobInv(j)'
  BY <1>5 DEF JobInv, FreeJob
<1>10. RowInv(c)'
  <2>1. /\ job[j].from \in SafeStarts' /\ job[j].from <= job[j].to /\ job[j].to <= head
        /\ job[j].from \in 0..(MaxBlock + 1) /\ job[j].to \in 0..MaxBlock
    BY <1>3, <1>7 DEF JobInv, JobRecord
  <2>2. ASSUME s = "ok" PROVE job[j].to + 1 \in SafeStarts'
    <3>1. \A e \in Valid : job[j].from <= Block[e] /\ Block[e] <= job[j].to =>
             Block[e] \in RecordedBlocks'
      BY <2>2, <1>6, LoggedRecorded DEF InRange
    <3>2. QED
      BY <2>1, <3>1, SafeExtend, OwnersType
  <2>3. QED
    BY <1>2, <1>4, <2>1, <2>2 DEF RowInv
<1>11. QED
  BY <1>3, <1>4, <1>5, <1>8, <1>9, <1>10, Assemble

(* A successful job leaves a successful row for its range. *)
LEMMA SaveCheckpointInv == ASSUME IInv, TypeOK', NEW j \in JobId, SaveCheckpoint(j) PROVE IInv'
BY InsertRowInv DEF SaveCheckpoint, Logged

(* A job that failed leaves a failed row, which owns the range from then on. *)
LEMMA SaveFailedCheckpointInv ==
  ASSUME IInv, TypeOK', NEW j \in JobId, SaveFailedCheckpoint(j) PROVE IInv'
BY InsertRowInv DEF SaveFailedCheckpoint

(* Clearing a failed row removes an owner.  The refetch covered the end of the row's
   range itself, and what lies before its first block is safe without that row, because
   the row ends too late to own anything below that block. *)
LEMMA ClearFailedInv == ASSUME IInv, TypeOK', NEW j \in JobId, ClearFailed(j) PROVE IInv'
<1>1. /\ UNCHANGED <<head, table, tick, newestBlock, abandoned, windowStart>>
      /\ Logged(j) /\ ~IsFetch(j)
      /\ row' = [row EXCEPT ![job[j].cp] = [@ EXCEPT !.state = "ok"]]
      /\ job' = [job EXCEPT ![j] = FreeJob]
  BY DEF ClearFailed
<1>2. TypeOK /\ JobInv(j) /\ TableInv /\ newestBlock' <= head' /\ job[j] \in JobRecord
      /\ job[j].state = "writing"
  BY <1>1 DEF IInv, TypeOK, Logged
<1>3. PICK c \in RowId : c = job[j].cp /\ row[c] \in RowRecord
  BY <1>1, <1>2 DEF IsFetch, JobRecord, TypeOK
<1>4. /\ row[c].state # "none" /\ row[c].to = job[j].to /\ row[c].from <= job[j].from
      /\ job[j].from <= job[j].to /\ job[j].to <= head /\ job[j].from \in SafeStarts
  BY <1>1, <1>2, <1>3 DEF JobInv, RefetchOf, IsFetch
<1>5. /\ row'[c] = [row[c] EXCEPT !.state = "ok"]
      /\ \A d \in RowId : d # c => row'[d] = row[d]
  BY <1>1, <1>2, <1>3 DEF TypeOK
<1>6. row'[c].state = "ok" /\ row'[c].from = row[c].from /\ row'[c].to = row[c].to
  BY <1>3, <1>5 DEF RowRecord
<1>7. job'[j] = FreeJob /\ \A k \in JobId : k # j => job'[k] = job[k]
  BY <1>1, <1>2 DEF TypeOK
<1>8. RecordedBlocks' = RecordedBlocks
  BY <1>1 DEF RecordedBlocks
<1>9. Owners \subseteq Owners' \cup {RangeOf(row[c])}
  <2>1. ASSUME NEW k \in LiveFetches PROVE RangeOf(job[k]) \in Owners'
    <3>1. k \in LiveFetches' /\ job'[k] = job[k]
      BY <1>1, <1>7 DEF LiveFetches, IsFetch
    <3>2. QED
      BY <3>1 DEF Owners
  <2>2. ASSUME NEW d \in FailedRows, d # c PROVE RangeOf(row[d]) \in Owners'
    <3>1. d \in FailedRows' /\ row'[d] = row[d]
      BY <2>2, <1>5 DEF FailedRows
    <3>2. QED
      BY <3>1 DEF Owners
  <2>3. QED
    BY <2>1, <2>2 DEF Owners
<1>10. RangeOf(row[c]).to = job[j].to
  BY <1>4 DEF RangeOf
<1>11. ASSUME NEW s \in SafeStarts, NEW e \in Valid, windowStart <= Block[e], Block[e] < s
       PROVE  Block[e] \in RecordedBlocks' \/ Abandoned(Block[e])' \/ Owned(Block[e], s)'
  <2>1. Block[e] \in RecordedBlocks \/ Abandoned(Block[e]) \/ Owned(Block[e], s)
    BY <1>11 DEF SafeStarts
  <2>2. Abandoned(Block[e]) => Abandoned(Block[e])'
    BY <1>1 DEF Abandoned
  <2>3. CASE InRange(Block[e], job[j])
    BY <2>3, <1>1, <1>8, LoggedRecorded
  <2>4. CASE Owned(Block[e], s) /\ ~InRange(Block[e], job[j])
    <3>1. PICK r \in Owners : InRange(Block[e], r) /\ r.to < s
      BY <2>4 DEF Owned
    <3>2. CASE r # RangeOf(row[c])
      BY <3>1, <3>2, <1>9 DEF Owned
    <3>3. CASE r = RangeOf(row[c])
      <4>1. /\ Block[e] \in Int /\ s \in Int /\ job[j].to < s /\ Block[e] <= job[j].to
            /\ job[j].from \in Int /\ job[j].to \in Int
        BY <3>1, <3>3, <1>2, <1>10, EventAssumption DEF InRange, SafeStarts, JobRecord
      <4>2. Block[e] < job[j].from
        BY <2>4, <4>1 DEF InRange
      <4>3. Block[e] \in RecordedBlocks \/ Abandoned(Block[e]) \/ Owned(Block[e], job[j].from)
        BY <4>2, <1>4, <1>11 DEF SafeStarts
      <4>4. ASSUME NEW q \in Owners, InRange(Block[e], q), q.to < job[j].from
            PROVE  q \in Owners' /\ q.to < s
        <5>1. q.to \in Int
          BY <1>2 DEF Owners, TypeOK, JobRecord, RowRecord, RangeOf, LiveFetches, FailedRows
        <5>2. q.to < job[j].to /\ q.to < s
          BY <5>1, <4>1, <4>4, <1>4
        <5>3. q # RangeOf(row[c])
          BY <5>1, <5>2, <4>1, <1>10
        <5>4. QED
          BY <5>2, <5>3, <1>9
      <4>5. Owned(Block[e], job[j].from) => Owned(Block[e], s)'
        BY <4>4 DEF Owned
      <4>6. QED
        BY <4>3, <4>5, <2>2, <1>8
    <3>4. QED
      BY <3>2, <3>3
  <2>5. QED
    BY <2>1, <2>2, <2>3, <2>4, <1>8
<1>12. SafeStarts \subseteq SafeStarts'
  BY <1>1, <1>11 DEF SafeStarts
<1>13. Frame /\ TableInv'
  <2>1. RowsKept
    BY <1>5, <1>6 DEF RowsKept
  <2>2. TableKept /\ head <= head'
    BY <1>1, <1>2 DEF TableKept, TypeOK
  <2>3. TableInv'
    BY <1>1, <1>2, <1>8, <1>12 DEF TableInv
  <2>4. QED
    BY <2>1, <2>2, <2>3, <1>12 DEF Frame
<1>14. JobInv(j)'
  BY <1>7 DEF JobInv, FreeJob
<1>15. RowInv(c)'
  <2>1. RowInv(c)
    BY <1>3 DEF IInv
  <2>2. job[j].from \in SafeStarts' /\ row[c].from \in SafeStarts'
        /\ row[c].from <= row[c].to
    BY <1>4, <1>12, <2>1 DEF RowInv
  <2>3. \A e \in Valid : job[j].from <= Block[e] /\ Block[e] <= job[j].to =>
           Block[e] \in RecordedBlocks'
    BY <1>1, <1>8, LoggedRecorded DEF InRange
  <2>4. job[j].to + 1 \in SafeStarts'
    BY <1>2, <1>4, <2>2, <2>3, SafeExtend, OwnersType DEF JobRecord
  <2>5. QED
    BY <1>1, <1>4, <1>6, <2>2, <2>4 DEF RowInv
<1>16. QED
  BY <1>1, <1>2, <1>5, <1>7, <1>13, <1>14, <1>15, Assemble

(***************************************************************************)
(* Faults                                                                  *)
(***************************************************************************)
(* A queue entry that disappears, its range abandoned if it answered for one. *)
LEMMA JobGone ==
  ASSUME IInv, TypeOK', UNCHANGED <<head, table, row, tick, newestBlock, windowStart>>,
         NEW j \in JobId, job' = [job EXCEPT ![j] = FreeJob],
         abandoned \subseteq abandoned', j \in LiveFetches => RangeOf(job[j]) \in abandoned'
  PROVE  IInv'
<1>1. TypeOK /\ windowStart' \in 0..MaxBlock /\ windowStart <= windowStart'
      /\ newestBlock' <= head'
  BY DEF IInv, TypeOK
<1>2. job'[j] = FreeJob /\ \A k \in JobId : k # j => job'[k] = job[k]
  BY <1>1 DEF TypeOK
<1>3. \A k \in LiveFetches : \/ RangeOf(job[k]) \in abandoned'
                             \/ \E i \in LiveFetches' : RangeOf(job'[i]) = RangeOf(job[k])
  BY <1>2 DEF LiveFetches, IsFetch
<1>4. Frame /\ TableInv'
  BY <1>1, <1>3, OwnersKept, TablesKept
<1>5. JobInv(j)'
  BY <1>2 DEF JobInv, FreeJob
<1>6. QED
  BY <1>1, <1>2, <1>4, <1>5, Assemble

(* A failing fetch keeps its range until its catch clause; a failing refetch still has
   its failed row. *)
LEMMA JobThrowsInv == ASSUME IInv, TypeOK', NEW j \in JobId, JobThrows(j) PROVE IInv'
<1>1. /\ UNCHANGED <<head, table, row, tick, newestBlock, abandoned, windowStart>>
      /\ job' = [job EXCEPT ![j] = Caught(j)]
      /\ job[j].state # "free"
  BY DEF JobThrows, Admitted
<1>2. CASE IsFetch(j)
  <2>1. job' = [job EXCEPT ![j] = Moved(j, "failing", {})]
    BY <1>1, <1>2 DEF Caught
  <2>2. /\ "failing" \in {"writing", "failing"} /\ "failing" # "writing"
        /\ {} \in SUBSET Event /\ \A e \in {} : InRange(Block[e], job[j])
    OBVIOUS
  <2>3. QED
    BY <2>1, <2>2, <1>1, MoveKeeps, Zenon
<1>3. CASE ~IsFetch(j)
  <2>1. job' = [job EXCEPT ![j] = FreeJob] /\ j \notin LiveFetches
    BY <1>1, <1>3 DEF Caught, LiveFetches
  <2>2. QED
    BY <2>1, <1>1, JobGone
<1>4. QED
  BY <1>2, <1>3

(* A failing catch clause abandons the range. *)
LEMMA SaveFailedThrowsInv ==
  ASSUME IInv, TypeOK', NEW j \in JobId, SaveFailedThrows(j) PROVE IInv'
<1>1. j \in LiveFetches => RangeOf(job[j]) \in Orphans({j})
  BY DEF LiveFetches, Orphans
<1>2. QED
  BY <1>1, JobGone DEF SaveFailedThrows

(* A job of the next state that continues job i of this one, or starts it over. *)
LEMMA JobContinued ==
  ASSUME IInv, Frame, UNCHANGED <<head, table, row>>, NEW i \in JobId, NEW k \in JobId,
         job[i].state # "free",
         job'[k].from = job[i].from, job'[k].to = job[i].to, job'[k].cp = job[i].cp,
         \/ job'[k].left = job[i].left /\ job'[k].state = job[i].state
         \/ job'[k].left = {} /\ job'[k].state # "writing"
  PROVE  JobInv(k)'
<1>1. JobInv(i)
  BY DEF IInv
<1>2. /\ job[i].from <= job[i].to /\ job[i].to <= head
      /\ job[i].from \in SafeStarts /\ RefetchOf(job[i])
      /\ \A e \in job[i].left : InRange(Block[e], job[i])
      /\ job[i].state = "writing" =>
           \A e \in Valid : InRange(Block[e], job[i]) => e \in job[i].left \/ table[Tx[e]] # 0
  BY <1>1 DEF JobInv
<1>3. job'[k].from \in SafeStarts'
  BY <1>2 DEF Frame
<1>4. RefetchOf(job[k])'
  BY <1>2 DEF RefetchOf
<1>5. \A e \in job'[k].left : InRange(Block[e], job'[k])
  BY <1>2 DEF InRange
<1>6. job'[k].state = "writing" =>
        \A e \in Valid : InRange(Block[e], job'[k]) => e \in job'[k].left \/ table'[Tx[e]] # 0
  BY <1>2 DEF InRange
<1>7. QED
  BY <1>2, <1>3, <1>4, <1>5, <1>6 DEF JobInv

(* A lost lock passes the range on to the redelivered copy, or abandons it. *)
LEMMA StallInv == ASSUME IInv, TypeOK', NEW j \in JobId, Stall(j) PROVE IInv'
<1>1. /\ UNCHANGED <<head, table, row, tick, newestBlock, windowStart>>
      /\ job[j].state # "free"
  BY DEF Stall, Running
<1>2. TypeOK /\ windowStart' \in 0..MaxBlock /\ windowStart <= windowStart'
      /\ newestBlock' <= head' /\ job[j] \in JobRecord
  BY <1>1 DEF IInv, TypeOK
<1>3. /\ Unlocked(j).state = job[j].state /\ Unlocked(j).left = job[j].left
      /\ Unlocked(j).from = job[j].from /\ Unlocked(j).to = job[j].to
      /\ Unlocked(j).cp = job[j].cp
  BY <1>2, UnlockedType
<1>4. CASE GivesUp(j)
  <2>1. /\ job' = [job EXCEPT ![j] = Unlocked(j)]
        /\ abandoned' = abandoned \cup Orphans({j})
    BY <1>4 DEF Stall
  <2>2. job'[j] = Unlocked(j) /\ \A k \in JobId : k # j => job'[k] = job[k]
    BY <2>1, <1>2 DEF TypeOK
  <2>3. ASSUME NEW k \in LiveFetches
        PROVE  \/ RangeOf(job[k]) \in abandoned'
               \/ \E i \in LiveFetches' : RangeOf(job'[i]) = RangeOf(job[k])
    <3>1. CASE k = j
      BY <3>1, <2>1 DEF LiveFetches, Orphans
    <3>2. CASE k # j
      BY <3>2, <2>2 DEF LiveFetches, IsFetch
    <3>3. QED
      BY <3>1, <3>2
  <2>4. Frame /\ TableInv'
    BY <2>1, <2>3, <1>1, <1>2, OwnersKept, TablesKept
  <2>5. JobInv(j)'
    BY <2>2, <2>4, <1>1, <1>3, JobContinued
  <2>6. QED
    BY <2>2, <2>4, <2>5, <1>1, <1>2, Assemble
<1>5. CASE ~GivesUp(j)
  <2> DEFINE copy == WaitingJob(job[j], job[j].stalls + 1)
  <2>1. PICK k \in JobId :
          /\ job[k].state = "free"
          /\ job' = [job EXCEPT ![j] = Unlocked(j), ![k] = copy]
          /\ abandoned' = abandoned
    BY <1>5 DEF Stall, FreeSlots, Redelivered
  <2>2. /\ copy.state = "waiting" /\ copy.left = {} /\ copy.locked = TRUE
        /\ copy.from = job[j].from /\ copy.to = job[j].to /\ copy.cp = job[j].cp
    BY DEF WaitingJob
  <2> HIDE DEF copy
  <2>3. /\ k # j /\ job'[j] = Unlocked(j) /\ job'[k] = copy
        /\ \A i \in JobId : i # j /\ i # k => job'[i] = job[i]
    BY <2>1, <1>1, <1>2 DEF TypeOK
  <2>4. ASSUME NEW i \in LiveFetches
        PROVE  \E l \in LiveFetches' : RangeOf(job'[l]) = RangeOf(job[i])
    <3>1. CASE i = j
      <4>1. k \in LiveFetches' /\ RangeOf(job'[k]) = RangeOf(job[i])
        BY <3>1, <2>2, <2>3 DEF LiveFetches, IsFetch, RangeOf
      <4>2. QED
        BY <4>1
    <3>2. CASE i # j
      <4>1. i # k
        BY <2>1 DEF LiveFetches
      <4>2. i \in LiveFetches' /\ job'[i] = job[i]
        BY <3>2, <4>1, <2>3 DEF LiveFetches, IsFetch
      <4>3. QED
        BY <4>2
    <3>3. QED
      BY <3>1, <3>2
  <2>5. Frame /\ TableInv'
    BY <2>1, <2>4, <1>1, <1>2, OwnersKept, TablesKept
  <2>6. JobInv(j)'
    BY <2>3, <2>5, <1>1, <1>3, JobContinued
  <2>7. JobInv(k)'
    BY <2>2, <2>3, <2>5, <1>1, JobContinued
  <2>8. QED
    BY <2>3, <2>5, <2>6, <2>7, <1>1, <1>2, Assemble
<1>6. QED
  BY <1>4, <1>5

(* A restart keeps what waits in the queue, requeues what was running, and abandons the
   plain fetches it drops. *)
LEMMA RestartInv == ASSUME IInv, TypeOK', Restart PROVE IInv'
<1> DEFINE Lost == {j \in Running : ~job[j].locked \/ GivesUp(j)}
<1>1. /\ UNCHANGED <<head, table, row, windowStart>>
      /\ tick' = [t \in TickId |-> IdleTick] /\ newestBlock' = 0
      /\ abandoned' = abandoned \cup Orphans(Lost)
      /\ \A j \in JobId :
           /\ j \notin Running => job'[j] = job[j]
           /\ j \in Lost => job'[j] = FreeJob
           /\ j \in Running \ Lost => job'[j] = WaitingJob(job[j], job[j].stalls + 1)
  BY DEF Restart, Redelivered
<1>2. Lost \subseteq Running /\ \A j \in LiveFetches : j \in Lost => RangeOf(job[j]) \in Orphans(Lost)
  BY DEF LiveFetches, Orphans
<1> HIDE DEF Lost
<1>3. TypeOK /\ windowStart' \in 0..MaxBlock /\ windowStart <= windowStart' /\ newestBlock' <= head'
  BY <1>1 DEF IInv, TypeOK
<1>4. ASSUME NEW j \in JobId, j \in Running \ Lost
      PROVE  /\ job[j].state # "free"
             /\ job'[j].state = "waiting" /\ job'[j].left = {} /\ job'[j].locked = TRUE
             /\ job'[j].from = job[j].from /\ job'[j].to = job[j].to /\ job'[j].cp = job[j].cp
  <2>1. job'[j] = WaitingJob(job[j], job[j].stalls + 1)
    BY <1>1, <1>4
  <2>2. job[j].state # "free"
    BY <1>4 DEF Running
  <2>3. QED
    BY <2>1, <2>2 DEF WaitingJob
<1>5. ASSUME NEW j \in LiveFetches
      PROVE  \/ RangeOf(job[j]) \in abandoned'
             \/ \E i \in LiveFetches' : RangeOf(job'[i]) = RangeOf(job[j])
  <2>1. CASE j \in Lost
    BY <2>1, <1>1, <1>2
  <2>2. CASE j \in Running \ Lost
    <3>1. j \in JobId /\ IsFetch(j)
      BY DEF LiveFetches
    <3>2. j \in LiveFetches' /\ RangeOf(job'[j]) = RangeOf(job[j])
      BY <2>2, <3>1, <1>4 DEF LiveFetches, IsFetch, RangeOf
    <3>3. QED
      BY <3>2
  <2>3. CASE j \notin Running
    BY <2>3, <1>1 DEF LiveFetches, IsFetch
  <2>4. QED
    BY <2>1, <2>2, <2>3, <1>2
<1>6. Frame /\ TableInv'
  BY <1>1, <1>3, <1>5, OwnersKept, TablesKept
<1>7. ASSUME NEW j \in JobId PROVE job'[j] = job[j] \/ JobInv(j)'
  <2>1. CASE j \in Lost
    BY <2>1, <1>1 DEF JobInv, FreeJob
  <2>2. CASE j \in Running \ Lost
    BY <2>2, <1>1, <1>4, <1>6, JobContinued
  <2>3. QED
    BY <2>1, <2>2, <1>1, <1>2
<1>8. ASSUME NEW t \in TickId PROVE TickInv(t)'
  BY <1>1 DEF TickInv, IdleTick, Ticking
<1>9. QED
  BY <1>1, <1>3, <1>6, <1>7, <1>8, Assemble

(* A failing tick drops its plan, and in CRAWL mode restarts the process. *)
LEMMA TickThrowsInv == ASSUME IInv, TypeOK', NEW t \in TickId, TickThrows(t) PROVE IInv'
<1>1. CASE Mode = "CRAWL"
  BY <1>1, RestartInv DEF TickThrows
<1>2. CASE Mode # "CRAWL"
  <2>1. /\ UNCHANGED <<head, table, row, job, newestBlock, abandoned, windowStart>>
        /\ tick' = [tick EXCEPT ![t] = IdleTick]
    BY <1>2 DEF TickThrows
  <2>2. TypeOK /\ windowStart' \in 0..MaxBlock /\ windowStart <= windowStart'
        /\ newestBlock' <= head'
    BY <2>1 DEF IInv, TypeOK
  <2>3. Frame /\ TableInv'
    BY <2>1, <2>2, TickOnlyKept
  <2>4. tick'[t] = IdleTick /\ \A u \in TickId : u # t => tick'[u] = tick[u]
    BY <2>1, <2>2 DEF TypeOK
  <2>5. TickInv(t)'
    BY <2>4 DEF TickInv, IdleTick, Ticking
  <2>6. QED
    BY <2>1, <2>2, <2>3, <2>4, <2>5, Assemble
<1>3. QED
  BY <1>1, <1>2

(***************************************************************************)
(* The theorems                                                            *)
(***************************************************************************)
(* The invariant holds of the empty tables. *)
LEMMA InitInv == Init => IInv
<1> SUFFICES ASSUME Init PROVE IInv
  OBVIOUS
<1>1. head \in 0..MaxBlock /\ 0 \in 0..MaxBlock /\ 0 \in 0..MaxFaults /\ head \in Int /\ 0 <= head
  BY ConfigAssumption DEF Init
<1>2. TypeOK
  <2>1. row \in [RowId -> RowRecord] /\ newestBlock \in 0..MaxBlock
        /\ faults \in 0..MaxFaults /\ windowStart \in 0..MaxBlock
    BY <1>1, ConfigAssumption DEF Init, RowRecord
  <2>2. job \in [JobId -> JobRecord] /\ tick \in [TickId -> TickRecord]
    BY FreeJobType, IdleTickType DEF Init
  <2>3. booted \in BOOLEAN /\ abandoned \subseteq Ranges /\ table \in [TxHash -> Event \cup {0}]
    BY DEF Init
  <2>4. QED
    BY <1>1, <2>1, <2>2, <2>3 DEF TypeOK
<1>3. newestBlock <= head
  BY <1>1 DEF Init
<1>4. TableInv
  BY DEF Init, TableInv, RecordedBlocks
<1>5. \A j \in JobId : JobInv(j)
  BY DEF Init, JobInv, FreeJob
<1>6. \A c \in RowId : RowInv(c)
  BY DEF Init, RowInv
<1>7. \A t \in TickId : TickInv(t)
  BY DEF Init, TickInv, IdleTick, Ticking
<1>8. QED
  BY <1>2, <1>3, <1>4, <1>5, <1>6, <1>7 DEF IInv

(* Nothing changes when nothing happens. *)
LEMMA StutterInv == ASSUME IInv, UNCHANGED vars PROVE IInv'
<1>1. TypeOK' /\ newestBlock' <= head'
  BY DEF IInv, TypeOK, vars
<1>2. TypeOK /\ windowStart' \in 0..MaxBlock /\ windowStart <= windowStart'
  BY DEF IInv, TypeOK, vars
<1>3. Frame /\ TableInv'
  BY <1>2, TickOnlyKept DEF vars
<1>4. QED
  BY <1>1, <1>3, Assemble DEF vars

(* Every step keeps the inductive invariant. *)
LEMMA NextInv == IInv /\ [Next]_vars => IInv'
<1> SUFFICES ASSUME IInv, [Next]_vars PROVE IInv'
  OBVIOUS
<1>1. TypeOK'
  BY TypeStep
<1>2. CASE UNCHANGED vars
  BY <1>2, StutterInv
<1>3. CASE Grow
  BY <1>1, <1>3, GrowInv
<1>4. ASSUME NEW t \in TickId, StartTick(t) \/ TickStep(t) \/ TickThrows(t) PROVE IInv'
  BY <1>1, <1>4, StartTickInv, ProbeFailedInv, AddRefetchInv, ReadHeadInv, ReadLatestInv,
     AddFetchInv, TickThrowsInv DEF TickStep
<1>5. ASSUME NEW j \in JobId, JobStep(j) \/ JobThrows(j) \/ SaveFailedThrows(j) \/ Stall(j)
      PROVE  IInv'
  BY <1>1, <1>5, FetchLogsInv, WriteEventInv, SaveCheckpointInv, ClearFailedInv,
     SaveFailedCheckpointInv, JobThrowsInv, SaveFailedThrowsInv, StallInv DEF JobStep
<1>6. CASE Crash
  BY <1>1, <1>6, RestartInv DEF Crash
<1>7. QED
  BY <1>2, <1>3, <1>4, <1>5, <1>6 DEF Next

(* IInv holds throughout: table rows carry their own transaction, every queued, planned
   or recorded range starts at a block before which nothing is forgotten. *)
THEOREM Invariance == Spec => []IInv
<1>1. QED
  BY InitInv, NextInv, PTL DEF Spec

(* Every variable keeps its type. *)
THEOREM TypeCorrect == Spec => []TypeOK
<1>1. IInv => TypeOK
  BY DEF IInv
<1>2. QED
  BY <1>1, Invariance, PTL

(* No interleaving of ticks, jobs, crashes, lost locks and retries makes the indexer
   pass over a block silently. *)
THEOREM NoGap == Spec => []NoSilentGap
<1>1. IInv => NoSilentGap
  BY DEF IInv, NoSilentGap, RowInv
<1>2. QED
  BY <1>1, Invariance, PTL

(* Neither a checkpoint nor anything planned or queued reaches past the chain's head. *)
THEOREM NoFutureBlock == Spec => []WithinChain
<1>1. IInv => WithinChain
  BY DEF IInv, WithinChain, RowInv, JobInv, TickInv
<1>2. QED
  BY <1>1, Invariance, PTL

(* The only steps that write the checkpoint table. *)
LEMMA RowWriters ==
  ASSUME [Next]_vars
  PROVE  \/ row' = row
         \/ \E j \in JobId : SaveCheckpoint(j) \/ ClearFailed(j) \/ SaveFailedCheckpoint(j)
BY DEF Next, vars, Grow, StartTick, TickStep, TickThrows, ProbeFailed, AddRefetch, ReadHead,
       ReadLatest, AddFetch, JobStep, FetchLogs, WriteEvent, JobThrows, SaveFailedThrows,
       Stall, Crash, Restart

(* What an insert changes: one new row, with the state and the range of the job. *)
LEMMA InsertedRow ==
  ASSUME TypeOK, NEW j \in JobId, NEW s \in {"ok", "failed"}, InsertRow(j, s),
         NEW c \in RowId, row'[c].state # row[c].state
  PROVE  /\ row[c].state = "none" /\ row'[c].state = s
         /\ row'[c].from = job[j].from /\ row'[c].to = job[j].to
<1>1. PICK d \in RowId :
        /\ row[d].state = "none"
        /\ row' = [row EXCEPT ![d] = [state |-> s, from |-> job[j].from, to |-> job[j].to]]
  BY DEF InsertRow, NewRows
<1>2. c = d
  BY <1>1 DEF TypeOK
<1>3. row'[c] = [state |-> s, from |-> job[j].from, to |-> job[j].to]
  BY <1>1, <1>2 DEF TypeOK
<1>4. QED
  BY <1>1, <1>2, <1>3

(* executeRangeQuery inserts a successful checkpoint only after the transactions of all
   valid events of its range are in the table. *)
THEOREM OkIsComplete == Spec => OkMeansComplete
<1> DEFINE Complete ==
      \A c \in RowId : row[c].state = "none" /\ row'[c].state = "ok" =>
        \A e \in Valid : InRange(Block[e], row'[c]) => table[Tx[e]] # 0
<1>1. IInv /\ [Next]_vars => Complete
  <2> SUFFICES ASSUME IInv, [Next]_vars, NEW c \in RowId,
                      row[c].state = "none", row'[c].state = "ok",
                      NEW e \in Valid, InRange(Block[e], row'[c])
               PROVE  table[Tx[e]] # 0
    OBVIOUS
  <2>1. TypeOK
    BY DEF IInv
  <2>2. ASSUME NEW j \in JobId, SaveCheckpoint(j) PROVE table[Tx[e]] # 0
    <3>1. InsertRow(j, "ok") /\ Logged(j)
      BY <2>2 DEF SaveCheckpoint
    <3>2. row'[c].from = job[j].from /\ row'[c].to = job[j].to
      BY <3>1, <2>1, InsertedRow
    <3>3. InRange(Block[e], job[j])
      BY <3>2 DEF InRange
    <3>4. QED
      BY <3>1, <3>3, LoggedRecorded
  <2>3. ASSUME NEW j \in JobId, SaveFailedCheckpoint(j) PROVE FALSE
    <3>1. InsertRow(j, "failed")
      BY <2>3 DEF SaveFailedCheckpoint
    <3>2. QED
      BY <3>1, <2>1, InsertedRow
  <2>4. ASSUME NEW j \in JobId, ClearFailed(j) PROVE FALSE
    <3>1. /\ Logged(j) /\ ~IsFetch(j)
          /\ row' = [row EXCEPT ![job[j].cp] = [@ EXCEPT !.state = "ok"]]
      BY <2>4 DEF ClearFailed
    <3>2. JobInv(j) /\ job[j].state # "free"
      BY <3>1 DEF IInv, Logged
    <3>3. row[job[j].cp].state # "none"
      BY <3>1, <3>2 DEF JobInv, RefetchOf, IsFetch
    <3>4. QED
      BY <3>1, <3>3, <2>1 DEF TypeOK
  <2>5. QED
    BY <2>2, <2>3, <2>4, RowWriters
<1>2. QED
  BY <1>1, Invariance, PTL DEF Spec, OkMeansComplete

(* executeFailedRangeQuery clears a failed checkpoint only when each event block of the
   row's range is recorded, abandoned, or owned by a range that ends earlier. *)
THEOREM ClearIsCovered == Spec => ClearOnlyWhenCovered
<1> DEFINE Covered ==
      \A c \in RowId : row[c].state = "failed" /\ row'[c].state = "ok" =>
        \A e \in Valid :
          InRange(Block[e], row[c]) /\ windowStart <= Block[e] =>
            \/ Block[e] \in RecordedBlocks
            \/ Abandoned(Block[e])
            \/ Owned(Block[e], row[c].to)
<1>1. IInv /\ [Next]_vars => Covered
  <2> SUFFICES ASSUME IInv, [Next]_vars, NEW c \in RowId,
                      row[c].state = "failed", row'[c].state = "ok",
                      NEW e \in Valid, InRange(Block[e], row[c]), windowStart <= Block[e]
               PROVE  \/ Block[e] \in RecordedBlocks
                      \/ Abandoned(Block[e])
                      \/ Owned(Block[e], row[c].to)
    OBVIOUS
  <2>1. TypeOK
    BY DEF IInv
  <2>2. ASSUME NEW j \in JobId, NEW s \in {"ok", "failed"}, InsertRow(j, s) PROVE FALSE
    BY <2>1, <2>2, InsertedRow
  <2>3. PICK j \in JobId : ClearFailed(j)
    BY <2>2, RowWriters DEF SaveCheckpoint, SaveFailedCheckpoint
  <2>4. /\ Logged(j) /\ ~IsFetch(j)
        /\ row' = [row EXCEPT ![job[j].cp] = [@ EXCEPT !.state = "ok"]]
    BY <2>3 DEF ClearFailed
  <2>5. c = job[j].cp
    BY <2>1, <2>4 DEF TypeOK
  <2>6. JobInv(j) /\ job[j].state = "writing" /\ job[j] \in JobRecord /\ row[c] \in RowRecord
    BY <2>1, <2>4 DEF IInv, TypeOK, Logged
  <2>7. row[c].to = job[j].to /\ job[j].from <= job[j].to /\ job[j].from \in SafeStarts
    BY <2>4, <2>5, <2>6 DEF JobInv, RefetchOf, IsFetch
  <2>8. CASE InRange(Block[e], job[j])
    BY <2>4, <2>8, LoggedRecorded
  <2>9. CASE ~InRange(Block[e], job[j])
    <3>1. Block[e] < job[j].from
      BY <2>6, <2>7, <2>9, EventAssumption DEF InRange, JobRecord
    <3>2. Block[e] \in RecordedBlocks \/ Abandoned(Block[e]) \/ Owned(Block[e], job[j].from)
      BY <3>1, <2>7 DEF SafeStarts
    <3>3. ASSUME NEW q \in Owners, q.to < job[j].from PROVE q.to < row[c].to
      <4>1. q.to \in Int
        BY <2>1 DEF Owners, TypeOK, JobRecord, RowRecord, RangeOf, LiveFetches, FailedRows
      <4>2. QED
        BY <4>1, <3>3, <2>6, <2>7 DEF JobRecord
    <3>4. Owned(Block[e], job[j].from) => Owned(Block[e], row[c].to)
      BY <3>3 DEF Owned
    <3>5. QED
      BY <3>2, <3>4
  <2>10. QED
    BY <2>8, <2>9
<1>2. QED
  BY <1>1, Invariance, PTL DEF Spec, ClearOnlyWhenCovered

(***************************************************************************)
(* What a refetch can lose                                                 *)
(***************************************************************************)
(* The only step that writes the event table. *)
LEMMA TableWriters == ASSUME [Next]_vars PROVE table' = table \/ \E j \in JobId : WriteEvent(j)
BY DEF Next, vars, Grow, StartTick, TickStep, TickThrows, ProbeFailed, AddRefetch, ReadHead,
       ReadLatest, AddFetch, JobStep, FetchLogs, SaveCheckpoint, ClearFailed,
       SaveFailedCheckpoint, JobThrows, SaveFailedThrows, Stall, Crash, Restart

(* A job that writes an event has found or written every earlier event of the block. *)
LEMMA WriteFillsUpwards ==
  ASSUME IInv, BlocksFillUpwards, NEW j \in JobId, WriteEvent(j)
  PROVE  BlocksFillUpwards'
<1>1. PICK e \in job[j].left : NextLog(e, job[j].left) /\ table' = Upsert(e)
  BY DEF WriteEvent
<1>2. TypeOK /\ JobInv(j) /\ job[j].state = "writing" /\ e \in Event
  BY <1>1 DEF IInv, TypeOK, JobRecord, WriteEvent
<1>3. table \in [TxHash -> Event \cup {0}] /\ e # 0 /\ Tx \in [Event -> TxHash]
  BY <1>2, EventAssumption DEF TypeOK, Event
<1>4. \A x \in TxHash : table'[x] = table[x] \/ (e \in Valid /\ x = Tx[e] /\ table'[x] = e)
  BY <1>1, <1>3 DEF Upsert
<1>5. \A x \in TxHash : table[x] # 0 => table'[x] # 0
  BY <1>3, <1>4
<1>6. ASSUME NEW d \in Valid, d <= e, Block[d] = Block[e], e \in Valid
      PROVE  table'[Tx[d]] # 0
  <2>1. d \in Event /\ Tx[d] \in TxHash /\ InRange(Block[d], job[j])
    BY <1>1, <1>2, <1>6, EventAssumption DEF JobInv
  <2>2. d \in job[j].left \/ table[Tx[d]] # 0
    BY <1>2, <1>6, <2>1 DEF JobInv
  <2>3. CASE d \in job[j].left
    <3>1. e <= d
      BY <1>1, <2>3 DEF NextLog
    <3>2. d = e
      BY <1>2, <1>6, <2>1, <3>1 DEF Event
    <3>3. table' = [table EXCEPT ![Tx[e]] = e]
      BY <1>1, <1>6 DEF Upsert
    <3>4. QED
      BY <1>2, <1>3, <3>2, <3>3
  <2>4. QED
    BY <1>5, <2>1, <2>2, <2>3
<1>7. ASSUME NEW x \in TxHash, table'[x] # 0,
             NEW d \in Valid, d <= table'[x], Block[d] = Block[table'[x]]
      PROVE  table'[Tx[d]] # 0
  <2>1. CASE table'[x] = table[x]
    <3>1. table[Tx[d]] # 0
      BY <1>7, <2>1 DEF BlocksFillUpwards
    <3>2. QED
      BY <1>3, <1>5, <3>1, EventAssumption
  <2>2. CASE e \in Valid /\ x = Tx[e] /\ table'[x] = e
    BY <1>6, <1>7, <2>2
  <2>3. QED
    BY <1>4, <2>1, <2>2
<1>8. QED
  BY <1>7 DEF BlocksFillUpwards

(* The stored transactions of a block always come before those not stored. *)
LEMMA FillsUpwards == Spec => []BlocksFillUpwards
<1>1. Init => BlocksFillUpwards
  BY DEF Init, BlocksFillUpwards
<1>2. IInv /\ BlocksFillUpwards /\ [Next]_vars => BlocksFillUpwards'
  <2> SUFFICES ASSUME IInv, BlocksFillUpwards, [Next]_vars PROVE BlocksFillUpwards'
    OBVIOUS
  <2>1. CASE table' = table
    BY <2>1 DEF BlocksFillUpwards
  <2>2. QED
    BY <2>1, TableWriters, WriteFillsUpwards
<1>3. QED
  BY <1>1, <1>2, Invariance, PTL DEF Spec

(* A refetch goes on after a block of which only a part may be stored.  What is then lost
   for good is the end of that block: no stored event of it comes later. *)
THEOREM TailsAtMost == Spec => []OnlyTailsLost
<1>1. IInv /\ BlocksFillUpwards => OnlyTailsLost
  <2> SUFFICES ASSUME IInv, BlocksFillUpwards,
                      NEW c \in RowId, row[c].state = "ok",
                      NEW e \in Valid, windowStart <= Block[e], Block[e] <= row[c].to,
                      table[Tx[e]] = 0,
                      ~Abandoned(Block[e]), ~Owned(Block[e], row[c].to + 1)
               PROVE  /\ Block[e] \in RecordedBlocks
                      /\ \A x \in TxHash :
                           table[x] # 0 /\ Block[table[x]] = Block[e] => table[x] < e
    BY DEF OnlyTailsLost, InTail
  <2>1. TypeOK /\ row[c].to + 1 \in SafeStarts /\ e \in Event
    BY EventAssumption DEF IInv, RowInv
  <2>2. Block[e] \in Int /\ row[c].to \in Int
    BY <2>1, EventAssumption DEF TypeOK, RowRecord
  <2>3. Block[e] \in RecordedBlocks
    BY <2>1, <2>2 DEF SafeStarts
  <2>4. ASSUME NEW x \in TxHash, table[x] # 0, Block[table[x]] = Block[e]
        PROVE  table[x] < e
    <3>1. table[x] \in Int /\ e \in Int
      BY <2>1 DEF TypeOK, Event
    <3>2. ~(e <= table[x])
      BY <2>4 DEF BlocksFillUpwards
    <3>3. QED
      BY <3>1, <3>2
  <2>5. QED
    BY <2>3, <2>4
<1>2. QED
  BY <1>1, Invariance, FillsUpwards, PTL

(***************************************************************************)
(* The ledger                                                              *)
(***************************************************************************)
(* The ranges of the plain fetches that answer for them. *)
Fetching == {RangeOf(job[j]) : j \in LiveFetches}

(* The starting points of the ledger are the safe starts. *)
LEMMA LedgerSafe ==
  ASSUME NEW s \in SafeStarts PROVE Ledger!Safe(s)
<1> SUFFICES ASSUME NEW e \in Valid, windowStart <= Block[e], Block[e] < s
             PROVE  Ledger!Accounted(Block[e], s)
  BY DEF Ledger!Safe, EventBlocks
<1>1. Block[e] \in RecordedBlocks \/ Abandoned(Block[e]) \/ Owned(Block[e], s)
  BY DEF SafeStarts
<1>2. QED
  BY <1>1 DEF Ledger!Accounted, Ledger!Holds, Abandoned, Owned, InRange

(* The range of a job or a checkpoint is one the ledger knows. *)
LEMMA LedgerRange ==
  ASSUME NEW r, r.from <= r.to, r.from \in 0..(MaxBlock + 1), r.to \in 0..MaxBlock
  PROVE  RangeOf(r) \in Ledger!Range
BY ConfigAssumption DEF RangeOf, Ledger!Range

(* The same fetches answer after a step that hands each of their ranges on. *)
LEMMA FetchingKept ==
  ASSUME \A j \in LiveFetches : \E k \in LiveFetches' : RangeOf(job'[k]) = RangeOf(job[j]),
         \A k \in LiveFetches' : \E j \in LiveFetches : RangeOf(job'[k]) = RangeOf(job[j])
  PROVE  Fetching' = Fetching
BY DEF Fetching

(* A job that ends, or loses its lock, stops answering for its range; others may go on. *)
LEMMA FetchingEnds ==
  ASSUME NEW j \in JobId, \A k \in JobId : k # j => job'[k] = job[k], j \notin LiveFetches'
  PROVE  /\ Fetching' \subseteq Fetching /\ Fetching \ {RangeOf(job[j])} \subseteq Fetching'
         /\ j \notin LiveFetches => Fetching' = Fetching
<1>1. LiveFetches' = LiveFetches \ {j}
  BY DEF LiveFetches, IsFetch
<1>2. \A k \in LiveFetches' : k \in LiveFetches /\ RangeOf(job'[k]) = RangeOf(job[k])
  BY <1>1 DEF LiveFetches
<1>3. Fetching' \subseteq Fetching
  BY <1>2 DEF Fetching
<1>4. \A k \in LiveFetches : k # j => RangeOf(job[k]) \in Fetching'
  BY <1>1, <1>2 DEF Fetching
<1>5. QED
  BY <1>3, <1>4 DEF Fetching

(* Nothing the ledger is about changes when the tables stay and the fetches answer for the
   same ranges. *)
LEMMA LedgerStutters ==
  ASSUME UNCHANGED <<table, row, abandoned, windowStart>>, Fetching' = Fetching
  PROVE  UNCHANGED Ledger!vars
<1>1. Owners' = Owners /\ RecordedBlocks' = RecordedBlocks /\ Done' = Done
  BY DEF Owners, FailedRows, Fetching, RecordedBlocks, Done
<1>2. QED
  BY <1>1 DEF Ledger!vars

(* ... as when no job is touched. *)
LEMMA LedgerUntouched ==
  ASSUME UNCHANGED <<table, row, job, abandoned, windowStart>>
  PROVE  UNCHANGED Ledger!vars
<1>1. Fetching' = Fetching
  BY DEF Fetching, LiveFetches, IsFetch
<1>2. QED
  BY <1>1, LedgerStutters

(* ... or when a job only moves on. *)
LEMMA LedgerMoves ==
  ASSUME TypeOK, UNCHANGED <<row, abandoned, windowStart>>,
         NEW j \in JobId, job[j].state # "free",
         NEW state \in {"writing", "failing"}, NEW left \in SUBSET Event,
         job' = [job EXCEPT ![j] = Moved(j, state, left)]
  PROVE  Fetching' = Fetching
<1> DEFINE new == Moved(j, state, left)
<1>1. /\ new.state = state /\ new.from = job[j].from /\ new.to = job[j].to
      /\ new.cp = job[j].cp /\ new.locked = job[j].locked
  BY MovedType DEF TypeOK
<1>2. job'[j] = new /\ \A k \in JobId : k # j => job'[k] = job[k]
  BY DEF TypeOK
<1> HIDE DEF new
<1>3. LiveFetches' = LiveFetches
  BY <1>1, <1>2 DEF LiveFetches, IsFetch
<1>4. \A k \in JobId : RangeOf(job'[k]) = RangeOf(job[k])
  BY <1>1, <1>2 DEF RangeOf
<1>5. QED
  BY <1>3, <1>4 DEF Fetching, LiveFetches

(* A queue.add makes somebody answer for a plain fetch, and for a refetch nobody. *)
LEMMA LedgerEnqueue ==
  ASSUME TypeOK, NEW r, Enqueue(r)
  PROVE  Fetching' = IF r.cp = NoCheckpoint THEN Fetching \cup {RangeOf(r)} ELSE Fetching
<1> DEFINE new == WaitingJob(r, 0)
<1>1. PICK k \in JobId : job[k].state = "free" /\ job' = [job EXCEPT ![k] = new]
  BY DEF Enqueue, FreeSlots
<1>2. /\ new.state = "waiting" /\ new.from = r.from /\ new.to = r.to
      /\ new.cp = r.cp /\ new.locked = TRUE
  BY DEF WaitingJob
<1> HIDE DEF new
<1>3. job'[k] = new /\ \A j \in JobId : j # k => job'[j] = job[j]
  BY <1>1 DEF TypeOK
<1>4. k \notin LiveFetches /\ RangeOf(new) = RangeOf(r)
  BY <1>1, <1>2 DEF LiveFetches, RangeOf
<1>5. \A j \in JobId : j # k => (j \in LiveFetches' <=> j \in LiveFetches)
  BY <1>3 DEF LiveFetches, IsFetch
<1>6. CASE r.cp = NoCheckpoint
  <2>1. LiveFetches' = LiveFetches \cup {k}
    BY <1>2, <1>3, <1>5, <1>6 DEF LiveFetches, IsFetch
  <2>2. QED
    BY <2>1, <1>3, <1>4, <1>6 DEF Fetching, LiveFetches
<1>7. CASE r.cp # NoCheckpoint
  <2>1. LiveFetches' = LiveFetches
    BY <1>2, <1>3, <1>4, <1>5, <1>7 DEF LiveFetches, IsFetch
  <2>2. QED
    BY <2>1, <1>3, <1>4, <1>7 DEF Fetching, LiveFetches
<1>8. QED
  BY <1>6, <1>7

(* Ranges that nobody answers for any more are on record as given up. *)
LEMMA LedgerDrops ==
  ASSUME UNCHANGED <<table, row, windowStart>>, NEW S \in SUBSET Fetching,
         abandoned' = abandoned \cup S,
         Fetching' \subseteq Fetching, Fetching \ S \subseteq Fetching'
  PROVE  Ledger!Next
<1>1. RecordedBlocks' = RecordedBlocks /\ Done' = Done /\ FailedRows' = FailedRows
  BY DEF RecordedBlocks, Done, FailedRows
<1>2. /\ Owners = Fetching \cup {RangeOf(row[c]) : c \in FailedRows}
      /\ Owners' = Fetching' \cup {RangeOf(row[c]) : c \in FailedRows}
  BY <1>1 DEF Owners, Fetching
<1>3. Owners' \subseteq Owners /\ Owners \ S \subseteq Owners' /\ S \in SUBSET Owners
  BY <1>2
<1>4. Owners \ Owners' \in SUBSET S /\ Owners' = Owners \ (Owners \ Owners')
  BY <1>3
<1>5. Ledger!Release(S)
  BY <1>4 DEF Ledger!Release
<1>6. Ledger!Drop(S)
  BY <1>1, <1>5 DEF Ledger!Drop
<1>7. QED
  BY <1>3, <1>6 DEF Ledger!Next

(* The range of a single entry that goes for good. *)
LEMMA LedgerDropsOne ==
  ASSUME UNCHANGED <<table, row, windowStart>>, NEW j \in JobId, job[j].state # "free",
         \A k \in JobId : k # j => job'[k] = job[k], j \notin LiveFetches',
         abandoned' = abandoned \cup Orphans({j})
  PROVE  Ledger!Next
<1>1. CASE j \in LiveFetches
  <2>1. Orphans({j}) = {RangeOf(job[j])} /\ RangeOf(job[j]) \in Fetching
    BY <1>1 DEF Orphans, LiveFetches, Fetching
  <2>2. QED
    BY <2>1, FetchingEnds, LedgerDrops
<1>2. CASE j \notin LiveFetches
  <2>1. Orphans({j}) = {}
    BY <1>2 DEF Orphans, LiveFetches
  <2>2. Fetching' = Fetching
    BY <1>2, FetchingEnds
  <2>3. QED
    BY <2>1, <2>2, LedgerDrops
<1>3. QED
  BY <1>1, <1>2

(* queryRanges: a planned fetch is taken on. *)
LEMMA LedgerAddFetch ==
  ASSUME IInv, NEW t \in TickId, AddFetch(t) PROVE Ledger!Next
<1>1. /\ UNCHANGED <<table, row, abandoned, windowStart>> /\ tick[t].pc = "adding"
      /\ TypeOK /\ TickInv(t)
  BY DEF AddFetch, IInv
<1>2. PICK r \in tick[t].todo : Lowest(r, tick[t].todo) /\ Enqueue(r)
  BY DEF AddFetch
<1>3. r \in Tasks /\ r.cp = NoCheckpoint /\ r.from <= r.to
  BY <1>1 DEF TypeOK, TickRecord, TickInv
<1>4. Fetching' = Fetching \cup {RangeOf(r)}
  BY <1>1, <1>2, <1>3, LedgerEnqueue
<1>5. /\ Owners' = Owners \cup {RangeOf(r)}
      /\ UNCHANGED <<RecordedBlocks, Done>>
  BY <1>1, <1>4 DEF Owners, Fetching, FailedRows, RecordedBlocks, Done
<1>6. r.from \in SafeStarts
  BY <1>1, <1>2, LowestSafe
<1>7. Ledger!Safe(RangeOf(r).from)
  <2>1. RangeOf(r).from = r.from
    BY DEF RangeOf
  <2>2. QED
    BY <1>6, <2>1, LedgerSafe
<1>8. Ledger!Owe(RangeOf(r))
  BY <1>1, <1>5, <1>7 DEF Ledger!Owe
<1>9. RangeOf(r) \in Ledger!Range
  BY <1>3, LedgerRange DEF Tasks
<1>10. QED
  BY <1>8, <1>9 DEF Ledger!Next

(* logEvents: the block of the event stored is recorded. *)
LEMMA LedgerWriteEvent ==
  ASSUME IInv, IInv', NEW j \in JobId, WriteEvent(j)
  PROVE  Ledger!Next \/ UNCHANGED Ledger!vars
<1>1. /\ UNCHANGED <<row, abandoned, windowStart>> /\ job[j].state = "writing"
      /\ TypeOK /\ TableInv /\ TableInv' /\ job[j] \in JobRecord
  BY DEF WriteEvent, IInv, TypeOK
<1>2. PICK e \in job[j].left :
        table' = Upsert(e) /\ job' = [job EXCEPT ![j] = Moved(j, "writing", job[j].left \ {e})]
  BY DEF WriteEvent
<1>3. e \in Event /\ job[j].left \ {e} \in SUBSET Event /\ Block[e] \in 0..MaxBlock
      /\ Tx[e] \in TxHash /\ e # 0
  BY <1>1, EventAssumption DEF JobRecord, Event
<1>4. Fetching' = Fetching
  BY <1>1, <1>2, <1>3, LedgerMoves
<1>5. CASE e \notin Valid
  <2>1. table' = table
    BY <1>2, <1>5 DEF Upsert
  <2>2. QED
    BY <1>1, <1>4, <2>1, LedgerStutters
<1>6. CASE e \in Valid
  <2>1. table' = [table EXCEPT ![Tx[e]] = e] /\ table \in [TxHash -> Event \cup {0}]
    BY <1>1, <1>2, <1>6 DEF Upsert, TypeOK
  <2>2. RecordedBlocks' = RecordedBlocks \cup {Block[e]}
    <3>1. table'[Tx[e]] = e /\ \A x \in TxHash : x # Tx[e] => table'[x] = table[x]
      BY <1>3, <2>1
    <3>2. Block[e] \in RecordedBlocks'
      BY <1>3, <3>1 DEF RecordedBlocks
    <3>3. table[Tx[e]] # 0 => Block[table[Tx[e]]] = Block[e]
      <4>1. table[Tx[e]] # 0 => table[Tx[e]] \in Event /\ Tx[table[Tx[e]]] = Tx[e]
        BY <1>1, <1>3, <2>1 DEF TableInv
      <4>2. QED
        BY <1>3, <4>1, EventAssumption
    <3>4. RecordedBlocks \subseteq RecordedBlocks'
      <4> SUFFICES ASSUME NEW x \in TxHash, table[x] # 0
                   PROVE  Block[table[x]] \in RecordedBlocks'
        BY DEF RecordedBlocks
      <4>1. CASE x = Tx[e]
        BY <3>2, <3>3, <4>1
      <4>2. CASE x # Tx[e]
        BY <3>1, <4>2 DEF RecordedBlocks
      <4>3. QED
        BY <4>1, <4>2
    <3>5. RecordedBlocks' \subseteq RecordedBlocks \cup {Block[e]}
      <4> SUFFICES ASSUME NEW x \in TxHash, table'[x] # 0
                   PROVE  Block[table'[x]] \in RecordedBlocks \cup {Block[e]}
        BY DEF RecordedBlocks
      <4>1. CASE x = Tx[e]
        BY <3>1, <4>1
      <4>2. CASE x # Tx[e]
        BY <3>1, <4>2 DEF RecordedBlocks
      <4>3. QED
        BY <4>1, <4>2
    <3>6. QED
      BY <3>2, <3>4, <3>5
  <2>3. Owners' = Owners /\ Done' = Done
    BY <1>1, <1>4 DEF Owners, Fetching, FailedRows, Done
  <2>4. Ledger!Safe(Block[e])
    <3>1. Block[e] \in SafeStarts'
      BY <1>1, <2>2 DEF TableInv
    <3>2. ASSUME NEW d \in Valid, windowStart <= Block[d], Block[d] < Block[e]
          PROVE  Block[d] \in RecordedBlocks \/ Abandoned(Block[d]) \/ Owned(Block[d], Block[e])
      <4>1. Block[d] \in RecordedBlocks' \/ Abandoned(Block[d])' \/ Owned(Block[d], Block[e])'
        BY <1>1, <3>1, <3>2 DEF SafeStarts
      <4>2. Block[d] # Block[e]
        BY <1>3, <3>2, EventAssumption
      <4>3. (Abandoned(Block[d])' <=> Abandoned(Block[d]))
            /\ (Owned(Block[d], Block[e])' <=> Owned(Block[d], Block[e]))
        BY <1>1, <2>3 DEF Abandoned, Owned
      <4>4. QED
        BY <2>2, <4>1, <4>2, <4>3
    <3>3. Block[e] \in SafeStarts
      BY <1>3, <3>2, ConfigAssumption DEF SafeStarts
    <3>4. QED
      BY <3>3, LedgerSafe
  <2>5. Ledger!Record(Block[e])
    BY <1>1, <2>2, <2>3, <2>4 DEF Ledger!Record
  <2>6. Block[e] \in EventBlocks
    BY <1>6 DEF EventBlocks
  <2>7. QED
    BY <2>5, <2>6 DEF Ledger!Next
<1>7. QED
  BY <1>5, <1>6

(* A range declared successful is settled: its checkpoint ends at a safe start. *)
LEMMA LedgerSettles ==
  ASSUME UNCHANGED <<table, abandoned, windowStart>>, NEW r \in Ledger!Range,
         Done' = Done \cup {r}, Owners' \subseteq Owners, Owners \ {r} \subseteq Owners',
         r.from \in SafeStarts, r.to + 1 \in SafeStarts'
  PROVE  Ledger!Next
<1>1. RecordedBlocks' = RecordedBlocks
  BY DEF RecordedBlocks
<1>2. Ledger!Release({r})
  <2>1. Owners \ Owners' \in SUBSET {r} /\ Owners' = Owners \ (Owners \ Owners')
    OBVIOUS
  <2>2. QED
    BY <2>1 DEF Ledger!Release
<1>3. Ledger!Safe(r.from)
  BY LedgerSafe
<1>4. ASSUME NEW e \in Valid, windowStart <= Block[e], Ledger!Holds(r, Block[e])
      PROVE  Ledger!Accounted(Block[e], r.to + 1)'
  <2>1. Block[e] \in Int /\ r.to \in Int /\ Block[e] <= r.to
    BY <1>4, EventAssumption DEF Ledger!Holds, Ledger!Range
  <2>2. Block[e] \in RecordedBlocks' \/ Abandoned(Block[e])' \/ Owned(Block[e], r.to + 1)'
    BY <1>4, <2>1 DEF SafeStarts
  <2>3. QED
    BY <2>2 DEF Ledger!Accounted, Ledger!Holds, Abandoned, Owned, InRange
<1>5. Ledger!Settle(r)
  BY <1>1, <1>2, <1>3, <1>4 DEF Ledger!Settle, EventBlocks
<1>6. QED
  BY <1>5 DEF Ledger!Next

(* The checkpoint a job leaves: a success settles its range, a failure answers for it. *)
LEMMA LedgerInsertRow ==
  ASSUME IInv, IInv', NEW j \in JobId, NEW s \in {"ok", "failed"}, InsertRow(j, s),
         UNCHANGED <<table, abandoned, windowStart>>,
         job' = [job EXCEPT ![j] = FreeJob], job[j].state # "free"
  PROVE  Ledger!Next
<1> DEFINE new == [state |-> s, from |-> job[j].from, to |-> job[j].to]
           r == RangeOf(job[j])
<1>1. PICK c \in RowId : row[c].state = "none" /\ row' = [row EXCEPT ![c] = new]
  BY DEF InsertRow, NewRows
<1>2. new.state = s /\ RangeOf(new) = r
  BY DEF RangeOf
<1>3. r.from = job[j].from /\ r.to = job[j].to
  BY DEF RangeOf
<1> HIDE DEF new
<1>4. TypeOK /\ JobInv(j) /\ RowInv(c)' /\ job[j] \in JobRecord
  BY DEF IInv, TypeOK
<1>5. row'[c] = new /\ \A d \in RowId : d # c => row'[d] = row[d]
  BY <1>1, <1>4 DEF TypeOK
<1>6. job'[j] = FreeJob /\ \A k \in JobId : k # j => job'[k] = job[k]
  BY <1>4 DEF TypeOK
<1>7. j \notin LiveFetches'
  BY <1>6 DEF LiveFetches, FreeJob
<1>8. Fetching' \subseteq Fetching /\ Fetching \ {r} \subseteq Fetching'
  BY <1>6, <1>7, FetchingEnds
<1>9. r \in Ledger!Range /\ r.from \in SafeStarts
  BY <1>3, <1>4, LedgerRange DEF JobInv, JobRecord
<1>10. CASE s = "ok"
  <2>1. Done' = Done \cup {r}
    BY <1>1, <1>2, <1>5, <1>10 DEF Done
  <2>2. {RangeOf(row'[d]) : d \in FailedRows'} = {RangeOf(row[d]) : d \in FailedRows}
    BY <1>1, <1>2, <1>5, <1>10 DEF FailedRows
  <2>3. Owners' \subseteq Owners /\ Owners \ {r} \subseteq Owners'
    BY <1>8, <2>2 DEF Owners, Fetching
  <2>4. r.to + 1 \in SafeStarts'
    <3>1. row'[c].state = "ok" /\ row'[c].to = r.to
      BY <1>2, <1>3, <1>5, <1>10 DEF new
    <3>2. QED
      BY <1>4, <3>1 DEF RowInv
  <2> HIDE DEF r
  <2>5. QED
    BY <1>9, <2>1, <2>3, <2>4, LedgerSettles
<1>11. CASE s = "failed"
  <2>1. Done' = Done /\ RecordedBlocks' = RecordedBlocks
    BY <1>1, <1>2, <1>5, <1>11 DEF Done, RecordedBlocks
  <2>2. {RangeOf(row'[d]) : d \in FailedRows'} = {RangeOf(row[d]) : d \in FailedRows} \cup {r}
    BY <1>1, <1>2, <1>5, <1>11 DEF FailedRows
  <2>3. Owners' = Owners \cup {r}
    BY <1>8, <2>2 DEF Owners, Fetching
  <2>4. Ledger!Safe(r.from)
    BY <1>9, LedgerSafe
  <2>5. Ledger!Owe(r)
    BY <2>1, <2>3, <2>4 DEF Ledger!Owe
  <2>6. QED
    BY <1>9, <2>5 DEF Ledger!Next
<1>12. QED
  BY <1>10, <1>11

(* A refetch that succeeds settles the whole range of its failed checkpoint; when another
   refetch has done so before, nothing changes. *)
LEMMA LedgerClearFailed ==
  ASSUME IInv, IInv', NEW j \in JobId, ClearFailed(j)
  PROVE  Ledger!Next \/ UNCHANGED Ledger!vars
<1>1. /\ UNCHANGED <<table, abandoned, windowStart>>
      /\ Logged(j) /\ ~IsFetch(j)
      /\ row' = [row EXCEPT ![job[j].cp] = [@ EXCEPT !.state = "ok"]]
      /\ job' = [job EXCEPT ![j] = FreeJob]
  BY DEF ClearFailed
<1>2. TypeOK /\ JobInv(j) /\ job[j] \in JobRecord /\ job[j].state = "writing"
  BY <1>1 DEF IInv, TypeOK, Logged
<1>3. PICK c \in RowId : c = job[j].cp /\ row[c] \in RowRecord
  BY <1>1, <1>2 DEF IsFetch, JobRecord, TypeOK
<1>4. row[c].state # "none" /\ RowInv(c) /\ RowInv(c)'
  BY <1>1, <1>2, <1>3 DEF JobInv, RefetchOf, IsFetch, IInv
<1>5. /\ row'[c] = [row[c] EXCEPT !.state = "ok"]
      /\ \A d \in RowId : d # c => row'[d] = row[d]
  BY <1>1, <1>2, <1>3 DEF TypeOK
<1>6. row'[c].state = "ok" /\ row'[c].from = row[c].from /\ row'[c].to = row[c].to
  BY <1>3, <1>5 DEF RowRecord
<1>7. job'[j] = FreeJob /\ \A k \in JobId : k # j => job'[k] = job[k]
  BY <1>1, <1>2 DEF TypeOK
<1>8. Fetching' = Fetching
  <2>1. j \notin LiveFetches /\ j \notin LiveFetches'
    BY <1>1, <1>7 DEF LiveFetches, FreeJob
  <2>2. QED
    BY <1>7, <2>1, FetchingEnds
<1>9. CASE row[c].state = "ok"
  <2>1. row'[c] = row[c]
    BY <1>3, <1>5, <1>9 DEF RowRecord
  <2>2. row' = row
    BY <1>1, <1>2, <1>3, <1>5, <2>1 DEF TypeOK
  <2>3. QED
    BY <1>1, <1>8, <2>2, LedgerStutters
<1>10. CASE row[c].state = "failed"
  <2> DEFINE r == RangeOf(row[c])
  <2>1. r.from = row[c].from /\ r.to = row[c].to /\ RangeOf(row'[c]) = r
    BY <1>6 DEF RangeOf
  <2>2. r \in Ledger!Range /\ r.from \in SafeStarts /\ r.to + 1 \in SafeStarts'
    BY <1>3, <1>4, <1>6, <2>1, LedgerRange DEF RowInv, RowRecord
  <2> HIDE DEF r
  <2>3. Done' = Done \cup {r}
    <3>1. {d \in RowId : row'[d].state = "ok"} = {d \in RowId : row[d].state = "ok"} \cup {c}
      BY <1>5, <1>6
    <3>2. \A d \in RowId : row[d].state = "ok" => RangeOf(row'[d]) = RangeOf(row[d])
      BY <1>5, <1>10
    <3>3. QED
      BY <2>1, <3>1, <3>2 DEF Done
  <2>4. FailedRows' = FailedRows \ {c} /\ c \in FailedRows
    BY <1>5, <1>6, <1>10 DEF FailedRows
  <2>5. \A d \in FailedRows : d # c => row'[d] = row[d]
    BY <1>5 DEF FailedRows
  <2>6. Owners' \subseteq Owners /\ Owners \ {r} \subseteq Owners'
    <3>1. /\ Owners = Fetching \cup {RangeOf(row[d]) : d \in FailedRows}
          /\ Owners' = Fetching \cup {RangeOf(row'[d]) : d \in FailedRows'}
      BY <1>8 DEF Owners, Fetching
    <3>2. \A d \in FailedRows' : d \in FailedRows /\ RangeOf(row'[d]) = RangeOf(row[d])
      BY <2>4, <2>5
    <3>3. \A d \in FailedRows : RangeOf(row[d]) # r => d \in FailedRows'
      BY <2>4 DEF r
    <3>4. QED
      BY <3>1, <3>2, <3>3
  <2>7. QED
    BY <1>1, <2>2, <2>3, <2>6, LedgerSettles
<1>11. QED
  BY <1>3, <1>4, <1>9, <1>10 DEF RowRecord

(* A lost lock: the copy put back answers for the range, or nobody does. *)
LEMMA LedgerStall ==
  ASSUME IInv, NEW j \in JobId, Stall(j)
  PROVE  Ledger!Next \/ UNCHANGED Ledger!vars
<1>1. /\ UNCHANGED <<table, row, windowStart>> /\ job[j].state # "free"
      /\ TypeOK /\ job[j] \in JobRecord
  BY DEF Stall, Running, IInv, TypeOK
<1>2. /\ Unlocked(j).from = job[j].from /\ Unlocked(j).to = job[j].to
      /\ Unlocked(j).cp = job[j].cp /\ Unlocked(j).locked = FALSE
  BY <1>1, UnlockedType DEF Unlocked, JobRecord
<1>3. CASE GivesUp(j)
  <2>1. /\ job' = [job EXCEPT ![j] = Unlocked(j)]
        /\ abandoned' = abandoned \cup Orphans({j})
    BY <1>3 DEF Stall
  <2>2. job'[j] = Unlocked(j) /\ \A k \in JobId : k # j => job'[k] = job[k]
    BY <1>1, <2>1 DEF TypeOK
  <2>3. j \notin LiveFetches'
    BY <1>2, <2>2 DEF LiveFetches
  <2>4. QED
    BY <1>1, <2>1, <2>2, <2>3, LedgerDropsOne
<1>4. CASE ~GivesUp(j)
  <2> DEFINE copy == WaitingJob(job[j], job[j].stalls + 1)
  <2>1. PICK k \in JobId :
          /\ job[k].state = "free"
          /\ job' = [job EXCEPT ![j] = Unlocked(j), ![k] = copy]
          /\ abandoned' = abandoned
    BY <1>4 DEF Stall, FreeSlots, Redelivered
  <2>2. /\ copy.state = "waiting" /\ copy.locked = TRUE
        /\ copy.from = job[j].from /\ copy.to = job[j].to /\ copy.cp = job[j].cp
    BY DEF WaitingJob
  <2> HIDE DEF copy
  <2>3. /\ k # j /\ job'[j] = Unlocked(j) /\ job'[k] = copy
        /\ \A i \in JobId : i # j /\ i # k => job'[i] = job[i]
    BY <1>1, <2>1 DEF TypeOK
  <2>4. /\ j \in LiveFetches <=> job[j].locked /\ IsFetch(j)
        /\ j \notin LiveFetches' /\ k \notin LiveFetches
        /\ k \in LiveFetches' <=> IsFetch(j)
        /\ RangeOf(job'[k]) = RangeOf(job[j])
        /\ job[j].locked
    BY <1>1, <1>2, <2>1, <2>2, <2>3 DEF LiveFetches, IsFetch, RangeOf, Stall
  <2>5. \A i \in JobId : i # j /\ i # k =>
          (i \in LiveFetches' <=> i \in LiveFetches) /\ RangeOf(job'[i]) = RangeOf(job[i])
    BY <2>3 DEF LiveFetches, IsFetch
  <2>6. \A i \in LiveFetches : \E l \in LiveFetches' : RangeOf(job'[l]) = RangeOf(job[i])
    BY <2>4, <2>5 DEF LiveFetches
  <2>7. \A l \in LiveFetches' : \E i \in LiveFetches : RangeOf(job'[l]) = RangeOf(job[i])
    BY <2>4, <2>5 DEF LiveFetches
  <2>8. Fetching' = Fetching
    BY <2>6, <2>7, FetchingKept
  <2>9. QED
    BY <1>1, <2>1, <2>8, LedgerStutters
<1>5. QED
  BY <1>3, <1>4

(* A restart: what is requeued is answered for as before, what is lost is on record. *)
LEMMA LedgerRestart ==
  ASSUME IInv, Restart PROVE Ledger!Next
<1> DEFINE Lost == {j \in Running : ~job[j].locked \/ GivesUp(j)}
           S == Orphans(Lost)
<1>1. /\ UNCHANGED <<table, row, windowStart>>
      /\ abandoned' = abandoned \cup S
      /\ \A j \in JobId :
           /\ j \notin Running => job'[j] = job[j]
           /\ j \in Lost => job'[j] = FreeJob
           /\ j \in Running \ Lost => job'[j] = WaitingJob(job[j], job[j].stalls + 1)
  BY DEF Restart, Redelivered
<1>2. /\ Lost \subseteq Running /\ Running \subseteq JobId
      /\ \A j \in Running \ Lost : job[j].locked
      /\ \A j \in Running : job[j].state # "free"
  BY DEF Running
<1>3. S \in SUBSET Fetching
  BY <1>2 DEF Orphans, Fetching, LiveFetches
<1>4. \A j \in LiveFetches : j \in Lost => RangeOf(job[j]) \in S
  BY DEF Orphans, LiveFetches
<1> HIDE DEF Lost, S
<1>5. ASSUME NEW j \in Running \ Lost
      PROVE  /\ job'[j].state = "waiting" /\ job'[j].locked = TRUE
             /\ job'[j].cp = job[j].cp /\ RangeOf(job'[j]) = RangeOf(job[j])
  <2>1. job'[j] = WaitingJob(job[j], job[j].stalls + 1)
    BY <1>1, <1>2
  <2>2. QED
    BY <2>1 DEF WaitingJob, RangeOf
<1>6. ASSUME NEW j \in JobId, j \notin Lost
      PROVE  (j \in LiveFetches' <=> j \in LiveFetches) /\ RangeOf(job'[j]) = RangeOf(job[j])
  <2>1. CASE j \in Running
    BY <1>2, <1>5, <1>6, <2>1 DEF LiveFetches, IsFetch
  <2>2. CASE j \notin Running
    BY <1>1, <2>2 DEF LiveFetches, IsFetch
  <2>3. QED
    BY <2>1, <2>2
<1>7. \A j \in JobId : j \in Lost => j \notin LiveFetches'
  BY <1>1 DEF LiveFetches, FreeJob
<1>8. Fetching' \subseteq Fetching
  BY <1>6, <1>7 DEF Fetching, LiveFetches
<1>9. Fetching \ S \subseteq Fetching'
  BY <1>4, <1>6 DEF Fetching, LiveFetches
<1>10. QED
  BY <1>1, <1>3, <1>8, <1>9, LedgerDrops

(* Every step of the indexer is a step of its ledger or leaves it as it is. *)
LEMMA LedgerStep == IInv /\ IInv' /\ [Next]_vars => [Ledger!Next]_(Ledger!vars)
<1> SUFFICES ASSUME IInv, IInv', [Next]_vars PROVE Ledger!Next \/ UNCHANGED Ledger!vars
  OBVIOUS
<1>0. TypeOK /\ TypeOK'
  BY DEF IInv
<1>1. CASE UNCHANGED vars
  BY <1>1, LedgerUntouched DEF vars
<1>2. CASE Grow
  BY <1>2, LedgerUntouched DEF Grow
<1>3. ASSUME NEW t \in TickId, StartTick(t) \/ ProbeFailed(t) \/ ReadHead(t)
      PROVE  UNCHANGED Ledger!vars
  BY <1>3, LedgerUntouched DEF StartTick, ProbeFailed, ReadHead
<1>4. ASSUME NEW t \in TickId, AddRefetch(t) PROVE UNCHANGED Ledger!vars
  <2>1. PICK r \in tick[t].todo : Enqueue(r)
    BY <1>4 DEF AddRefetch
  <2>2. r.cp # NoCheckpoint
    BY <1>4 DEF AddRefetch, IInv, TickInv
  <2>3. Fetching' = Fetching
    BY <1>0, <2>1, <2>2, LedgerEnqueue
  <2>4. QED
    BY <1>4, <2>3, LedgerStutters DEF AddRefetch
<1>5. ASSUME NEW t \in TickId, ReadLatest(t) PROVE Ledger!Next \/ UNCHANGED Ledger!vars
  <2>1. /\ UNCHANGED <<table, row, job, abandoned>>
        /\ windowStart' = windowStart
             \/ (OkEnds = {} /\ \E from \in StartBlocks : windowStart' = Greater(windowStart, from))
    BY <1>5 DEF ReadLatest
  <2>2. CASE windowStart' = windowStart
    BY <2>1, <2>2, LedgerUntouched
  <2>3. CASE OkEnds = {} /\ \E from \in StartBlocks : windowStart' = Greater(windowStart, from)
    <3>1. Done = {}
      BY <2>3 DEF Done, OkEnds
    <3>2. UNCHANGED <<RecordedBlocks, Owners, Done>>
      BY <2>1 DEF RecordedBlocks, Owners, LiveFetches, FailedRows, IsFetch, Done
    <3>3. windowStart' \in 0..MaxBlock /\ windowStart \in Int
      BY <1>0 DEF TypeOK
    <3>4. windowStart <= windowStart'
      <4>1. StartBlocks \subseteq Int
        BY <1>0, StartBlocksType DEF IInv
      <4>2. QED
        BY <2>3, <3>3, <4>1 DEF Greater
    <3>5. Ledger!MoveStart(windowStart')
      BY <2>1, <3>1, <3>2, <3>4 DEF Ledger!MoveStart
    <3>6. QED
      BY <3>3, <3>5 DEF Ledger!Next
  <2>4. QED
    BY <2>1, <2>2, <2>3
<1>6. ASSUME NEW j \in JobId, FetchLogs(j) PROVE UNCHANGED Ledger!vars
  <2>1. /\ UNCHANGED <<table, row, abandoned, windowStart>> /\ job[j].state # "free"
        /\ job' = [job EXCEPT ![j] = Moved(j, "writing", Fetched(job[j]))]
    BY <1>6 DEF FetchLogs, Admitted
  <2>2. Fetched(job[j]) \in SUBSET Event
    BY DEF Fetched
  <2>3. QED
    BY <1>0, <2>1, <2>2, LedgerMoves, LedgerStutters
<1>7. ASSUME NEW j \in JobId, SaveCheckpoint(j) \/ SaveFailedCheckpoint(j) PROVE Ledger!Next
  <2>1. CASE SaveCheckpoint(j)
    BY <2>1, LedgerInsertRow DEF SaveCheckpoint, Logged
  <2>2. CASE SaveFailedCheckpoint(j)
    BY <2>2, LedgerInsertRow DEF SaveFailedCheckpoint
  <2>3. QED
    BY <1>7, <2>1, <2>2
<1>8. ASSUME NEW j \in JobId, JobThrows(j) PROVE UNCHANGED Ledger!vars
  <2>1. /\ UNCHANGED <<table, row, abandoned, windowStart>> /\ job[j].state # "free"
        /\ job' = [job EXCEPT ![j] = Caught(j)]
    BY <1>8 DEF JobThrows, Admitted
  <2>2. CASE IsFetch(j)
    <3>1. job' = [job EXCEPT ![j] = Moved(j, "failing", {})]
      BY <2>1, <2>2 DEF Caught
    <3>2. {} \in SUBSET Event /\ "failing" \in {"writing", "failing"}
      OBVIOUS
    <3>3. QED
      BY <1>0, <2>1, <3>1, <3>2, LedgerMoves, LedgerStutters
  <2>3. CASE ~IsFetch(j)
    <3>1. job'[j] = FreeJob /\ \A k \in JobId : k # j => job'[k] = job[k]
      BY <1>0, <2>1, <2>3 DEF Caught, TypeOK
    <3>2. j \notin LiveFetches /\ j \notin LiveFetches'
      BY <2>3, <3>1 DEF LiveFetches, FreeJob
    <3>3. QED
      BY <2>1, <3>1, <3>2, FetchingEnds, LedgerStutters
  <2>4. QED
    BY <2>2, <2>3
<1>9. ASSUME NEW j \in JobId, SaveFailedThrows(j) PROVE Ledger!Next
  <2>1. /\ UNCHANGED <<table, row, windowStart>> /\ job[j].state # "free"
        /\ job' = [job EXCEPT ![j] = FreeJob] /\ abandoned' = abandoned \cup Orphans({j})
    BY <1>9 DEF SaveFailedThrows
  <2>2. job'[j] = FreeJob /\ \A k \in JobId : k # j => job'[k] = job[k]
    BY <1>0, <2>1 DEF TypeOK
  <2>3. j \notin LiveFetches'
    BY <2>2 DEF LiveFetches, FreeJob
  <2>4. QED
    BY <2>1, <2>2, <2>3, LedgerDropsOne
<1>10. ASSUME NEW t \in TickId, TickThrows(t) PROVE Ledger!Next \/ UNCHANGED Ledger!vars
  <2>1. CASE Mode = "CRAWL"
    BY <1>10, <2>1, LedgerRestart DEF TickThrows
  <2>2. CASE Mode # "CRAWL"
    BY <1>10, <2>2, LedgerUntouched DEF TickThrows
  <2>3. QED
    BY <2>1, <2>2
<1>11. CASE Crash
  BY <1>11, LedgerRestart DEF Crash
<1>12. ASSUME NEW t \in TickId, TickStep(t) PROVE Ledger!Next \/ UNCHANGED Ledger!vars
  BY <1>3, <1>4, <1>5, <1>12, LedgerAddFetch DEF TickStep
<1>13. ASSUME NEW j \in JobId, JobStep(j) PROVE Ledger!Next \/ UNCHANGED Ledger!vars
  BY <1>6, <1>7, <1>13, LedgerWriteEvent, LedgerClearFailed DEF JobStep
<1>14. QED
  BY <1>1, <1>2, <1>3, <1>8, <1>9, <1>10, <1>11, <1>12, <1>13, LedgerStall DEF Next

(* RangeFetch implements the ledger: through every interleaving and every fault a range
   taken on is answered for until it is settled or on record as given up. *)
THEOREM LedgerIsKept == Spec => KeepsLedger
<1>1. Init => Ledger!Init
  BY DEF Init, Ledger!Init, RecordedBlocks, Owners, LiveFetches, FailedRows, FreeJob, Done
<1>2. IInv /\ IInv' /\ [Next]_vars => [Ledger!Next]_(Ledger!vars)
  BY LedgerStep
<1>3. Spec => []IInv
  BY Invariance
<1>4. QED
  BY <1>1, <1>2, <1>3, PTL DEF Spec, KeepsLedger, Ledger!Spec

(* What the ledger promises for any indexer that keeps it. *)
LedgerInv ==
  /\ Owners \subseteq Ledger!Range /\ Done \subseteq Ledger!Range
  /\ windowStart \in 0..MaxBlock
  /\ Ledger!NothingForgotten

(* No entry of the ledger makes anybody who goes on at some block forget one before it. *)
LEMMA EntriesKeepSafe ==
  ASSUME LedgerInv, Ledger!Next, NEW s \in Int, Ledger!Safe(s)
  PROVE  Ledger!Safe(s)'
<1> SUFFICES ASSUME NEW b \in EventBlocks, windowStart' <= b, b < s
             PROVE  Ledger!Accounted(b, s)'
  BY DEF Ledger!Safe
<1>1. b \in Int /\ windowStart \in Int
  BY EventAssumption DEF EventBlocks, LedgerInv
<1>2. ASSUME windowStart' = windowStart PROVE Ledger!Accounted(b, s)
  BY <1>2 DEF Ledger!Safe
<1>3. ASSUME NEW c \in EventBlocks, Ledger!Record(c) PROVE Ledger!Accounted(b, s)'
  BY <1>2, <1>3 DEF Ledger!Record, Ledger!Accounted
<1>4. ASSUME NEW r \in Ledger!Range, Ledger!Owe(r) PROVE Ledger!Accounted(b, s)'
  BY <1>2, <1>4 DEF Ledger!Owe, Ledger!Accounted
<1>5. ASSUME NEW r \in Ledger!Range, Ledger!Settle(r) PROVE Ledger!Accounted(b, s)'
  <2>1. /\ UNCHANGED <<RecordedBlocks, abandoned, windowStart>>
        /\ windowStart <= b /\ Ledger!Holds(r, b) => Ledger!Accounted(b, r.to + 1)'
    BY <1>5 DEF Ledger!Settle
  <2>2. PICK T \in SUBSET {r} : Owners' = Owners \ T
    BY <1>5 DEF Ledger!Settle, Ledger!Release
  <2>3. Ledger!Accounted(b, s) /\ windowStart <= b
    BY <1>2, <2>1
  <2>4. CASE Ledger!Holds(r, b) /\ r.to < s
    <3>1. Ledger!Accounted(b, r.to + 1)'
      BY <2>1, <2>3, <2>4
    <3>2. ASSUME NEW q \in Owners', q.to < r.to + 1 PROVE q.to < s
      <4>1. q \in Ledger!Range /\ q.to \in Int /\ r.to \in Int
        BY <2>2 DEF LedgerInv, Ledger!Range
      <4>2. QED
        BY <2>4, <3>2, <4>1
    <3>3. QED
      BY <3>1, <3>2 DEF Ledger!Accounted
  <2>5. CASE ~(Ledger!Holds(r, b) /\ r.to < s)
    BY <2>1, <2>2, <2>3, <2>5 DEF Ledger!Accounted
  <2>6. QED
    BY <2>4, <2>5
<1>6. ASSUME NEW S \in SUBSET Owners, Ledger!Drop(S) PROVE Ledger!Accounted(b, s)'
  <2>1. PICK T \in SUBSET S : Owners' = Owners \ T
    BY <1>6 DEF Ledger!Drop, Ledger!Release
  <2>2. /\ abandoned' = abandoned \cup S
        /\ UNCHANGED <<RecordedBlocks, windowStart>>
    BY <1>6 DEF Ledger!Drop
  <2>3. Ledger!Accounted(b, s)
    BY <1>2, <2>2
  <2>4. QED
    BY <2>1, <2>2, <2>3 DEF Ledger!Accounted
<1>7. ASSUME NEW d \in 0..MaxBlock, Ledger!MoveStart(d) PROVE Ledger!Accounted(b, s)'
  <2>1. windowStart <= b
    BY <1>1, <1>7 DEF Ledger!MoveStart
  <2>2. Ledger!Accounted(b, s)
    BY <2>1 DEF Ledger!Safe
  <2>3. QED
    BY <1>7, <2>2 DEF Ledger!MoveStart, Ledger!Accounted
<1>8. QED
  BY <1>3, <1>4, <1>5, <1>6, <1>7 DEF Ledger!Next

(* What is settled from a safe start on reaches to a safe start. *)
LEMMA SettledIsSafe ==
  ASSUME LedgerInv, NEW r \in Ledger!Range, Ledger!Settle(r), Ledger!Safe(r.from)'
  PROVE  Ledger!Safe(r.to + 1)'
<1> SUFFICES ASSUME NEW b \in EventBlocks, windowStart' <= b, b < r.to + 1
             PROVE  Ledger!Accounted(b, r.to + 1)'
  BY DEF Ledger!Safe
<1>1. b \in Int /\ r.from \in Int /\ r.to \in Int /\ r.from <= r.to
  BY EventAssumption DEF EventBlocks, Ledger!Range
<1>2. CASE r.from <= b
  BY <1>1, <1>2 DEF Ledger!Settle, Ledger!Holds
<1>3. CASE b < r.from
  <2>1. Ledger!Accounted(b, r.from)'
    BY <1>3 DEF Ledger!Safe
  <2>2. \A q \in Owners' : q.to \in Int
    <3>1. Owners' \subseteq Owners
      BY DEF Ledger!Settle, Ledger!Release
    <3>2. QED
      BY <3>1 DEF LedgerInv, Ledger!Range
  <2>3. \A q \in Owners' : q.to < r.from => q.to < r.to + 1
    BY <1>1, <2>2
  <2>4. QED
    BY <2>1, <2>3 DEF Ledger!Accounted
<1>4. QED
  BY <1>1, <1>2, <1>3

(* To keep the ledger is enough: whoever does forgets no block below a range declared
   successful. *)
THEOREM LedgerForgetsNothing == KeepsLedger => []NoSilentGap
<1>1. Ledger!Init => LedgerInv
  BY ConfigAssumption DEF Ledger!Init, LedgerInv, Ledger!NothingForgotten
<1>2. ASSUME LedgerInv, Ledger!Next PROVE LedgerInv'
  <2>1. windowStart' \in 0..MaxBlock
    BY <1>2 DEF LedgerInv, Ledger!Next, Ledger!Record, Ledger!Owe, Ledger!Settle, Ledger!Drop,
                Ledger!MoveStart
  <2>2. Owners' \subseteq Ledger!Range
    BY <1>2 DEF LedgerInv, Ledger!Next, Ledger!Record, Ledger!Owe, Ledger!Settle, Ledger!Drop,
                Ledger!MoveStart, Ledger!Release
  <2>3. Done' = Done \/ \E r \in Ledger!Range : Done' = Done \cup {r} /\ Ledger!Settle(r)
    BY <1>2 DEF Ledger!Next, Ledger!Record, Ledger!Owe, Ledger!Settle, Ledger!Drop,
                Ledger!MoveStart
  <2>4. \A q \in Done : q.to + 1 \in Int /\ Ledger!Safe(q.to + 1)
    BY <1>2 DEF LedgerInv, Ledger!NothingForgotten, Ledger!Range
  <2>5. \A q \in Done : Ledger!Safe(q.to + 1)'
    BY <1>2, <2>4, EntriesKeepSafe
  <2>6. CASE Done' = Done
    BY <2>1, <2>2, <2>5, <2>6, <1>2 DEF LedgerInv, Ledger!NothingForgotten
  <2>7. ASSUME NEW r \in Ledger!Range, Done' = Done \cup {r}, Ledger!Settle(r)
        PROVE  LedgerInv'
    <3>1. r.from \in Int /\ Ledger!Safe(r.from)
      BY <2>7 DEF Ledger!Range, Ledger!Settle
    <3>2. Ledger!Safe(r.from)'
      BY <1>2, <3>1, EntriesKeepSafe
    <3>3. Ledger!Safe(r.to + 1)'
      BY <1>2, <2>7, <3>2, SettledIsSafe
    <3>4. \A q \in Done' : Ledger!Safe(q.to + 1)'
      BY <2>5, <2>7, <3>3
    <3>5. Done' \subseteq Ledger!Range
      BY <1>2, <2>7 DEF LedgerInv
    <3>6. QED
      BY <2>1, <2>2, <3>4, <3>5 DEF LedgerInv, Ledger!NothingForgotten
  <2>8. QED
    BY <2>3, <2>6, <2>7
<1>3. ASSUME LedgerInv, UNCHANGED Ledger!vars PROVE LedgerInv'
  BY <1>3 DEF LedgerInv, Ledger!vars, Ledger!NothingForgotten, Ledger!Safe, Ledger!Accounted
<1>4. LedgerInv => NoSilentGap
  <2> SUFFICES ASSUME LedgerInv, NEW c \in RowId, row[c].state = "ok"
               PROVE  row[c].to + 1 \in SafeStarts
    BY DEF NoSilentGap
  <2>1. RangeOf(row[c]) \in Done /\ RangeOf(row[c]).to = row[c].to
    BY DEF Done, RangeOf
  <2>2. Ledger!Safe(row[c].to + 1) /\ row[c].to \in 0..MaxBlock
    BY <2>1 DEF LedgerInv, Ledger!NothingForgotten, Ledger!Range
  <2>3. ASSUME NEW e \in Valid, windowStart <= Block[e], Block[e] < row[c].to + 1
        PROVE  Block[e] \in RecordedBlocks \/ Abandoned(Block[e]) \/ Owned(Block[e], row[c].to + 1)
    <3>1. Ledger!Accounted(Block[e], row[c].to + 1)
      BY <2>2, <2>3 DEF Ledger!Safe, EventBlocks
    <3>2. QED
      BY <3>1 DEF Ledger!Accounted, Ledger!Holds, Abandoned, Owned, InRange
  <2>4. QED
    BY <2>2, <2>3, ConfigAssumption DEF SafeStarts
<1>5. QED
  BY <1>1, <1>2, <1>3, <1>4, PTL DEF KeepsLedger, Ledger!Spec
=============================================================================
