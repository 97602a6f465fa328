----------------------------- MODULE RestProofs -----------------------------
(***************************************************************************)
(* Machine-checked proofs of what RangeFetch leaves in its tables when no  *)
(* fault happens: nothing is missing, a transaction keeps its last event,  *)
(* and, without overlapping ticks, no block is fetched twice.              *)
(***************************************************************************)
EXTENDS RangeFetchProofs

(* What becomes of a queued or running job in a step: its events are all in the table, or
   a job of the same range goes on. *)
JobsDone(j) == \A e \in Valid : InRange(Block[e], job[j]) => table'[Tx[e]] # 0
JobGoesOn(j) == \E i \in JobId :
  job'[i].state # "free" /\ job'[i].from = job[j].from /\ job'[i].to = job[j].to

(***************************************************************************)
(* Common to the steps                                                     *)
(***************************************************************************)
(* Blocks below which nothing is missing stay such when no row is forgotten and each
   job goes on or is done. *)
LEMMA CompleteKept ==
  ASSUME TypeOK, TypeOK', windowStart <= windowStart', TableKept,
         \A j \in JobId : job[j].state # "free" => JobGoesOn(j) \/ JobsDone(j)
  PROVE  CompleteStarts \subseteq CompleteStarts'
<1> SUFFICES ASSUME NEW s \in CompleteStarts, NEW e \in Valid,
                    windowStart' <= Block[e], Block[e] < s
             PROVE  \/ table'[Tx[e]] # 0
                    \/ \E i \in JobId : job'[i].state # "free" /\ InRange(Block[e], job'[i])
                                        /\ job'[i].to < s
  BY DEF CompleteStarts
<1>1. windowStart <= Block[e] /\ Tx[e] \in TxHash
  BY EventAssumption DEF TypeOK
<1>2. CASE table[Tx[e]] # 0
  BY <1>1, <1>2 DEF TableKept
<1>3. ASSUME NEW j \in JobId, job[j].state # "free", InRange(Block[e], job[j]), job[j].to < s
      PROVE  \/ table'[Tx[e]] # 0
             \/ \E i \in JobId : job'[i].state # "free" /\ InRange(Block[e], job'[i])
                                 /\ job'[i].to < s
  BY <1>3 DEF JobGoesOn, JobsDone, InRange
<1>4. QED
  BY <1>1, <1>2, <1>3 DEF CompleteStarts

(* A step of one tick that plans nothing, or no step of any. *)
LEMMA TickOnlyRest ==
  ASSUME IInv, IInv', Calm, CompleteSoFar,
         UNCHANGED <<table, row, job, windowStart, abandoned>>,
         \A u \in TickId : tick'[u] = tick[u] \/ (tick'[u].probe = {} /\ tick'[u].todo = {})
  PROVE  /\ Calm' /\ CompleteSoFar' /\ (LaterToCome => LaterToCome')
         /\ AllApart => AllApart'
<1>1. CompleteStarts' = CompleteStarts
  BY DEF CompleteStarts
<1>2. Calm'
  BY DEF Calm, IsFetch
<1>3. CompleteSoFar'
  BY <1>1 DEF CompleteSoFar
<1>4. LaterToCome => LaterToCome'
  BY DEF LaterToCome
<1>5. AllApart => AllApart'
  BY DEF AllApart
<1>6. QED
  BY <1>2, <1>3, <1>4, <1>5

(* A job that goes on with its range, while the rows it finds are kept. *)
LEMMA MoveRest ==
  ASSUME IInv, IInv', Calm, CompleteSoFar, TableKept,
         UNCHANGED <<row, tick, windowStart, abandoned>>,
         NEW j \in JobId, job[j].state # "free", job'[j].state = "writing",
         job'[j].from = job[j].from, job'[j].to = job[j].to, job'[j].cp = job[j].cp,
         \A i \in JobId : i # j => job'[i] = job[i]
  PROVE  /\ Calm' /\ CompleteSoFar'
         /\ OneTick /\ AllApart => OneTick' /\ AllApart'
<1>1. /\ \A i \in JobId : /\ job'[i].state # "free" <=> job[i].state # "free"
                          /\ job'[i].from = job[i].from /\ job'[i].to = job[i].to
                          /\ job'[i].cp = job[i].cp
  OBVIOUS
<1>2. CompleteStarts \subseteq CompleteStarts'
  <2>1. \A i \in JobId : job[i].state # "free" => JobGoesOn(i)
    BY <1>1 DEF JobGoesOn
  <2>2. TypeOK /\ TypeOK' /\ windowStart <= windowStart'
    BY DEF IInv, TypeOK
  <2>3. QED
    BY <2>1, <2>2, CompleteKept
<1>3. Calm'
  BY <1>1 DEF Calm, IsFetch
<1>4. CompleteSoFar'
  BY <1>1, <1>2 DEF CompleteSoFar
<1>5. OneTick => OneTick'
  BY <1>1 DEF OneTick, FreeSlots
<1>6. AllApart => AllApart'
  BY <1>1 DEF AllApart, Apart
<1>7. QED
  BY <1>3, <1>4, <1>5, <1>6

(***************************************************************************)
(* The steps of a tick                                                     *)
(***************************************************************************)
(* A tick starts with no failed checkpoint to look at, and alone when ticks do not
   overlap. *)
LEMMA StartTickRest ==
  ASSUME IInv, IInv', Calm, CompleteSoFar, NEW t \in TickId, StartTick(t)
  PROVE  /\ Calm' /\ CompleteSoFar' /\ (LaterToCome => LaterToCome')
         /\ ~Overlap /\ OneTick /\ AllApart => OneTick' /\ AllApart'
<1>1. /\ UNCHANGED <<table, row, job, windowStart, abandoned>>
      /\ Overlap \/ Quiet
      /\ tick' = [tick EXCEPT ![t] =
           Ticking("refetching", {c \in RowId : row[c].state = "failed"}, {})]
  BY DEF StartTick
<1>2. /\ tick'[t].pc = "refetching" /\ tick'[t].probe = {} /\ tick'[t].todo = {}
      /\ \A u \in TickId : u # t => tick'[u] = tick[u]
  BY <1>1 DEF IInv, TypeOK, Calm, Ticking
<1>3. ~Overlap => OneTick'
  BY <1>1, <1>2 DEF OneTick, Quiet, FreeSlots
<1>4. QED
  BY <1>1, <1>2, <1>3, TickOnlyRest

(* The head is read when the failed checkpoints have been dealt with. *)
LEMMA ReadHeadRest ==
  ASSUME IInv, IInv', Calm, CompleteSoFar, NEW t \in TickId, ReadHead(t)
  PROVE  /\ Calm' /\ CompleteSoFar' /\ (LaterToCome => LaterToCome')
         /\ OneTick /\ AllApart => OneTick' /\ AllApart'
<1>1. /\ UNCHANGED <<table, row, job, windowStart, abandoned>>
      /\ tick[t].pc = "refetching"
      /\ tick' = [tick EXCEPT ![t] = Ticking("latest", {}, {})]
  BY DEF ReadHead
<1>2. /\ tick'[t].pc = "latest" /\ tick'[t].probe = {} /\ tick'[t].todo = {}
      /\ \A u \in TickId : u # t => tick'[u] = tick[u]
  BY <1>1 DEF IInv, TypeOK, Ticking
<1>3. OneTick => OneTick'
  BY <1>1, <1>2 DEF OneTick, FreeSlots
<1>4. QED
  BY <1>1, <1>2, <1>3, TickOnlyRest

(* Two ranges of one plan have no block in common: their first blocks are a multiple of
   the split value apart. *)
LEMMA SplitApart ==
  ASSUME NEW from \in Int, NEW to \in Int, NEW m \in Nat \ {0},
         NEW r \in SplitIntoRanges(from, to, m), NEW q \in SplitIntoRanges(from, to, m),
         r # q
  PROVE  Apart(r, q)
<1>1. PICK a \in LoopStarts(from, to - 1, m) : r = [from |-> a, to |-> Lesser(a + m - 1, to)]
  BY DEF SplitIntoRanges
<1>2. PICK b \in LoopStarts(from, to - 1, m) : q = [from |-> b, to |-> Lesser(b + m - 1, to)]
  BY DEF SplitIntoRanges
<1>3. PICK i \in 0..(to - 1 - from) : a = from + i * m
  BY DEF LoopStarts
<1>4. PICK k \in 0..(to - 1 - from) : b = from + k * m
  BY DEF LoopStarts
<1>5. a \in Int /\ b \in Int /\ a # b /\ i # k
  BY <1>1, <1>2, <1>3, <1>4 DEF LoopStarts
<1>6. ASSUME NEW x \in Nat, NEW y \in Nat, x < y PROVE x * m + m <= y * m
  <2>1. y - x - 1 \in Nat /\ (y - x - 1) * m \in Nat
    BY <1>6
  <2>2. (y - x - 1) * m = y * m - (x * m + m)
    BY <1>6
  <2>3. QED
    BY <2>1, <2>2, <1>6
<1>7. CASE i < k
  <2>1. i * m + m <= k * m
    BY <1>6, <1>7
  <2>2. a + m <= b
    BY <2>1, <1>3, <1>4, <1>5
  <2>3. QED
    BY <2>2, <1>1, <1>2, <1>5 DEF Apart, Lesser
<1>8. CASE k < i
  <2>1. k * m + m <= i * m
    BY <1>6, <1>8
  <2>2. b + m <= a
    BY <2>1, <1>3, <1>4, <1>5
  <2>3. QED
    BY <2>2, <1>1, <1>2, <1>5 DEF Apart, Lesser
<1>9. QED
  BY <1>5, <1>7, <1>8

(* The next window starts right after all that has been fetched, or before it nothing
   had been. *)
LEMMA ReadLatestRest ==
  ASSUME IInv, IInv', Calm, CompleteSoFar, NEW t \in TickId, ReadLatest(t)
  PROVE  /\ Calm' /\ CompleteSoFar' /\ (LaterToCome => LaterToCome')
         /\ OneTick /\ AllApart => OneTick' /\ AllApart'
<1>1. PICK from \in StartBlocks :
        /\ tick' = [tick EXCEPT ![t] =
             IF Plan(from) = {} THEN IdleTick ELSE Ticking("adding", {}, Plan(from))]
        /\ windowStart' = IF OkEnds = {} THEN Greater(windowStart, from) ELSE windowStart
  BY DEF ReadLatest, Plan
<1>2. /\ UNCHANGED <<table, row, job, newestBlock, abandoned>>
      /\ tick[t].pc = "latest"
  BY DEF ReadLatest
<1>3. TypeOK /\ TypeOK' /\ windowStart \in Int /\ newestBlock \in Int
  BY DEF IInv, TypeOK
<1>4. from \in 0..(MaxBlock + 1)
  BY <1>3, StartBlocksType
<1>5. windowStart <= windowStart' /\ (OkEnds = {} => from <= windowStart')
  BY <1>1, <1>3, <1>4 DEF Greater
<1>6. CompleteStarts \subseteq CompleteStarts'
  <2>1. TableKept /\ \A j \in JobId : job[j].state # "free" => JobGoesOn(j)
    BY <1>2 DEF TableKept, JobGoesOn
  <2>2. QED
    BY <2>1, <1>3, <1>5, CompleteKept
<1>7. from \in CompleteStarts'
  <2>1. CASE OkEnds = {}
    <3>1. \A e \in Valid : ~(windowStart' <= Block[e] /\ Block[e] < from)
      BY <2>1, <1>3, <1>4, <1>5, EventAssumption DEF TypeOK
    <3>2. QED
      BY <3>1, <1>4 DEF CompleteStarts
  <2>2. CASE OkEnds # {}
    <3>1. PICK c \in RowId : row[c].state = "ok" /\ from = row[c].to + 1
      BY <2>2 DEF StartBlocks, LatestEnd, OkEnds
    <3>2. QED
      BY <3>1, <1>6 DEF CompleteSoFar
  <2>3. QED
    BY <2>1, <2>2
<1>8. \A r \in Plan(from) :
        /\ r \in Tasks /\ r.cp = NoCheckpoint
        /\ from <= r.from /\ r.from <= r.to /\ r.to <= newestBlock
        /\ r.from = from \/ \E q \in Plan(from) : q.to + 1 = r.from
  BY <1>3, <1>4, PlanTasks
<1>9. /\ \A u \in TickId : u # t => tick'[u] = tick[u]
      /\ tick'[t].probe = {} /\ tick'[t].todo = Plan(from)
      /\ tick'[t].pc \in {"idle", "adding"}
      /\ tick'[t].pc # "adding" => tick'[t].todo = {}
  BY <1>1, <1>3 DEF TypeOK, Ticking, IdleTick
<1>10. Calm'
  BY <1>2, <1>9 DEF Calm, IsFetch
<1>11. CompleteSoFar'
  <2>1. \A r \in tick'[t].todo :
          r.from \in CompleteStarts' \/ \E q \in tick'[t].todo : q.to + 1 = r.from
    BY <1>7, <1>8, <1>9
  <2>2. QED
    BY <2>1, <1>2, <1>6, <1>9 DEF CompleteSoFar
<1>12. LaterToCome => LaterToCome'
  BY <1>2 DEF LaterToCome
<1>13. OneTick => OneTick'
  BY <1>2, <1>9 DEF OneTick, FreeSlots
<1>14. ASSUME OneTick, AllApart PROVE AllApart'
  <2>1. \A j \in JobId : job[j].state = "free"
    BY <1>2, <1>14 DEF OneTick, FreeSlots
  <2>2. \A u \in TickId : u # t => tick'[u].todo = {}
    BY <1>2, <1>9, <1>14 DEF OneTick, Calm
  <2>3. ASSUME NEW r \in Plan(from), NEW q \in Plan(from), r # q PROVE Apart(r, q)
    <3>1. PICK x \in SplitIntoRanges(from, newestBlock, SplitValue) :
            r = [from |-> x.from, to |-> x.to, cp |-> NoCheckpoint]
      BY DEF Plan
    <3>2. PICK y \in SplitIntoRanges(from, newestBlock, SplitValue) :
            q = [from |-> y.from, to |-> y.to, cp |-> NoCheckpoint]
      BY DEF Plan
    <3>3. x # y /\ from \in Int /\ SplitValue \in Nat \ {0}
      BY <2>3, <3>1, <3>2, <1>4, ConfigAssumption
    <3>4. Apart(x, y)
      BY <3>3, <1>3, SplitApart
    <3>5. QED
      BY <3>1, <3>2, <3>4 DEF Apart
  <2>4. ASSUME NEW r \in Plan(from), NEW c \in RowId, row[c].state = "ok" PROVE Apart(r, row[c])
    <3>1. OkEnds # {} /\ row[c].to \in OkEnds
      BY <2>4 DEF OkEnds
    <3>2. PICK m \in OkEnds : from = m + 1 /\ \A n \in OkEnds : n <= m
      BY <3>1 DEF StartBlocks, LatestEnd
    <3>3. row[c].to \in Int /\ from \in Int /\ row[c].to < from
      <4>1. OkEnds \subseteq Int
        BY <1>3 DEF OkEnds, TypeOK, RowRecord
      <4>2. m \in Int /\ row[c].to \in Int /\ row[c].to <= m
        BY <3>1, <3>2, <4>1
      <4>3. QED
        BY <3>2, <4>2
    <3>4. QED
      BY <3>3, <1>4, <1>8 DEF Apart, Tasks
  <2>5. \A u \in TickId : \A r \in tick'[u].todo :
          u = t /\ r \in Plan(from)
    BY <2>2, <1>9
  <2>6. \A c, d \in RowId :
          c # d /\ row[c].state = "ok" /\ row[d].state = "ok" => Apart(row[c], row[d])
    BY <1>14 DEF AllApart
  <2>7. QED
    BY <2>1, <2>3, <2>4, <2>5, <2>6, <1>2 DEF AllApart
<1>15. QED
  BY <1>10, <1>11, <1>12, <1>13, <1>14

(* A planned range goes into the queue; those after it wait for it. *)
LEMMA AddFetchRest ==
  ASSUME IInv, IInv', Calm, CompleteSoFar, NEW t \in TickId, AddFetch(t)
  PROVE  /\ Calm' /\ CompleteSoFar' /\ (LaterToCome => LaterToCome')
         /\ OneTick /\ AllApart => OneTick' /\ AllApart'
<1>1. PICK r \in tick[t].todo :
        /\ Lowest(r, tick[t].todo)
        /\ Enqueue(r)
        /\ tick' = [tick EXCEPT ![t] =
             IF tick[t].todo = {r} THEN IdleTick ELSE Ticking("adding", {}, tick[t].todo \ {r})]
  BY DEF AddFetch
<1>2. /\ UNCHANGED <<table, row, abandoned, windowStart>>
      /\ tick[t].pc = "adding"
  BY DEF AddFetch
<1>3. TypeOK /\ TypeOK' /\ TickInv(t) /\ windowStart <= windowStart'
  BY <1>2 DEF IInv, TypeOK
<1>4. tick[t].todo \subseteq Tasks
  BY <1>3 DEF TypeOK, TickRecord
<1>5. r \in Tasks /\ r.cp = NoCheckpoint /\ r.from <= r.to
  BY <1>2, <1>3, <1>4 DEF TickInv
<1>6. PICK j \in JobId : job[j].state = "free" /\ job' = [job EXCEPT ![j] = WaitingJob(r, 0)]
  BY <1>1 DEF Enqueue, FreeSlots
<1>7. /\ \A i \in JobId : i # j => job'[i] = job[i]
      /\ job'[j].state = "waiting" /\ job'[j].from = r.from /\ job'[j].to = r.to
      /\ job'[j].cp = NoCheckpoint /\ job'[j].left = {}
  BY <1>3, <1>5, <1>6 DEF TypeOK, WaitingJob
<1>8. /\ \A u \in TickId : u # t => tick'[u] = tick[u]
      /\ tick'[t].probe = {} /\ tick'[t].todo = tick[t].todo \ {r}
      /\ tick'[t].pc \in {"idle", "adding"}
      /\ tick'[t].pc # "adding" => tick'[t].todo = {}
  BY <1>1, <1>3 DEF TypeOK, Ticking, IdleTick
<1>9. CompleteStarts \subseteq CompleteStarts'
  <2>1. TableKept /\ \A i \in JobId : job[i].state # "free" => JobGoesOn(i)
    BY <1>2, <1>6, <1>7 DEF TableKept, JobGoesOn
  <2>2. QED
    BY <2>1, <1>3, CompleteKept
<1>10. r.from \in CompleteStarts
  <2>1. ASSUME NEW q \in tick[t].todo, q.to + 1 = r.from PROVE FALSE
    <3>1. r.from <= q.from /\ q.from <= q.to
      BY <1>1, <1>3 DEF Lowest, TickInv
    <3>2. QED
      BY <2>1, <3>1, <1>4 DEF Tasks
  <2>2. QED
    BY <2>1 DEF CompleteSoFar
<1>11. r.to + 1 \in CompleteStarts'
  <2>1. r.from \in Int /\ r.to \in Int /\ r.to + 1 \in 0..(MaxBlock + 1)
    BY <1>5, ConfigAssumption DEF Tasks
  <2>2. ASSUME NEW e \in Valid, windowStart' <= Block[e], Block[e] < r.to + 1
        PROVE  \/ table'[Tx[e]] # 0
               \/ \E i \in JobId : job'[i].state # "free" /\ InRange(Block[e], job'[i])
                                   /\ job'[i].to < r.to + 1
    <3>1. Block[e] \in Int
      BY EventAssumption
    <3>2. CASE r.from <= Block[e]
      BY <3>1, <3>2, <2>1, <2>2, <1>7 DEF InRange
    <3>3. CASE Block[e] < r.from
      <4>1. \/ table'[Tx[e]] # 0
            \/ \E i \in JobId : job'[i].state # "free" /\ InRange(Block[e], job'[i])
                                /\ job'[i].to < r.from
        BY <3>3, <2>2, <1>9, <1>10 DEF CompleteStarts
      <4>2. \A i \in JobId : job'[i].to \in Int
        BY <1>3 DEF TypeOK, JobRecord
      <4>3. QED
        BY <4>1, <4>2, <2>1, <1>5
    <3>4. QED
      BY <3>1, <3>2, <3>3, <2>1
  <2>3. QED
    BY <2>1, <2>2 DEF CompleteStarts
<1>12. Calm'
  <2>1. \A i \in JobId : job'[i].state # "failing" /\ job'[i].cp = NoCheckpoint
    BY <1>7 DEF Calm, IsFetch
  <2>2. QED
    BY <2>1, <1>2, <1>8 DEF Calm, IsFetch
<1>13. CompleteSoFar'
  <2>1. ASSUME NEW q \in tick'[t].todo
        PROVE  q.from \in CompleteStarts' \/ \E p \in tick'[t].todo : p.to + 1 = q.from
    <3>1. q.from \in CompleteStarts' \/ \E p \in tick[t].todo : p.to + 1 = q.from
      BY <1>8, <1>9 DEF CompleteSoFar
    <3>2. QED
      BY <3>1, <1>8, <1>11
  <2>2. \A i \in JobId : job'[i].state # "free" => job'[i].from \in CompleteStarts'
    BY <1>7, <1>9, <1>10 DEF CompleteSoFar
  <2>3. \A c \in RowId : row'[c].state = "ok" => row'[c].to + 1 \in CompleteStarts'
    BY <1>2, <1>9 DEF CompleteSoFar
  <2>4. \A u \in TickId : u # t => \A q \in tick'[u].todo :
          q.from \in CompleteStarts' \/ \E p \in tick'[u].todo : p.to + 1 = q.from
    BY <1>8, <1>9 DEF CompleteSoFar
  <2>5. QED
    BY <2>1, <2>2, <2>3, <2>4 DEF CompleteSoFar
<1>14. LaterToCome => LaterToCome'
  BY <1>2, <1>6, <1>7 DEF LaterToCome
<1>15. OneTick => OneTick'
  BY <1>2, <1>8 DEF OneTick
<1>16. ASSUME OneTick, AllApart PROVE AllApart'
  <2>1. \A c \in RowId : row[c].state = "ok" => Apart(r, row[c]) /\ Apart(row[c], r)
    BY <1>16 DEF AllApart, Apart
  <2>2. \A i \in JobId : job[i].state # "free" => Apart(r, job[i]) /\ Apart(job[i], r)
    BY <1>16 DEF AllApart, Apart
  <2>3. \A i \in JobId : job'[i].state # "free" =>
          \A k \in JobId : i # k /\ job'[k].state # "free" => Apart(job'[i], job'[k])
    BY <2>2, <1>7, <1>16 DEF AllApart, Apart
  <2>4. \A c \in RowId, i \in JobId :
          row'[c].state = "ok" /\ job'[i].state # "free" => Apart(row'[c], job'[i])
    BY <2>1, <1>2, <1>7, <1>16 DEF AllApart, Apart
  <2>5. ASSUME NEW u \in TickId, NEW q \in tick'[u].todo
        PROVE  /\ \A p \in tick'[u].todo : q # p => Apart(q, p)
               /\ \A c \in RowId : row'[c].state = "ok" => Apart(q, row'[c])
               /\ \A i \in JobId : job'[i].state # "free" => Apart(q, job'[i])
    <3>1. q \in tick[u].todo /\ tick'[u].todo \subseteq tick[u].todo
      BY <1>8
    <3>2. Apart(q, r)
      <4>1. CASE u = t
        BY <4>1, <3>1, <1>8, <1>16 DEF AllApart
      <4>2. CASE u # t
        BY <4>2, <3>1, <1>2, <1>16 DEF OneTick, Calm
      <4>3. QED
        BY <4>1, <4>2
    <3>3. QED
      BY <3>1, <3>2, <1>2, <1>7, <1>16 DEF AllApart, Apart
  <2>6. QED
    BY <2>3, <2>4, <2>5, <1>2, <1>16 DEF AllApart
<1>17. QED
  BY <1>12, <1>13, <1>14, <1>15, <1>16

(***************************************************************************)
(* The steps of a job                                                      *)
(***************************************************************************)
(* The batches of a job return exactly the events of its range. *)
LEMMA FetchedRange ==
  ASSUME TypeOK, NEW j \in JobId, NEW e \in Event
  PROVE  e \in Fetched(job[j]) <=> InRange(Block[e], job[j])
<1>1. Block[e] \in Int /\ MaxQueryBlockRange \in Nat \ {0}
      /\ job[j].from \in Int /\ job[j].to \in Int
  BY EventAssumption, ConfigAssumption DEF TypeOK, JobRecord
<1>2. (\E q \in CreateBatches(job[j].from, job[j].to, MaxQueryBlockRange) : InRange(Block[e], q))
        <=> job[j].from <= Block[e] /\ Block[e] <= job[j].to
  BY <1>1, BatchesCover
<1>3. QED
  BY <1>2 DEF Fetched, InRange

(* A job that has fetched its logs has all the events of its range left to write. *)
LEMMA FetchLogsRest ==
  ASSUME IInv, IInv', Calm, CompleteSoFar, \A i \in JobId : WritesUpwards(i),
         NEW j \in JobId, FetchLogs(j)
  PROVE  /\ Calm' /\ CompleteSoFar' /\ (LaterToCome => LaterToCome')
         /\ OneTick /\ AllApart => OneTick' /\ AllApart'
<1>1. /\ UNCHANGED <<table, row, tick, abandoned, windowStart>>
      /\ job' = [job EXCEPT ![j] = Moved(j, "writing", Fetched(job[j]))]
      /\ job[j].state = "waiting"
  BY DEF FetchLogs, Admitted
<1>2. TypeOK /\ job[j] \in JobRecord /\ JobInv(j)
  BY DEF IInv, TypeOK
<1>3. Fetched(job[j]) \in SUBSET Event
  BY DEF Fetched
<1>4. /\ job'[j].state = "writing" /\ job'[j].left = Fetched(job[j])
      /\ job'[j].from = job[j].from /\ job'[j].to = job[j].to /\ job'[j].cp = job[j].cp
      /\ \A i \in JobId : i # j => job'[i] = job[i]
  BY <1>1, <1>2, <1>3, MovedType DEF TypeOK
<1>5. ASSUME LaterToCome PROVE LaterToCome'
  <2>1. ASSUME NEW e \in job[j].left PROVE e \in job'[j].left
    BY <1>1, <1>2, <1>4, <2>1, FetchedRange DEF JobInv, JobRecord
  <2>2. ASSUME NEW e \in Valid, NEW i \in JobId, job[i].state # "free", e \in job[i].left
        PROVE  job'[i].state # "free" /\ e \in job'[i].left
    BY <2>1, <2>2, <1>4
  <2>3. QED
    BY <2>2, <1>1, <1>5 DEF LaterToCome
<1>6. TableKept
  BY <1>1 DEF TableKept
<1>7. QED
  BY <1>1, <1>4, <1>5, <1>6, MoveRest

(* The event written is the lowest left: the later ones of its transaction, which lie in
   the same block, are still left to the same job. *)
LEMMA WriteEventRest ==
  ASSUME IInv, IInv', Calm, CompleteSoFar, \A i \in JobId : WritesUpwards(i),
         NEW j \in JobId, WriteEvent(j)
  PROVE  /\ Calm' /\ CompleteSoFar' /\ (LaterToCome => LaterToCome')
         /\ OneTick /\ AllApart => OneTick' /\ AllApart'
<1>1. PICK e \in job[j].left :
        /\ NextLog(e, job[j].left)
        /\ job' = [job EXCEPT ![j] = Moved(j, "writing", job[j].left \ {e})]
        /\ table' = Upsert(e)
  BY DEF WriteEvent
<1>2. /\ UNCHANGED <<row, tick, abandoned, windowStart>>
      /\ job[j].state = "writing"
  BY DEF WriteEvent
<1>3. TypeOK /\ job[j] \in JobRecord /\ JobInv(j) /\ table \in [TxHash -> Event \cup {0}]
  BY DEF IInv, TypeOK
<1>4. e \in Event /\ job[j].left \ {e} \in SUBSET Event /\ InRange(Block[e], job[j])
      /\ Tx[e] \in TxHash
  BY <1>1, <1>2, <1>3, EventAssumption DEF JobRecord, JobInv
<1>5. /\ job'[j].state = "writing" /\ job'[j].left = job[j].left \ {e}
      /\ job'[j].from = job[j].from /\ job'[j].to = job[j].to /\ job'[j].cp = job[j].cp
      /\ \A i \in JobId : i # j => job'[i] = job[i]
  BY <1>1, <1>3, <1>4, MovedType DEF TypeOK
<1>6. /\ e \in Valid => table' = [table EXCEPT ![Tx[e]] = e]
      /\ e \notin Valid => table' = table
  BY <1>1 DEF Upsert
<1>7. TableKept
  BY <1>3, <1>4, <1>6 DEF TableKept, Event
<1>8. ASSUME LaterToCome PROVE LaterToCome'
  <2>1. ASSUME NEW d \in Valid, table'[Tx[d]] # 0, table'[Tx[d]] < d
        PROVE  \E i \in JobId : job'[i].state # "free" /\ d \in job'[i].left
    <3>1. d \in Event /\ Tx[d] \in TxHash /\ d \in Int /\ e \in Int
      BY <1>4, EventAssumption DEF Event
    <3>2. CASE e \in Valid /\ Tx[d] = Tx[e]
      <4>1. table'[Tx[d]] = e
        BY <3>1, <3>2, <1>3, <1>6
      <4>2. e <= d /\ d # e /\ Block[d] = Block[e]
        BY <4>1, <2>1, <3>1, <3>2, <1>4, EventAssumption
      <4>3. d \in job[j].left
        BY <4>2, <3>1, <1>4 DEF WritesUpwards
      <4>4. QED
        BY <4>2, <4>3, <1>5
    <3>3. CASE ~(e \in Valid /\ Tx[d] = Tx[e])
      <4>1. table'[Tx[d]] = table[Tx[d]] /\ d # e
        BY <3>1, <3>3, <1>3, <1>6
      <4>2. PICK i \in JobId : job[i].state # "free" /\ d \in job[i].left
        BY <4>1, <2>1, <1>8 DEF LaterToCome
      <4>3. QED
        BY <4>1, <4>2, <1>5
    <3>4. QED
      BY <3>2, <3>3
  <2>2. QED
    BY <2>1 DEF LaterToCome
<1>9. QED
  BY <1>2, <1>5, <1>7, <1>8, MoveRest

(* A finished job leaves its range to a successful row; all its events are in the table. *)
LEMMA SaveCheckpointRest ==
  ASSUME IInv, IInv', Calm, CompleteSoFar, NEW j \in JobId, SaveCheckpoint(j)
  PROVE  /\ Calm' /\ CompleteSoFar' /\ (LaterToCome => LaterToCome')
         /\ OneTick /\ AllApart => OneTick' /\ AllApart'
<1>1. /\ UNCHANGED <<table, tick, abandoned, windowStart>>
      /\ Logged(j) /\ job' = [job EXCEPT ![j] = FreeJob]
      /\ InsertRow(j, "ok")
  BY DEF SaveCheckpoint
<1>2. PICK c \in RowId :
        /\ row[c].state = "none"
        /\ row' = [row EXCEPT ![c] = [state |-> "ok", from |-> job[j].from, to |-> job[j].to]]
  BY <1>1 DEF InsertRow, NewRows
<1>3. TypeOK /\ TypeOK' /\ JobInv(j) /\ windowStart <= windowStart' /\ job[j] \in JobRecord
  BY <1>1 DEF IInv, TypeOK
<1>4. /\ row'[c].state = "ok" /\ row'[c].from = job[j].from /\ row'[c].to = job[j].to
      /\ \A d \in RowId : d # c => row'[d] = row[d]
  BY <1>2, <1>3 DEF TypeOK
<1>5. /\ job'[j].state = "free" /\ job'[j].left = {} /\ job'[j].cp = NoCheckpoint
      /\ \A i \in JobId : i # j => job'[i] = job[i]
  BY <1>1, <1>3 DEF TypeOK, FreeJob
<1>6. /\ job[j].state # "free" /\ job[j].left = {}
      /\ job[j].from \in Int /\ job[j].to \in 0..MaxBlock /\ job[j].from <= job[j].to
  BY <1>1, <1>3 DEF Logged, JobInv, JobRecord
<1>7. JobsDone(j)
  BY <1>1, LoggedRecorded DEF JobsDone
<1>8. CompleteStarts \subseteq CompleteStarts'
  <2>1. TableKept /\ \A i \in JobId : job[i].state # "free" => JobGoesOn(i) \/ JobsDone(i)
    BY <1>1, <1>5, <1>7 DEF TableKept, JobGoesOn
  <2>2. QED
    BY <2>1, <1>3, CompleteKept
<1>9. job[j].to + 1 \in CompleteStarts'
  <2>1. job[j].to \in Int /\ job[j].to + 1 \in 0..(MaxBlock + 1)
    BY <1>6, ConfigAssumption
  <2>2. ASSUME NEW e \in Valid, windowStart' <= Block[e], Block[e] < job[j].to + 1
        PROVE  \/ table'[Tx[e]] # 0
               \/ \E i \in JobId : job'[i].state # "free" /\ InRange(Block[e], job'[i])
                                   /\ job'[i].to < job[j].to + 1
    <3>1. Block[e] \in Int
      BY EventAssumption
    <3>2. CASE job[j].from <= Block[e]
      BY <3>1, <3>2, <2>1, <2>2, <1>7 DEF InRange, JobsDone
    <3>3. CASE Block[e] < job[j].from
      <4>1. job[j].from \in CompleteStarts'
        BY <1>6, <1>8 DEF CompleteSoFar
      <4>2. \/ table'[Tx[e]] # 0
            \/ \E i \in JobId : job'[i].state # "free" /\ InRange(Block[e], job'[i])
                                /\ job'[i].to < job[j].from
        BY <3>3, <2>2, <4>1 DEF CompleteStarts
      <4>3. \A i \in JobId : job'[i].to \in Int
        BY <1>3 DEF TypeOK, JobRecord
      <4>4. QED
        BY <4>2, <4>3, <2>1, <1>6
    <3>4. QED
      BY <3>1, <3>2, <3>3, <1>6
  <2>3. QED
    BY <2>1, <2>2 DEF CompleteStarts
<1>10. Calm'
  <2>1. \A i \in JobId : job'[i].state # "failing" /\ job'[i].cp = NoCheckpoint
    BY <1>5 DEF Calm, IsFetch
  <2>2. QED
    BY <2>1, <1>1, <1>4 DEF Calm, IsFetch
<1>11. CompleteSoFar'
  <2>1. \A d \in RowId : row'[d].state = "ok" => row'[d].to + 1 \in CompleteStarts'
    BY <1>4, <1>8, <1>9 DEF CompleteSoFar
  <2>2. \A i \in JobId : job'[i].state # "free" => job'[i].from \in CompleteStarts'
    BY <1>5, <1>8 DEF CompleteSoFar
  <2>3. QED
    BY <2>1, <2>2, <1>1, <1>8 DEF CompleteSoFar
<1>12. LaterToCome => LaterToCome'
  BY <1>1, <1>5, <1>6 DEF LaterToCome
<1>13. OneTick => OneTick'
  <2>1. FreeSlots = JobId => FreeSlots' = JobId
    BY <1>5 DEF FreeSlots
  <2>2. QED
    BY <2>1, <1>1 DEF OneTick
<1>14. ASSUME AllApart PROVE AllApart'
  <2>1. \A d \in RowId : row[d].state = "ok" => Apart(row[d], job[j]) /\ Apart(job[j], row[d])
    BY <1>6, <1>14 DEF AllApart, Apart
  <2>2. \A d, k \in RowId :
          d # k /\ row'[d].state = "ok" /\ row'[k].state = "ok" => Apart(row'[d], row'[k])
    BY <2>1, <1>4, <1>14 DEF AllApart, Apart
  <2>3. \A i, k \in JobId :
          i # k /\ job'[i].state # "free" /\ job'[k].state # "free" => Apart(job'[i], job'[k])
    BY <1>5, <1>14 DEF AllApart
  <2>4. ASSUME NEW d \in RowId, NEW i \in JobId, row'[d].state = "ok", job'[i].state # "free"
        PROVE  Apart(row'[d], job'[i])
    <3>1. i # j /\ job'[i] = job[i] /\ Apart(job[j], job[i])
      BY <2>4, <1>5, <1>6, <1>14 DEF AllApart
    <3>2. QED
      BY <2>4, <3>1, <1>4, <1>14 DEF AllApart, Apart
  <2>5. ASSUME NEW u \in TickId, NEW q \in tick[u].todo
        PROVE  /\ \A p \in tick[u].todo : q # p => Apart(q, p)
               /\ \A d \in RowId : row'[d].state = "ok" => Apart(q, row'[d])
               /\ \A i \in JobId : job'[i].state # "free" => Apart(q, job'[i])
    <3>1. Apart(q, job[j])
      BY <1>6, <1>14 DEF AllApart
    <3>2. QED
      BY <3>1, <1>4, <1>5, <1>14 DEF AllApart, Apart
  <2>6. QED
    BY <2>2, <2>3, <2>4, <2>5, <1>1 DEF AllApart
<1>15. QED
  BY <1>10, <1>11, <1>12, <1>13, <1>14

(***************************************************************************)
(* What a job has left to write                                            *)
(***************************************************************************)
(* Only fetching the logs and writing an event change what a job has left, unless nothing
   is left to it. *)
LEMMA LeftToWrite ==
  ASSUME IInv, [Next]_vars, NEW i \in JobId
  PROVE  \/ job'[i].left = {}
         \/ job'[i].left = job[i].left /\ job'[i].from = job[i].from /\ job'[i].to = job[i].to
         \/ FetchLogs(i) \/ WriteEvent(i)
<1> DEFINE Same == \/ job'[i].left = {}
                   \/ /\ job'[i].left = job[i].left
                      /\ job'[i].from = job[i].from /\ job'[i].to = job[i].to
<1>1. TypeOK
  BY DEF IInv
<1>2. ASSUME NEW k \in JobId, NEW q, q.left = {}, job' = [job EXCEPT ![k] = q] PROVE Same
  BY <1>1, <1>2 DEF TypeOK
<1>3. ASSUME UNCHANGED job PROVE Same
  BY <1>3
<1>4. ASSUME NEW r, Enqueue(r) PROVE Same
  <2>1. WaitingJob(r, 0).left = {}
    BY DEF WaitingJob
  <2>2. QED
    BY <2>1, <1>2, <1>4 DEF Enqueue, FreeSlots
<1>5. ASSUME NEW t \in TickId, StartTick(t) \/ ProbeFailed(t) \/ ReadHead(t) \/ ReadLatest(t)
      PROVE  Same
  BY <1>3, <1>5 DEF StartTick, ProbeFailed, ReadHead, ReadLatest
<1>6. ASSUME NEW t \in TickId, AddRefetch(t) \/ AddFetch(t) PROVE Same
  BY <1>4, <1>6 DEF AddRefetch, AddFetch
<1>7. ASSUME Restart PROVE Same
  <2>1. job'[i] = job[i] \/ job'[i] = FreeJob \/ job'[i] = Redelivered(i)
    BY <1>7 DEF Restart
  <2>2. FreeJob.left = {} /\ Redelivered(i).left = {}
    BY DEF FreeJob, Redelivered, WaitingJob
  <2>3. QED
    BY <2>1, <2>2
<1>8. ASSUME NEW t \in TickId, TickThrows(t) PROVE Same
  BY <1>3, <1>7, <1>8 DEF TickThrows
<1>9. ASSUME NEW k \in JobId,
             SaveCheckpoint(k) \/ ClearFailed(k) \/ SaveFailedCheckpoint(k) \/ SaveFailedThrows(k)
      PROVE  Same
  <2>1. FreeJob.left = {} /\ job' = [job EXCEPT ![k] = FreeJob]
    BY <1>9 DEF FreeJob, SaveCheckpoint, ClearFailed, SaveFailedCheckpoint, SaveFailedThrows
  <2>2. QED
    BY <2>1, <1>2
<1>10. ASSUME NEW k \in JobId, JobThrows(k) PROVE Same
  <2>1. job' = [job EXCEPT ![k] = Caught(k)] /\ job[k] \in JobRecord
    BY <1>1, <1>10 DEF JobThrows, TypeOK
  <2>2. Moved(k, "failing", {}).left = {} /\ FreeJob.left = {}
    BY <1>1, MovedType DEF FreeJob
  <2>3. Caught(k).left = {}
    BY <2>2 DEF Caught
  <2>4. QED
    BY <2>1, <2>3, <1>2
<1>11. ASSUME NEW k \in JobId, Stall(k) PROVE Same
  <2>1. job[k] \in JobRecord /\ job \in [JobId -> JobRecord]
    BY <1>1 DEF TypeOK
  <2>2. /\ Unlocked(k).left = job[k].left
        /\ Unlocked(k).from = job[k].from /\ Unlocked(k).to = job[k].to
    BY <1>1, UnlockedType
  <2>3. CASE GivesUp(k)
    <3>1. job' = [job EXCEPT ![k] = Unlocked(k)]
      BY <2>3, <1>11 DEF Stall
    <3>2. QED
      BY <3>1, <2>1, <2>2
  <2>4. CASE ~GivesUp(k)
    <3>1. PICK m \in JobId : job' = [job EXCEPT ![k] = Unlocked(k), ![m] = Redelivered(k)]
      BY <2>4, <1>11 DEF Stall, FreeSlots
    <3>2. Redelivered(k).left = {}
      BY DEF Redelivered, WaitingJob
    <3>3. QED
      BY <3>1, <3>2, <2>1, <2>2
  <2>5. QED
    BY <2>3, <2>4
<1>12. ASSUME NEW k \in JobId, FetchLogs(k) \/ WriteEvent(k), k # i PROVE Same
  BY <1>1, <1>12 DEF FetchLogs, WriteEvent, TypeOK
<1> HIDE DEF Same
<1>13. Same \/ FetchLogs(i) \/ WriteEvent(i)
  <2>1. CASE UNCHANGED vars \/ Grow
    BY <2>1, <1>3 DEF vars, Grow
  <2>2. ASSUME NEW t \in TickId, StartTick(t) \/ TickStep(t) \/ TickThrows(t) PROVE Same
    BY <2>2, <1>5, <1>6, <1>8 DEF TickStep
  <2>3. ASSUME NEW k \in JobId, JobStep(k) \/ JobThrows(k) \/ SaveFailedThrows(k) \/ Stall(k)
        PROVE  Same \/ FetchLogs(i) \/ WriteEvent(i)
    BY <2>3, <1>9, <1>10, <1>11, <1>12 DEF JobStep
  <2>4. CASE Crash
    BY <2>4, <1>7 DEF Crash
  <2>5. QED
    BY <2>1, <2>2, <2>3, <2>4 DEF Next
<1>14. QED
  BY <1>13 DEF Same

(* Each job writes upwards, whatever happens: it starts with all the events of its range,
   and writes the lowest one first. *)
LEMMA UpwardsStep ==
  ASSUME IInv, IInv', [Next]_vars, \A j \in JobId : WritesUpwards(j), NEW i \in JobId
  PROVE  WritesUpwards(i)'
<1>1. TypeOK /\ TypeOK' /\ job[i] \in JobRecord /\ JobInv(i)
  BY DEF IInv, TypeOK
<1>2. CASE job'[i].left = {}
  BY <1>2 DEF WritesUpwards
<1>3. CASE job'[i].left = job[i].left /\ job'[i].from = job[i].from /\ job'[i].to = job[i].to
  BY <1>3 DEF WritesUpwards, InRange
<1>4. CASE FetchLogs(i)
  <2>1. job' = [job EXCEPT ![i] = Moved(i, "writing", Fetched(job[i]))]
        /\ Fetched(job[i]) \in SUBSET Event
    BY <1>4 DEF FetchLogs, Fetched
  <2>2. /\ job'[i].left = Fetched(job[i])
        /\ job'[i].from = job[i].from /\ job'[i].to = job[i].to
    BY <2>1, <1>1, MovedType DEF TypeOK
  <2>3. QED
    BY <2>2, <1>1, FetchedRange DEF WritesUpwards, InRange
<1>5. CASE WriteEvent(i)
  <2>1. PICK e \in job[i].left :
          /\ \A d \in job[i].left : e <= d
          /\ job' = [job EXCEPT ![i] = Moved(i, "writing", job[i].left \ {e})]
    BY <1>5 DEF WriteEvent, NextLog
  <2>2. job[i].left \in SUBSET Event /\ job[i].left \ {e} \in SUBSET Event
    BY <1>1 DEF JobRecord
  <2>3. /\ job'[i].left = job[i].left \ {e}
        /\ job'[i].from = job[i].from /\ job'[i].to = job[i].to
    BY <2>1, <2>2, <1>1, MovedType DEF TypeOK
  <2>4. ASSUME NEW d \in job[i].left \ {e}, NEW k \in Event, d <= k, InRange(Block[k], job[i])
        PROVE  k \in job[i].left \ {e}
    <3>1. k \in job[i].left
      BY <2>4 DEF WritesUpwards
    <3>2. e < d
      BY <2>1, <2>2, <2>4 DEF Event
    <3>3. QED
      BY <3>1, <3>2, <2>1, <2>2, <2>4 DEF Event
  <2>5. QED
    BY <2>3, <2>4 DEF WritesUpwards, InRange
<1>6. QED
  BY <1>2, <1>3, <1>4, <1>5, LeftToWrite

(***************************************************************************)
(* The theorems                                                            *)
(***************************************************************************)
(* The empty tables have all that is asked of them. *)
LEMMA RestInit == Init => RestInv
<1> SUFFICES ASSUME Init PROVE RestInv
  OBVIOUS
<1>1. \A j \in JobId : /\ job[j].state = "free" /\ job[j].left = {}
                       /\ job[j].cp = NoCheckpoint
  BY DEF Init, FreeJob
<1>2. \A t \in TickId : tick[t].pc = "idle" /\ tick[t].probe = {} /\ tick[t].todo = {}
  BY DEF Init, IdleTick, Ticking
<1>3. \A c \in RowId : row[c].state = "none"
  BY DEF Init
<1>4. \A e \in Valid : table[Tx[e]] = 0
  BY EventAssumption DEF Init
<1>5. Calm
  BY <1>1, <1>2, <1>3 DEF Init, Calm, IsFetch
<1>6. CompleteSoFar /\ LaterToCome
  BY <1>1, <1>2, <1>3, <1>4 DEF CompleteSoFar, LaterToCome
<1>7. OneTick /\ AllApart
  BY <1>1, <1>2, <1>3 DEF OneTick, AllApart
<1>8. \A j \in JobId : WritesUpwards(j)
  BY <1>1 DEF WritesUpwards
<1>9. QED
  BY <1>5, <1>6, <1>7, <1>8 DEF RestInv

(* The steps a calm indexer takes without a fault: it finds no failed checkpoint, plans no
   refetch and saves no failure. *)
LEMMA CalmSteps ==
  ASSUME IInv, Calm, [Next]_vars, faults = 0, faults' = 0
  PROVE  \/ UNCHANGED vars \/ Grow
         \/ \E t \in TickId : StartTick(t) \/ ReadHead(t) \/ ReadLatest(t) \/ AddFetch(t)
         \/ \E j \in JobId : FetchLogs(j) \/ WriteEvent(j) \/ SaveCheckpoint(j)
<1>1. ASSUME NEW f, Fault(f) PROVE FALSE
  BY <1>1 DEF Fault
<1>2. \A t \in TickId : ~ProbeFailed(t) /\ ~AddRefetch(t) /\ ~TickThrows(t)
  BY <1>1 DEF Calm, ProbeFailed, AddRefetch, TickThrows
<1>3. \A j \in JobId : /\ ~ClearFailed(j) /\ ~SaveFailedCheckpoint(j) /\ ~JobThrows(j)
                       /\ ~SaveFailedThrows(j) /\ ~Stall(j)
  BY <1>1 DEF Calm, ClearFailed, SaveFailedCheckpoint, JobThrows, SaveFailedThrows, Stall
<1>4. ~Crash
  BY <1>1 DEF Crash
<1>5. QED
  BY <1>2, <1>3, <1>4 DEF Next, TickStep, JobStep

(* Every step keeps the invariant. *)
LEMMA RestStep == IInv /\ IInv' /\ RestInv /\ [Next]_vars => RestInv'
<1> SUFFICES ASSUME IInv, IInv', RestInv, [Next]_vars PROVE RestInv'
  OBVIOUS
<1>1. \A j \in JobId : WritesUpwards(j)'
  BY UpwardsStep DEF RestInv
<1>2. ASSUME faults' = 0
      PROVE  /\ faults = 0
             /\ Calm' /\ CompleteSoFar' /\ LaterToCome'
             /\ ~Overlap => OneTick' /\ AllApart'
  <2>1. faults = 0
    <3>1. faults' = faults \/ faults' = faults + 1
      BY DEF Next, vars, Grow, StartTick, TickStep, TickThrows, ProbeFailed, AddRefetch,
             ReadHead, ReadLatest, AddFetch, JobStep, FetchLogs, WriteEvent, SaveCheckpoint,
             ClearFailed, SaveFailedCheckpoint, JobThrows, SaveFailedThrows, Stall, Crash,
             Restart, Fault
    <3>2. faults \in Nat
      BY ConfigAssumption DEF IInv, TypeOK
    <3>3. QED
      BY <3>1, <3>2, <1>2
  <2>2. /\ Calm /\ CompleteSoFar /\ LaterToCome /\ \A j \in JobId : WritesUpwards(j)
        /\ ~Overlap => OneTick /\ AllApart
    BY <2>1 DEF RestInv
  <2>3. CASE UNCHANGED vars \/ Grow
    <3>1. UNCHANGED <<table, row, job, tick, windowStart, abandoned>>
      BY <2>3 DEF vars, Grow
    <3>2. OneTick => OneTick'
      BY <3>1 DEF OneTick, FreeSlots
    <3>3. QED
      BY <3>1, <3>2, <2>1, <2>2, TickOnlyRest
  <2>4. ASSUME NEW t \in TickId, StartTick(t) \/ ReadHead(t) \/ ReadLatest(t) \/ AddFetch(t)
        PROVE  /\ Calm' /\ CompleteSoFar' /\ LaterToCome'
               /\ ~Overlap => OneTick' /\ AllApart'
    BY <2>2, <2>4, StartTickRest, ReadHeadRest, ReadLatestRest, AddFetchRest
  <2>5. ASSUME NEW j \in JobId, FetchLogs(j) \/ WriteEvent(j) \/ SaveCheckpoint(j)
        PROVE  /\ Calm' /\ CompleteSoFar' /\ LaterToCome'
               /\ ~Overlap => OneTick' /\ AllApart'
    BY <2>2, <2>5, FetchLogsRest, WriteEventRest, SaveCheckpointRest
  <2>6. QED
    BY <2>1, <2>2, <2>3, <2>4, <2>5, <1>2, CalmSteps
<1>3. QED
  BY <1>1, <1>2 DEF RestInv

(* Until a fault happens, each event below a checkpoint or a queued or planned range is in
   the table or in a queued range that ends earlier, and, when ticks do not overlap, the
   ranges fetched, queued and planned are disjoint. *)
THEOREM RestInvariance == Spec => []RestInv
<1>1. QED
  BY Invariance, RestInit, RestStep, PTL DEF Spec

(* Without faults, an idle indexer has every event of the fetched windows up to its highest
   successful checkpoint in the table, however many ticks overlapped. *)
THEOREM NothingMissing == Spec => []NoEventMissingAtRest
<1>1. IInv /\ RestInv => NoEventMissingAtRest
  <2> SUFFICES ASSUME IInv, RestInv, Quiet, faults = 0,
                      NEW c \in RowId, row[c].state = "ok",
                      NEW e \in Valid, windowStart <= Block[e], Block[e] <= row[c].to
               PROVE  table[Tx[e]] # 0
    BY DEF NoEventMissingAtRest
  <2>1. row[c].to + 1 \in CompleteStarts
    BY DEF RestInv, CompleteSoFar
  <2>2. Block[e] < row[c].to + 1
    BY EventAssumption DEF IInv, TypeOK, RowRecord
  <2>3. \A j \in JobId : job[j].state = "free"
    BY DEF Quiet, FreeSlots
  <2>4. QED
    BY <2>1, <2>2, <2>3 DEF CompleteStarts
<1>2. QED
  BY <1>1, Invariance, RestInvariance, PTL

(* Without faults, a transaction's row ends as the last of its events, whichever of the jobs
   that wrote it came last. *)
THEOREM LastEventWins == Spec => []LastEventWinsAtRest
<1>1. IInv /\ RestInv => LastEventWinsAtRest
  <2> SUFFICES ASSUME IInv, RestInv, FreeSlots = JobId, faults = 0,
                      NEW x \in TxHash, table[x] # 0, NEW e \in Valid, Tx[e] = x
               PROVE  e <= table[x]
    BY DEF LastEventWinsAtRest
  <2>1. e \in Int /\ table[x] \in Int
    BY EventAssumption DEF IInv, TypeOK, Event
  <2>2. ~(table[x] < e)
    BY DEF RestInv, LaterToCome, FreeSlots
  <2>3. QED
    BY <2>1, <2>2
<1>2. QED
  BY <1>1, Invariance, RestInvariance, PTL

(* Without faults and overlapping ticks, no block is fetched under two checkpoints. *)
THEOREM NoBlockTwice == Spec => []CheckpointsDisjoint
<1>1. RestInv => CheckpointsDisjoint
  BY DEF RestInv, AllApart, Apart, CheckpointsDisjoint
<1>2. QED
  BY <1>1, RestInvariance, PTL

(***************************************************************************)
(* CRAWL mode                                                              *)
(***************************************************************************)
(* The steps of a crawl in which only ticks and processes fail. *)
LEMMA CrawlSteps ==
  ASSUME IInv, CrawlIntact, Calm, [Next]_vars
  PROVE  \/ UNCHANGED vars \/ Grow \/ Restart
         \/ \E t \in TickId : StartTick(t) \/ ReadHead(t) \/ ReadLatest(t) \/ AddFetch(t)
         \/ \E j \in JobId : FetchLogs(j) \/ WriteEvent(j) \/ SaveCheckpoint(j)
<1>1. ~Fault("job") /\ ~Fault("catch") /\ ~Fault("stall")
  BY DEF CrawlIntact, Fault
<1>2. \A t \in TickId : ~ProbeFailed(t) /\ ~AddRefetch(t)
  BY DEF Calm, ProbeFailed, AddRefetch
<1>3. \A j \in JobId : /\ ~ClearFailed(j) /\ ~SaveFailedCheckpoint(j) /\ ~JobThrows(j)
                       /\ ~SaveFailedThrows(j) /\ ~Stall(j)
  BY <1>1 DEF Calm, ClearFailed, SaveFailedCheckpoint, JobThrows, SaveFailedThrows, Stall
<1>4. \A t \in TickId : TickThrows(t) => Restart
  BY DEF CrawlIntact, TickThrows
<1>5. Crash => Restart
  BY DEF Crash
<1>6. QED
  BY <1>2, <1>3, <1>4, <1>5 DEF Next, TickStep, JobStep

(* The loop of splitIntoRanges leaves out no block before the last. *)
LEMMA SplitCovers ==
  ASSUME NEW from \in Int, NEW to \in Int, NEW m \in Nat \ {0},
         NEW b \in Int, from <= b, b < to
  PROVE  \E r \in SplitIntoRanges(from, to, m) : InRange(b, r)
<1> DEFINE k == (b - from) \div m
           a == from + k * m
<1>1. b - from \in Nat
  OBVIOUS
<1>2. k \in Nat /\ k <= b - from /\ k * m <= b - from /\ b - from < k * m + m
  BY <1>1, QuotientBounds
<1>3. k * m \in Nat
  BY <1>2
<1> HIDE DEF k
<1>4. a \in Int /\ from <= a /\ a <= b /\ b < a + m
  BY <1>2, <1>3
<1>5. a \in LoopStarts(from, to - 1, m)
  BY <1>2, <1>4 DEF LoopStarts
<1>6. [from |-> a, to |-> Lesser(a + m - 1, to)] \in SplitIntoRanges(from, to, m)
  BY <1>5 DEF SplitIntoRanges
<1>7. InRange(b, [from |-> a, to |-> Lesser(a + m - 1, to)])
  BY <1>4 DEF InRange, Lesser
<1>8. QED
  BY <1>6, <1>7

(* What has been reached of a window stays reached while rows are kept and each job and
   each planned range goes on or is done. *)
LEMMA CrawlKept ==
  ASSUME CrawledSoFar, WindowChosen, TypeOK, TableKept, UNCHANGED <<newestBlock, windowStart>>,
         \A j \in JobId : job[j].state # "free" => JobGoesOn(j) \/ JobsDone(j),
         \A t \in TickId : \A r \in tick[t].todo :
           \/ r \in tick'[t].todo
           \/ \E i \in JobId :
                job'[i].state # "free" /\ job'[i].from = r.from /\ job'[i].to = r.to
  PROVE  CrawledSoFar'
<1> SUFFICES ASSUME NEW e \in Valid, windowStart <= Block[e], Block[e] < newestBlock
             PROVE  \/ table'[Tx[e]] # 0
                    \/ \E j \in JobId : job'[j].state # "free" /\ InRange(Block[e], job'[j])
                    \/ \E t \in TickId : \E r \in tick'[t].todo : InRange(Block[e], r)
  BY DEF CrawledSoFar
<1>1. CASE table[Tx[e]] # 0
  BY <1>1, EventAssumption DEF TableKept
<1>2. ASSUME NEW j \in JobId, job[j].state # "free", InRange(Block[e], job[j])
      PROVE  \/ table'[Tx[e]] # 0
             \/ \E i \in JobId : job'[i].state # "free" /\ InRange(Block[e], job'[i])
  BY <1>2 DEF JobGoesOn, JobsDone, InRange
<1>3. ASSUME NEW t \in TickId, NEW r \in tick[t].todo, InRange(Block[e], r)
      PROVE  \/ \E j \in JobId : job'[j].state # "free" /\ InRange(Block[e], job'[j])
             \/ \E u \in TickId : \E q \in tick'[u].todo : InRange(Block[e], q)
  BY <1>3 DEF InRange
<1>4. QED
  BY <1>1, <1>2, <1>3 DEF CrawledSoFar

(* A process that dies loses no queued range it could deliver once more, and the next one
   has not booted yet. *)
LEMMA CrawlRestart ==
  ASSUME IInv, IInv', CrawlIntact', Calm, CompleteSoFar, AllLocked, Restart
  PROVE  Calm' /\ CompleteSoFar' /\ OneBoot' /\ AllLocked' /\ CrawledSoFar'
<1> DEFINE Lost == {j \in Running : ~job[j].locked \/ GivesUp(j)}
<1>1. /\ tick' = [t \in TickId |-> IdleTick] /\ booted' = FALSE
      /\ job' = [j \in JobId |-> IF j \notin Running THEN job[j]
                                 ELSE IF j \in Lost THEN FreeJob ELSE Redelivered(j)]
      /\ abandoned' = abandoned \cup Orphans(Lost)
      /\ UNCHANGED <<table, row, windowStart>>
  BY DEF Restart
<1>2. Lost = {}
  <2>1. \A j \in Lost : job[j].locked /\ IsFetch(j)
    BY DEF AllLocked, Running, Calm
  <2>2. Orphans(Lost) = {}
    BY <1>1 DEF CrawlIntact
  <2>3. QED
    BY <2>1, <2>2 DEF Orphans
<1> HIDE DEF Lost
<1>3. TypeOK /\ TypeOK' /\ windowStart <= windowStart'
  BY <1>1 DEF IInv, TypeOK
<1>4. \A j \in JobId :
        /\ job'[j].state # "free" <=> job[j].state # "free"
        /\ job'[j].state # "failing"
        /\ job'[j].from = job[j].from /\ job'[j].to = job[j].to /\ job'[j].cp = job[j].cp
        /\ job'[j].locked <=> job[j].locked
  <2> SUFFICES ASSUME NEW j \in JobId
               PROVE  /\ job'[j].state # "free" <=> job[j].state # "free"
                      /\ job'[j].state # "failing"
                      /\ job'[j].from = job[j].from /\ job'[j].to = job[j].to
                      /\ job'[j].cp = job[j].cp
                      /\ job'[j].locked <=> job[j].locked
    OBVIOUS
  <2>1. CASE j \notin Running
    BY <2>1, <1>1 DEF Calm
  <2>2. CASE j \in Running
    <3>1. job'[j] = Redelivered(j)
      BY <2>2, <1>1, <1>2
    <3>2. job[j].state # "free" /\ job[j].locked
      BY <2>2 DEF Running, AllLocked
    <3>3. QED
      BY <3>1, <3>2 DEF Redelivered, WaitingJob
  <2>3. QED
    BY <2>1, <2>2
<1>5. \A t \in TickId : tick'[t].pc = "idle" /\ tick'[t].probe = {} /\ tick'[t].todo = {}
  BY <1>1 DEF IdleTick, Ticking
<1>6. CompleteStarts \subseteq CompleteStarts'
  <2>1. TableKept /\ \A j \in JobId : job[j].state # "free" => JobGoesOn(j)
    BY <1>1, <1>4 DEF TableKept, JobGoesOn
  <2>2. QED
    BY <2>1, <1>3, CompleteKept
<1>7. Calm'
  BY <1>1, <1>4, <1>5 DEF Calm, IsFetch, CrawlIntact
<1>8. CompleteSoFar'
  BY <1>1, <1>4, <1>5, <1>6 DEF CompleteSoFar
<1>9. OneBoot' /\ AllLocked' /\ CrawledSoFar'
  BY <1>1, <1>4, <1>5 DEF OneBoot, AllLocked, CrawledSoFar, WindowChosen
<1>10. QED
  BY <1>7, <1>8, <1>9

(* A tick of a crawl that starts, or reads the head, has yet to choose its window. *)
LEMMA CrawlEarlyTick ==
  ASSUME IInv, CrawlIntact, OneBoot, AllLocked, NEW t \in TickId, StartTick(t) \/ ReadHead(t)
  PROVE  OneBoot' /\ AllLocked' /\ CrawledSoFar'
<1>1. UNCHANGED job /\ booted' /\ tick'[t].pc \in {"refetching", "latest"}
      /\ \A u \in TickId : u # t => tick'[u] = tick[u] /\ tick[u].pc = "idle"
  <2>1. CASE StartTick(t)
    <3>1. /\ UNCHANGED job /\ booted' = TRUE /\ ~booted
          /\ tick' = [tick EXCEPT ![t] =
               Ticking("refetching", {c \in RowId : row[c].state = "failed"}, {})]
      BY <2>1 DEF StartTick, CrawlIntact
    <3>2. QED
      BY <3>1 DEF IInv, TypeOK, Ticking, OneBoot
  <2>2. CASE ReadHead(t)
    <3>1. /\ UNCHANGED <<job, booted>> /\ tick[t].pc = "refetching"
          /\ tick' = [tick EXCEPT ![t] = Ticking("latest", {}, {})]
      BY <2>2 DEF ReadHead
    <3>2. QED
      BY <3>1 DEF IInv, TypeOK, Ticking, OneBoot
  <2>3. QED
    BY <2>1, <2>2
<1>2. ~WindowChosen'
  BY <1>1 DEF WindowChosen
<1>3. QED
  BY <1>1, <1>2 DEF OneBoot, AllLocked, CrawledSoFar

(* The window chosen starts where nothing is missing and is planned up to the newest block,
   but for that block. *)
LEMMA CrawlReadLatest ==
  ASSUME IInv, CompleteSoFar, CompleteSoFar', OneBoot, AllLocked,
         NEW t \in TickId, ReadLatest(t)
  PROVE  OneBoot' /\ AllLocked' /\ CrawledSoFar'
<1>1. PICK from \in StartBlocks :
        /\ tick' = [tick EXCEPT ![t] =
             IF Plan(from) = {} THEN IdleTick ELSE Ticking("adding", {}, Plan(from))]
        /\ windowStart' = IF OkEnds = {} THEN Greater(windowStart, from) ELSE windowStart
  BY DEF ReadLatest, Plan
<1>2. /\ UNCHANGED <<table, row, job, newestBlock, booted>>
      /\ tick[t].pc = "latest"
  BY DEF ReadLatest
<1>3. TypeOK /\ newestBlock \in Int /\ windowStart \in Int
  BY DEF IInv, TypeOK
<1>4. from \in 0..(MaxBlock + 1)
  BY <1>3, StartBlocksType
<1>5. /\ tick'[t].todo = Plan(from)
      /\ \A u \in TickId : u # t => tick'[u] = tick[u]
  BY <1>1, <1>2, <1>3 DEF TypeOK, Ticking, IdleTick
<1>6. ASSUME NEW e \in Valid, windowStart' <= Block[e], Block[e] < newestBlock
      PROVE  \/ table'[Tx[e]] # 0
             \/ \E j \in JobId : job'[j].state # "free" /\ InRange(Block[e], job'[j])
             \/ \E u \in TickId : \E r \in tick'[u].todo : InRange(Block[e], r)
  <2>1. Block[e] \in Int /\ from \in Int /\ SplitValue \in Nat \ {0}
    BY <1>4, EventAssumption, ConfigAssumption
  <2>2. CASE Block[e] < from
    <3>1. OkEnds # {}
      BY <2>1, <2>2, <1>1, <1>3, <1>6 DEF Greater
    <3>2. PICK c \in RowId : row[c].state = "ok" /\ from = row[c].to + 1
      BY <3>1 DEF StartBlocks, LatestEnd, OkEnds
    <3>3. from \in CompleteStarts'
      BY <3>2, <1>2 DEF CompleteSoFar
    <3>4. QED
      BY <3>3, <2>2, <1>6 DEF CompleteStarts
  <2>3. CASE from <= Block[e]
    <3>1. PICK s \in SplitIntoRanges(from, newestBlock, SplitValue) : InRange(Block[e], s)
      BY <2>1, <2>3, <1>3, <1>6, SplitCovers
    <3>2. [from |-> s.from, to |-> s.to, cp |-> NoCheckpoint] \in Plan(from)
      BY DEF Plan
    <3>3. InRange(Block[e], [from |-> s.from, to |-> s.to, cp |-> NoCheckpoint])
      BY <3>1 DEF InRange
    <3>4. QED
      BY <3>2, <3>3, <1>5
  <2>4. QED
    BY <2>1, <2>2, <2>3
<1>7. CrawledSoFar'
  BY <1>2, <1>6 DEF CrawledSoFar
<1>8. OneBoot' /\ AllLocked'
  BY <1>2, <1>5 DEF OneBoot, AllLocked
<1>9. QED
  BY <1>7, <1>8

(* A planned range goes into the queue. *)
LEMMA CrawlAddFetch ==
  ASSUME IInv, OneBoot, AllLocked, CrawledSoFar, NEW t \in TickId, AddFetch(t)
  PROVE  OneBoot' /\ AllLocked' /\ CrawledSoFar'
<1>1. PICK r \in tick[t].todo :
        /\ Enqueue(r)
        /\ tick' = [tick EXCEPT ![t] =
             IF tick[t].todo = {r} THEN IdleTick ELSE Ticking("adding", {}, tick[t].todo \ {r})]
  BY DEF AddFetch
<1>2. /\ UNCHANGED <<table, row, newestBlock, booted, windowStart>>
      /\ tick[t].pc = "adding"
  BY DEF AddFetch
<1>3. TypeOK
  BY DEF IInv
<1>4. PICK j \in JobId : job[j].state = "free" /\ job' = [job EXCEPT ![j] = WaitingJob(r, 0)]
  BY <1>1 DEF Enqueue, FreeSlots
<1>5. /\ \A i \in JobId : i # j => job'[i] = job[i]
      /\ job'[j].state = "waiting" /\ job'[j].from = r.from /\ job'[j].to = r.to
      /\ job'[j].locked
  BY <1>3, <1>4 DEF TypeOK, WaitingJob
<1>6. /\ \A u \in TickId : u # t => tick'[u] = tick[u]
      /\ tick'[t].todo = tick[t].todo \ {r} /\ tick'[t].pc \in {"idle", "adding"}
  BY <1>1, <1>3 DEF TypeOK, Ticking, IdleTick
<1>7. OneBoot'
  BY <1>2, <1>6 DEF OneBoot
<1>8. AllLocked'
  BY <1>5 DEF AllLocked
<1>9. WindowChosen
  BY <1>2 DEF OneBoot, WindowChosen
<1>10. CrawledSoFar'
  <2>1. TableKept /\ \A i \in JobId : job[i].state # "free" => JobGoesOn(i)
    BY <1>2, <1>4, <1>5 DEF TableKept, JobGoesOn
  <2>2. \A u \in TickId : \A q \in tick[u].todo :
          \/ q \in tick'[u].todo
          \/ \E i \in JobId :
               job'[i].state # "free" /\ job'[i].from = q.from /\ job'[i].to = q.to
    BY <1>5, <1>6
  <2>3. QED
    BY <2>1, <2>2, <1>2, <1>3, <1>9, CrawlKept
<1>11. QED
  BY <1>7, <1>8, <1>10

(* A job goes on, or is done. *)
LEMMA CrawlJob ==
  ASSUME IInv, OneBoot, AllLocked, CrawledSoFar,
         NEW j \in JobId, FetchLogs(j) \/ WriteEvent(j) \/ SaveCheckpoint(j)
  PROVE  OneBoot' /\ AllLocked' /\ CrawledSoFar'
<1>1. UNCHANGED <<tick, newestBlock, booted, windowStart>>
  BY DEF FetchLogs, WriteEvent, SaveCheckpoint
<1>2. TypeOK /\ job[j] \in JobRecord /\ table \in [TxHash -> Event \cup {0}]
  BY DEF IInv, TypeOK
<1>3. /\ TableKept
      /\ \A i \in JobId : i # j => job'[i] = job[i]
      /\ job[j].state # "free"
      /\ \/ /\ job'[j].state # "free" /\ job'[j].locked = job[j].locked
            /\ job'[j].from = job[j].from /\ job'[j].to = job[j].to
         \/ job'[j].state = "free" /\ JobsDone(j)
  <2>1. ASSUME NEW left \in SUBSET Event, job' = [job EXCEPT ![j] = Moved(j, "writing", left)]
        PROVE  /\ \A i \in JobId : i # j => job'[i] = job[i]
               /\ job'[j].state # "free" /\ job'[j].locked = job[j].locked
               /\ job'[j].from = job[j].from /\ job'[j].to = job[j].to
    BY <2>1, <1>2, MovedType DEF TypeOK
  <2>2. CASE FetchLogs(j)
    <3>1. /\ job' = [job EXCEPT ![j] = Moved(j, "writing", Fetched(job[j]))]
          /\ Fetched(job[j]) \in SUBSET Event
          /\ job[j].state # "free" /\ TableKept
      BY <2>2 DEF FetchLogs, Admitted, Fetched, TableKept
    <3>2. QED
      BY <3>1, <2>1
  <2>3. CASE WriteEvent(j)
    <3>1. PICK e \in job[j].left :
            /\ job' = [job EXCEPT ![j] = Moved(j, "writing", job[j].left \ {e})]
            /\ table' = Upsert(e)
      BY <2>3 DEF WriteEvent
    <3>2. e \in Event /\ job[j].left \ {e} \in SUBSET Event /\ job[j].state # "free"
      BY <2>3, <1>2 DEF WriteEvent, JobRecord
    <3>3. TableKept
      BY <3>1, <3>2, <1>2, EventAssumption DEF TableKept, Upsert, Event
    <3>4. QED
      BY <3>1, <3>2, <3>3, <2>1
  <2>4. CASE SaveCheckpoint(j)
    <3>1. Logged(j) /\ job' = [job EXCEPT ![j] = FreeJob] /\ TableKept /\ table' = table
      BY <2>4 DEF SaveCheckpoint, TableKept
    <3>2. JobsDone(j)
      BY <3>1, LoggedRecorded DEF JobsDone
    <3>3. QED
      BY <3>1, <3>2, <1>2 DEF TypeOK, FreeJob, Logged
  <2>5. QED
    BY <2>2, <2>3, <2>4
<1>4. OneBoot' /\ AllLocked'
  BY <1>1, <1>3 DEF OneBoot, AllLocked
<1>5. CASE WindowChosen
  <2>1. \A i \in JobId : job[i].state # "free" => JobGoesOn(i) \/ JobsDone(i)
    BY <1>3 DEF JobGoesOn
  <2>2. CrawledSoFar'
    BY <2>1, <1>1, <1>2, <1>3, <1>5, CrawlKept
  <2>3. QED
    BY <2>2, <1>4
<1>6. CASE ~WindowChosen
  BY <1>1, <1>4, <1>6 DEF CrawledSoFar, WindowChosen
<1>7. QED
  BY <1>5, <1>6

(* Every step of a crawl keeps its invariant. *)
LEMMA CrawlStep == IInv /\ IInv' /\ RestInv /\ CrawlInv /\ [Next]_vars => CrawlInv'
<1> SUFFICES ASSUME IInv, IInv', CrawlInv, [Next]_vars, CrawlIntact',
                    \A j \in JobId : WritesUpwards(j)
             PROVE  Calm' /\ CompleteSoFar' /\ OneBoot' /\ AllLocked' /\ CrawledSoFar'
  BY DEF CrawlInv, RestInv
<1>1. abandoned \subseteq abandoned'
  BY DEF Next, vars, Grow, StartTick, TickStep, TickThrows, ProbeFailed, AddRefetch, ReadHead,
         ReadLatest, AddFetch, JobStep, FetchLogs, WriteEvent, SaveCheckpoint, ClearFailed,
         SaveFailedCheckpoint, JobThrows, SaveFailedThrows, Stall, Crash, Restart
<1>2. CrawlIntact
  BY <1>1 DEF CrawlIntact
<1>3. Calm /\ CompleteSoFar /\ OneBoot /\ AllLocked /\ CrawledSoFar
  BY <1>2 DEF CrawlInv
<1>4. CASE UNCHANGED vars \/ Grow
  <2>1. UNCHANGED <<table, row, job, tick, newestBlock, booted, windowStart, abandoned>>
    BY <1>4 DEF vars, Grow
  <2>2. Calm' /\ CompleteSoFar'
    BY <2>1, <1>3, TickOnlyRest
  <2>3. OneBoot' /\ AllLocked' /\ CrawledSoFar'
    BY <2>1, <1>3 DEF OneBoot, AllLocked, CrawledSoFar, WindowChosen
  <2>4. QED
    BY <2>2, <2>3
<1>5. CASE Restart
  BY <1>3, <1>5, CrawlRestart
<1>6. ASSUME NEW t \in TickId, StartTick(t) \/ ReadHead(t)
      PROVE  Calm' /\ CompleteSoFar' /\ OneBoot' /\ AllLocked' /\ CrawledSoFar'
  BY <1>2, <1>3, <1>6, CrawlEarlyTick, StartTickRest, ReadHeadRest
<1>7. ASSUME NEW t \in TickId, ReadLatest(t)
      PROVE  Calm' /\ CompleteSoFar' /\ OneBoot' /\ AllLocked' /\ CrawledSoFar'
  <2>1. Calm' /\ CompleteSoFar'
    BY <1>3, <1>7, ReadLatestRest
  <2>2. QED
    BY <2>1, <1>3, <1>7, CrawlReadLatest
<1>8. ASSUME NEW t \in TickId, AddFetch(t)
      PROVE  Calm' /\ CompleteSoFar' /\ OneBoot' /\ AllLocked' /\ CrawledSoFar'
  BY <1>3, <1>8, AddFetchRest, CrawlAddFetch
<1>9. ASSUME NEW j \in JobId, FetchLogs(j) \/ WriteEvent(j) \/ SaveCheckpoint(j)
      PROVE  Calm' /\ CompleteSoFar' /\ OneBoot' /\ AllLocked' /\ CrawledSoFar'
  <2>1. Calm' /\ CompleteSoFar'
    BY <1>3, <1>9, FetchLogsRest, WriteEventRest, SaveCheckpointRest
  <2>2. QED
    BY <2>1, <1>3, <1>9, CrawlJob
<1>10. QED
  BY <1>2, <1>3, <1>4, <1>5, <1>6, <1>7, <1>8, <1>9, CrawlSteps

(* While only ticks and processes fail and nothing is given up, a crawl keeps every event
   below the newest block stored, queued or planned. *)
THEOREM CrawlInvariance == Spec => []CrawlInv
<1>1. Init => CrawlInv
  <2> SUFFICES ASSUME Init PROVE Calm /\ CompleteSoFar /\ OneBoot /\ AllLocked /\ CrawledSoFar
    BY DEF CrawlInv
  <2>1. Calm /\ CompleteSoFar
    BY RestInit DEF RestInv, Init
  <2>2. \A j \in JobId : job[j].state = "free"
    BY DEF Init, FreeJob
  <2>3. \A t \in TickId : tick[t].pc = "idle"
    BY DEF Init, IdleTick, Ticking
  <2>4. QED
    BY <2>1, <2>2, <2>3 DEF Init, OneBoot, AllLocked, CrawledSoFar, WindowChosen
<1>2. QED
  BY <1>1, CrawlStep, Invariance, RestInvariance, PTL DEF Spec

(* However often the boot rejects or the process dies, a crawl that is done has every event
   of its windows below the newest block, unless a range was given up. *)
THEOREM CrawlIsComplete ==
  ASSUME Mode = "CRAWL", FaultKinds \subseteq {"tick", "crash"}
  PROVE  Spec => []CrawlIndexesAllButNewest
<1>1. CrawlInv => CrawlIndexesAllButNewest
  <2> SUFFICES ASSUME CrawlInv, Quiet, booted, abandoned = {}
               PROVE  \A e \in Valid : windowStart <= Block[e] /\ Block[e] < newestBlock =>
                        table[Tx[e]] # 0
    BY DEF CrawlIndexesAllButNewest
  <2>1. Calm /\ CrawledSoFar
    BY DEF CrawlInv, CrawlIntact
  <2>2. WindowChosen
    BY DEF WindowChosen, Quiet
  <2>3. \A t \in TickId : tick[t].todo = {}
    BY <2>1 DEF Calm, Quiet
  <2>4. \A j \in JobId : job[j].state = "free"
    BY DEF Quiet, FreeSlots
  <2>5. QED
    BY <2>1, <2>2, <2>3, <2>4 DEF CrawledSoFar
<1>2. QED
  BY <1>1, CrawlInvariance, PTL
=============================================================================
