---------------------------- MODULE RangeFetchInv ----------------------------
(***************************************************************************)
(* What RangeFetch promises, and the inductive invariant behind it.        *)
(***************************************************************************)
EXTENDS RangeFetch

RowRecord == [state : {"none", "ok", "failed"}, from : 0..(MaxBlock + 1), to : 0..MaxBlock]
JobRecord == [state : {"free", "waiting", "writing", "failing"},
              from : 0..(MaxBlock + 1), to : 0..MaxBlock,
              cp : RowId \cup {NoCheckpoint}, left : SUBSET Event,
              stalls : 0..MaxStalled, locked : BOOLEAN]
TickRecord == [pc : {"idle", "refetching", "latest", "adding"},
               probe : SUBSET RowId, todo : SUBSET Tasks]

TypeOK ==
  /\ head \in 0..MaxBlock
  /\ table \in [TxHash -> Event \cup {0}]
  /\ row \in [RowId -> RowRecord]
  /\ job \in [JobId -> JobRecord]
  /\ tick \in [TickId -> TickRecord]
  /\ newestBlock \in 0..MaxBlock
  /\ booted \in BOOLEAN
  /\ faults \in 0..MaxFaults
  /\ abandoned \subseteq Ranges
  /\ windowStart \in 0..MaxBlock

(***************************************************************************)
(* No silent gap                                                           *)
(***************************************************************************)
(* The ranges somebody still answers for: plain fetches in the queue or running
   with their lock, and failed checkpoints, which later ticks look at. *)
LiveFetches == {j \in JobId : job[j].state # "free" /\ job[j].locked /\ IsFetch(j)}
FailedRows == {c \in RowId : row[c].state = "failed"}
Owners == {RangeOf(job[j]) : j \in LiveFetches} \cup {RangeOf(row[c]) : c \in FailedRows}

Owned(b, s) == \E r \in Owners : InRange(b, r) /\ r.to < s
Abandoned(b) == \E r \in abandoned : InRange(b, r)

(* The blocks from which indexing may start: each earlier block that holds an event
   of the fetched window has been reached by the indexer, has been given up, or is
   owned by a range that ends earlier. *)
SafeStarts ==
  {s \in 0..(MaxBlock + 1) : \A e \in Valid :
     windowStart <= Block[e] /\ Block[e] < s =>
       Block[e] \in RecordedBlocks \/ Abandoned(Block[e]) \/ Owned(Block[e], s)}

(* The next window starts after the highest successful checkpoint, so no block below
   any successful checkpoint may be forgotten: whatever the interleaving of ticks,
   jobs, crashes and retries, each is recorded, owned or known to be abandoned. *)
NoSilentGap == \A c \in RowId : row[c].state = "ok" => row[c].to + 1 \in SafeStarts

(* Of the block of event e, everything stored comes before e, and something is stored. *)
InTail(e) ==
  /\ Block[e] \in RecordedBlocks
  /\ \A x \in TxHash : table[x] # 0 /\ Block[table[x]] = Block[e] => table[x] < e

(* What the probe of a failed checkpoint can lose.  It goes on after the latest recorded
   block, and a job may have failed inside that block; but jobs write in log order, so what
   is missing below a successful checkpoint of a block that nobody answers for comes after
   everything stored of the block. *)
OnlyTailsLost ==
  \A c \in RowId : row[c].state = "ok" =>
    \A e \in Valid :
      windowStart <= Block[e] /\ Block[e] <= row[c].to /\ table[Tx[e]] = 0 =>
        \/ Abandoned(Block[e])
        \/ Owned(Block[e], row[c].to + 1)
        \/ InTail(e)

(* No job, checkpoint or scheduled range reaches past the head of the chain, even
   though this.newestBlock is overwritten by overlapping ticks: a checkpoint never
   claims a block that did not exist when it was fetched. *)
WithinChain ==
  /\ newestBlock <= head
  /\ \A c \in RowId : row[c].state # "none" => row[c].to <= head
  /\ \A j \in JobId : job[j].state # "free" => job[j].to <= head
  /\ \A t \in TickId : \A r \in tick[t].todo : r.to <= head

(* A checkpoint is inserted as successful only when the transaction of every valid
   event of its range is in the table (executeRangeQuery saves last). *)
OkMeansComplete ==
  [][\A c \in RowId : row[c].state = "none" /\ row'[c].state = "ok" =>
       \A e \in Valid : InRange(Block[e], row'[c]) => table[Tx[e]] # 0]_vars

(* A failed checkpoint is cleared only when every event block of its range has been
   reached, was abandoned, or is owned by somebody other than the row itself: the
   refetch starts after the latest recorded block and must not skip one before it. *)
ClearOnlyWhenCovered ==
  [][\A c \in RowId : row[c].state = "failed" /\ row'[c].state = "ok" =>
       \A e \in Valid :
         InRange(Block[e], row[c]) /\ windowStart <= Block[e] =>
           \/ Block[e] \in RecordedBlocks
           \/ Abandoned(Block[e])
           \/ Owned(Block[e], row[c].to)]_vars

(***************************************************************************)
(* The ledger an indexer keeps                                             *)
(***************************************************************************)
Done == {RangeOf(row[c]) : c \in {d \in RowId : row[d].state = "ok"}}
EventBlocks == {Block[e] : e \in Valid}

Ledger == INSTANCE RangeLedger
  WITH recorded <- RecordedBlocks, owed <- Owners, done <- Done,
       dropped <- abandoned, start <- windowStart

(* An indexer keeps a ledger: however ticks, jobs and their retries interleave, fail and
   start over, whoever answers for a range does so until it is settled or on record as
   given up, a success is never taken back, each range is taken on and each block stored
   only when nothing before it is forgotten, and the window moves only as long as nothing
   has succeeded. *)
KeepsLedger == Ledger!Spec

(***************************************************************************)
(* What is in the tables once the work has drained                         *)
(***************************************************************************)
(* Without faults, once nothing is queued or running, no event up to the highest
   successful checkpoint is missing, however many ticks overlapped. *)
NoEventMissingAtRest ==
  Quiet /\ faults = 0 =>
    \A c \in RowId : row[c].state = "ok" =>
      \A e \in Valid : windowStart <= Block[e] /\ Block[e] <= row[c].to => table[Tx[e]] # 0

(* A transaction has one row, overwritten by each of its events; without faults it
   ends as the transaction's last event although several jobs wrote it at once. *)
LastEventWinsAtRest ==
  FreeSlots = JobId /\ faults = 0 =>
    \A x \in TxHash : table[x] # 0 => \A e \in Valid : Tx[e] = x => e <= table[x]

(* When each tick finds the previous work drained and nothing fails, no block is
   fetched under two successful checkpoints. *)
CheckpointsDisjoint ==
  ~Overlap /\ faults = 0 =>
    \A c, d \in RowId :
      c # d /\ row[c].state = "ok" /\ row[d].state = "ok" =>
        row[c].to < row[d].from \/ row[d].to < row[c].from

(* CRAWL mode: once the boot's jobs have run, everything from the first window up to,
   not including, the newest block is indexed, even after a crash in between, or left
   to the next boot in a failed checkpoint. *)
CrawlIndexesAllButNewest ==
  Quiet /\ booted /\ abandoned = {} =>
    \A e \in Valid : windowStart <= Block[e] /\ Block[e] < newestBlock =>
      table[Tx[e]] # 0 \/ \E c \in FailedRows : InRange(Block[e], row[c])

(* The same up to the newest block itself, which is what env-example-relational says
   of INIT_DATA_DURATION: "crawl data from 12 months ago until now". *)
CrawlIndexesUntilNow ==
  Quiet /\ booted =>
    \A e \in Valid : newestBlock - Window <= Block[e] /\ Block[e] <= newestBlock =>
      table[Tx[e]] # 0

(***************************************************************************)
(* Progress                                                                *)
(***************************************************************************)
(* With cron and the workers running, every event below the final head is eventually
   in the table although jobs, ticks and the process fail, unless its range was given
   up (dropped by the queue, or lost with the catch clause), or the first window had
   moved past its block before anything succeeded, or a job failed inside its block:
   then the rest of the block, e with it, stays out for good. *)
EventuallyIndexed ==
  \A e \in Valid : Block[e] < MaxBlock =>
    \/ <>(table[Tx[e]] # 0 \/ Abandoned(Block[e]) \/ Block[e] < windowStart)
    \/ <>[](faults > 0 /\ InTail(e))

(* A failed checkpoint does not stay failed for ever, unless the last block of its
   range has been recorded: processFailedCheckpoints then skips it on every tick. *)
FailedResolved ==
  \A c \in RowId :
    row[c].state = "failed" ~> row[c].state = "ok" \/ row[c].to \in RecordedBlocks

(***************************************************************************)
(* The inductive invariant                                                 *)
(***************************************************************************)
(* A table row is keyed by its own event's transaction, and indexing may start at
   the block of any recorded event: this is what the probe of a failed checkpoint
   relies on. *)
TableInv ==
  /\ \A x \in TxHash : table[x] # 0 => table[x] \in Valid /\ Tx[table[x]] = x
  /\ RecordedBlocks \subseteq SafeStarts

(* A refetch, queued or planned, is a suffix of the range of an existing row. *)
RefetchOf(r) ==
  r.cp # NoCheckpoint =>
    row[r.cp].state # "none" /\ row[r.cp].to = r.to /\ row[r.cp].from <= r.from

(* A job starts at a safe block, and once it has its logs each valid event of its
   range is still to be written or already in the table. *)
JobInv(j) ==
  job[j].state # "free" =>
    /\ job[j].from <= job[j].to /\ job[j].to <= head
    /\ job[j].from \in SafeStarts
    /\ RefetchOf(job[j])
    /\ \A e \in job[j].left : InRange(Block[e], job[j])
    /\ job[j].state = "writing" =>
         \A e \in Valid : InRange(Block[e], job[j]) => e \in job[j].left \/ table[Tx[e]] # 0

RowInv(c) ==
  row[c].state # "none" =>
    /\ row[c].from <= row[c].to /\ row[c].to <= head
    /\ row[c].from \in SafeStarts
    /\ row[c].state = "ok" => row[c].to + 1 \in SafeStarts

(* Every planned refetch starts at a safe block.  A planned fetch does so as well, or
   comes right after another range of the same plan. *)
TickInv(t) ==
  /\ \A c \in tick[t].probe : row[c].state # "none"
  /\ \A r \in tick[t].todo : r.from <= r.to /\ r.to <= head /\ RefetchOf(r)
  /\ tick[t].pc = "refetching" =>
       \A r \in tick[t].todo : r.cp # NoCheckpoint /\ r.from \in SafeStarts
  /\ tick[t].pc = "adding" =>
       \A r \in tick[t].todo : r.cp = NoCheckpoint
         /\ (r.from \in SafeStarts \/ \E q \in tick[t].todo : q.to + 1 = r.from)

IInv ==
  /\ TypeOK
  /\ newestBlock <= head
  /\ TableInv
  /\ \A j \in JobId : JobInv(j)
  /\ \A c \in RowId : RowInv(c)
  /\ \A t \in TickId : TickInv(t)

(* Of the transactions of a block, those stored come before those not stored. *)
BlocksFillUpwards ==
  \A x \in TxHash : table[x] # 0 =>
    \A e \in Valid : e <= table[x] /\ Block[e] = Block[table[x]] => table[Tx[e]] # 0

(***************************************************************************)
(* The inductive invariant of the properties at rest                       *)
(***************************************************************************)
(* Until something fails, nothing has been given up, no checkpoint is failed, and all
   that is planned, queued or running are plain fetches. *)
Calm ==
  /\ abandoned = {} /\ \A c \in RowId : row[c].state # "failed"
  /\ \A j \in JobId : job[j].state # "failing" /\ IsFetch(j)
  /\ \A t \in TickId : tick[t].probe = {} /\ (tick[t].pc # "adding" => tick[t].todo = {})

(* The blocks below which no event of the fetched windows is missing, but those that a
   queued or running job ending earlier will write.  Unlike SafeStarts this is said of
   each event, not of its block: a refetch would not keep it. *)
CompleteStarts ==
  {s \in 0..(MaxBlock + 1) : \A e \in Valid :
     windowStart <= Block[e] /\ Block[e] < s =>
       \/ table[Tx[e]] # 0
       \/ \E j \in JobId : job[j].state # "free" /\ InRange(Block[e], job[j]) /\ job[j].to < s}

CompleteSoFar ==
  /\ \A c \in RowId : row[c].state = "ok" => row[c].to + 1 \in CompleteStarts
  /\ \A j \in JobId : job[j].state # "free" => job[j].from \in CompleteStarts
  /\ \A t \in TickId : \A r \in tick[t].todo :
       r.from \in CompleteStarts \/ \E q \in tick[t].todo : q.to + 1 = r.from

(* A job writes upwards: what it has left are the last events of its range. *)
WritesUpwards(j) ==
  \A d \in job[j].left, e \in Event : d <= e /\ InRange(Block[e], job[j]) => e \in job[j].left

(* Whoever has put an event in the place of a later one of its transaction, or found the
   later one not written yet, will still write that one. *)
LaterToCome ==
  \A e \in Valid : table[Tx[e]] # 0 /\ table[Tx[e]] < e =>
    \E j \in JobId : job[j].state # "free" /\ e \in job[j].left

(* Without overlapping ticks there is one tick at a time, and it chooses its window
   when every job before it is done. *)
OneTick ==
  \A t \in TickId : tick[t].pc # "idle" =>
    /\ \A u \in TickId : tick[u].pc # "idle" => t = u
    /\ tick[t].pc # "adding" => FreeSlots = JobId

(* So no two of the ranges fetched, being fetched or planned have a block in common. *)
Apart(p, q) == p.to < q.from \/ q.to < p.from
AllApart ==
  /\ \A c, d \in RowId :
       c # d /\ row[c].state = "ok" /\ row[d].state = "ok" => Apart(row[c], row[d])
  /\ \A i, j \in JobId :
       i # j /\ job[i].state # "free" /\ job[j].state # "free" => Apart(job[i], job[j])
  /\ \A c \in RowId, j \in JobId :
       row[c].state = "ok" /\ job[j].state # "free" => Apart(row[c], job[j])
  /\ \A t \in TickId : \A r \in tick[t].todo :
       /\ \A q \in tick[t].todo : r # q => Apart(r, q)
       /\ \A c \in RowId : row[c].state = "ok" => Apart(r, row[c])
       /\ \A j \in JobId : job[j].state # "free" => Apart(r, job[j])

RestInv ==
  /\ \A j \in JobId : WritesUpwards(j)
  /\ faults = 0 => Calm /\ CompleteSoFar /\ LaterToCome
  /\ faults = 0 /\ ~Overlap => OneTick /\ AllApart

(* CRAWL mode: one tick per process, which no process starts before its boot; when it has
   chosen its window, every event below the newest block is in the table, in the queue or
   planned. *)
OneBoot ==
  \A t \in TickId : tick[t].pc # "idle" =>
    booted /\ \A u \in TickId : tick[u].pc # "idle" => t = u
AllLocked == \A j \in JobId : job[j].state # "free" => job[j].locked
WindowChosen == booted /\ \A t \in TickId : tick[t].pc \in {"idle", "adding"}
CrawledSoFar ==
  WindowChosen => \A e \in Valid : windowStart <= Block[e] /\ Block[e] < newestBlock =>
    \/ table[Tx[e]] # 0
    \/ \E j \in JobId : job[j].state # "free" /\ InRange(Block[e], job[j])
    \/ \E t \in TickId : \E r \in tick[t].todo : InRange(Block[e], r)

(* Only ticks and whole processes fail, and none of them has lost a range. *)
CrawlIntact == Mode = "CRAWL" /\ FaultKinds \subseteq {"tick", "crash"} /\ abandoned = {}
CrawlInv == CrawlIntact => Calm /\ CompleteSoFar /\ OneBoot /\ AllLocked /\ CrawledSoFar
=============================================================================
