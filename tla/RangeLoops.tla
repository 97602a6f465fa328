------------------------------ MODULE RangeLoops ------------------------------
(***************************************************************************)
(* The two loops every fetched window goes through, run one iteration at a *)
(* time: splitIntoRanges cuts [fromBlock, toBlock] into jobs, and for each *)
(* job createBatches cuts the job's range into provider queries.           *)
(***************************************************************************)
EXTENDS BlockRanges, Sequences, SequencesExt

CONSTANTS MaxBlock,   \* bound on the block numbers tried
          MaxStep     \* bound on splitValue and on the configured query limit

ASSUME RangeLoopsAssumption == MaxBlock \in Nat /\ MaxStep \in Nat \ {0}

VARIABLES fromBlock, toBlock,   \* the window handed to fetchStakingEvents
          splitValue,           \* ONE_DAY_BLOCK_RANGE
          configured,           \* web3Config.maxQueryBlockRange, 0 when unset
          pc, current,          \* which loop runs, and its counter
          ranges,               \* result of splitIntoRanges
          next,                 \* index of the range being batched
          batches               \* batches[i]: result of createBatches for ranges[i]

window == <<fromBlock, toBlock, splitValue, configured>>
vars == <<window, pc, current, ranges, next, batches>>

RangeType == [from : Int, to : Int]

TypeOK ==
  /\ fromBlock \in 0..MaxBlock /\ toBlock \in 0..MaxBlock
  /\ splitValue \in 1..MaxStep /\ configured \in 0..MaxStep
  /\ pc \in {"split", "batch", "done"}
  /\ current \in Nat
  /\ ranges \in Seq(RangeType)
  /\ next \in 1..(Len(ranges) + 1)
  /\ batches \in [1..Len(ranges) -> Seq(RangeType)]

Init ==
  /\ fromBlock \in 0..MaxBlock /\ toBlock \in 0..MaxBlock
  /\ ValidateBlockRange(fromBlock, toBlock)
  /\ splitValue \in 1..MaxStep /\ configured \in 0..MaxStep
  /\ pc = "split" /\ current = fromBlock
  /\ ranges = <<>> /\ next = 1 /\ batches = <<>>

(* One iteration of the loop of splitIntoRanges. *)
SplitIteration_NoList ==
  /\ pc = "split" /\ current < toBlock
  /\ ranges' = Append(ranges, [from |-> current, to |-> Lesser(current + splitValue - 1, toBlock)])
  /\ current' = current + splitValue
  /\ UNCHANGED <<window, pc, next, batches>>
SplitIteration_Overlapping ==
  /\ pc = "split" /\ current < toBlock
  /\ ranges' = Append(ranges, [from |-> current, to |-> Lesser(current + splitValue, toBlock)])
  /\ batches' = Append(batches, <<>>)
  /\ current' = current + splitValue
  /\ UNCHANGED <<window, pc, next>>
SplitIteration ==
  /\ pc = "split" /\ current < toBlock
  /\ LET rangeEnd == Lesser(current + splitValue - 1, toBlock)
     IN  /\ ranges' = Append(ranges, [from |-> current, to |-> rangeEnd])
         /\ batches' = Append(batches, <<>>)
  /\ current' = current + splitValue
  /\ UNCHANGED <<window, pc, next>>

(* The loop is over: the first job, if there is one, starts batching. *)
SplitEnds ==
  /\ pc = "split" /\ current >= toBlock
  /\ IF ranges = <<>>
       THEN pc' = "done" /\ UNCHANGED current
       ELSE pc' = "batch" /\ current' = Head(ranges).from
  /\ UNCHANGED <<window, ranges, next, batches>>

(* One iteration of the loop of createBatches. *)
BatchIteration_Unclamped ==
  /\ pc = "batch" /\ current <= ranges[next].to
  /\ batches' = [batches EXCEPT ![next] =
       Append(@, [from |-> current, to |-> current + MaxBlockRange(configured) - 1])]
  /\ current' = current + MaxBlockRange(configured)
  /\ UNCHANGED <<window, pc, ranges, next>>
BatchIteration ==
  /\ pc = "batch" /\ current <= ranges[next].to
  /\ LET batchEnd == Lesser(current + MaxBlockRange(configured) - 1, ranges[next].to)
     IN  batches' = [batches EXCEPT ![next] =
                       Append(@, [from |-> current, to |-> batchEnd])]
  /\ current' = current + MaxBlockRange(configured)
  /\ UNCHANGED <<window, pc, ranges, next>>

BatchEnds ==
  /\ pc = "batch" /\ current > ranges[next].to
  /\ next' = next + 1
  /\ IF next = Len(ranges)
       THEN pc' = "done" /\ UNCHANGED current
       ELSE pc' = "batch" /\ current' = ranges[next + 1].from
  /\ UNCHANGED <<window, ranges, batches>>

Next == SplitIteration \/ SplitEnds \/ BatchIteration \/ BatchEnds

Spec == Init /\ [][Next]_vars

(***************************************************************************)
(* Properties                                                              *)
(***************************************************************************)
Blocks(r) == r.from..r.to

(* A list of ranges tiles the blocks first..last: it starts at first, each range
   starts right after the one before it, and the last one ends at last. *)
Tiles(list, first, last) ==
  /\ \A i \in DOMAIN list : list[i].from <= list[i].to
  /\ \A i \in 1..(Len(list) - 1) : list[i + 1].from = list[i].to + 1
  /\ IF list = <<>> THEN first > last
                    ELSE Head(list).from = first /\ Last(list).to = last

(* splitIntoRanges loses exactly one block, the last, and only when the width
   toBlock - fromBlock is a multiple of splitValue (the loop test is < and not
   <=); every other window is tiled by jobs of at most splitValue blocks. *)
SplitLosesOnlyLastBlock ==
  pc # "split" =>
    /\ Tiles(ranges, fromBlock,
             IF (toBlock - fromBlock) % splitValue = 0 THEN toBlock - 1 ELSE toBlock)
    /\ \A i \in DOMAIN ranges : ranges[i].to - ranges[i].from < splitValue

(* createBatches tiles each job's range exactly: no block of a job is queried
   twice and none is left out, whatever the configured limit. *)
BatchesTileEachRange ==
  \A i \in 1..(next - 1) : Tiles(batches[i], ranges[i].from, ranges[i].to)

(* With a positive configured limit fetchStaking accepts every batch; with the
   limit 0 createBatches falls back to 10000 while surpassMaxQueryRange falls back
   to 0, and every batch of more than one block is refused. *)
BatchesAcceptedByProvider ==
  \A i \in DOMAIN batches : \A k \in DOMAIN batches[i] :
    LET b == batches[i][k]
    IN  SurpassMaxQueryRange(b.from, b.to, configured) <=> configured = 0 /\ b.from < b.to

(* The loops compute the sets of iterations that the other modules use. *)
LoopsMatchSets ==
  /\ pc # "split" => ToSet(ranges) = SplitIntoRanges(fromBlock, toBlock, splitValue)
  /\ \A i \in 1..(next - 1) :
       ToSet(batches[i]) = CreateBatches(ranges[i].from, ranges[i].to, configured)

(***************************************************************************)
(* The inductive invariant                                                 *)
(***************************************************************************)
(* The i-th iteration of  for (current = first; ...; current += step)  over a range that
   ends at last; the iterations so far of such a loop while current <= bound. *)
Iteration(first, last, step, i) ==
  [from |-> first + (i - 1) * step, to |-> Lesser(first + i * step - 1, last)]
Iterated(list, first, last, bound, step) ==
  \A i \in DOMAIN list :
    first + (i - 1) * step <= bound /\ list[i] = Iteration(first, last, step, i)

SplitInv ==
  /\ fromBlock <= toBlock
  /\ Iterated(ranges, fromBlock, toBlock, toBlock - 1, splitValue)
  /\ pc = "split" => next = 1 /\ current = fromBlock + Len(ranges) * splitValue
  /\ pc # "split" => fromBlock + Len(ranges) * splitValue >= toBlock

(* Each job is batched in its turn, and what is still to come has no batch yet. *)
Batched(i) == ranges[i].from + Len(batches[i]) * MaxBlockRange(configured)
BatchInv ==
  /\ pc = "batch" => next \in DOMAIN ranges /\ current = Batched(next)
  /\ \A i \in DOMAIN ranges :
       /\ Iterated(batches[i], ranges[i].from, ranges[i].to, ranges[i].to,
                   MaxBlockRange(configured))
       /\ next < i \/ (next = i /\ pc = "split") => batches[i] = <<>>
       /\ i < next => Batched(i) > ranges[i].to

LoopInv == TypeOK /\ SplitInv /\ BatchInv
=============================================================================
