----------------------------- MODULE MCRangeFetch -----------------------------
(* Small instances of RangeFetch. *)
EXTENDS RangeFetchInv, TLC

(* Four events in three blocks; the first two are one transaction. *)
MCTxHash == 1..3
MCTx == <<1, 1, 2, 3>>
MCBlock == <<1, 1, 2, 3>>

(* Four events of different transactions, two of them in one block, with a block between
   them that holds none. *)
MCTxHashGap == 1..4
MCTxGap == <<1, 2, 3, 4>>
MCBlockGap == <<0, 1, 1, 3>>

(* Three transactions of one event each, two of them in the first block. *)
MCTxHashPair == 1..3
MCTxPair == <<1, 2, 3>>
MCBlockPair == <<0, 0, 2>>

Slots == Permutations(TickId) \cup Permutations(JobId) \cup Permutations(RowId)
=============================================================================
