----------------------------- MODULE BlockRanges -----------------------------
(***************************************************************************)
(* The block arithmetic of the three indexers (staking, unstaking, request *)
(* reward): how the window to fetch is chosen, cut into one-day jobs and   *)
(* cut again into provider queries.  Each `for` loop of the source is given *)
(* here as the set of its iterations; module RangeLoops runs the loops     *)
(* themselves and checks that they produce these sets.                     *)
(*                                                                         *)
(* Here and in the other modules a definition named F_Variant is not part  *)
(* of the model: it is F with a plausible slip, and the checks of F must   *)
(* reject it.                                                              *)
(***************************************************************************)
EXTENDS Integers

Lesser(a, b) == IF a <= b THEN a ELSE b
Greater(a, b) == IF a >= b THEN a ELSE b

(* The values of `current` in  for (current = from; current <= last; current += step). *)
LoopStarts(from, last, step) ==
  {b \in from..last : \E k \in 0..(last - from) : b = from + k * step}

(* validateBlockRange returns normally. *)
ValidateBlockRange(from, to) == from >= 0 /\ to >= 0 /\ from <= to

(* splitIntoRanges: the loop condition is `current < toBlock`. *)
SplitIntoRanges_Inclusive(from, to, splitValue) ==
  {[from |-> b, to |-> Lesser(b + splitValue - 1, to)] :
     b \in LoopStarts(from, to, splitValue)}
SplitIntoRanges(from, to, splitValue) ==
  {[from |-> b, to |-> Lesser(b + splitValue - 1, to)] :
     b \in LoopStarts(from, to - 1, splitValue)}

(* this.web3Config?.maxQueryBlockRange || 10000 *)
MaxBlockRange(configured) == IF configured = 0 THEN 10000 ELSE configured

(* createBatches: the loop condition is `current <= toBlock`. *)
CreateBatches_Exclusive(from, to, configured) ==
  {[from |-> b, to |-> Lesser(b + MaxBlockRange(configured) - 1, to)] :
     b \in LoopStarts(from, to - 1, MaxBlockRange(configured))}
CreateBatches(from, to, configured) ==
  {[from |-> b, to |-> Lesser(b + MaxBlockRange(configured) - 1, to)] :
     b \in LoopStarts(from, to, MaxBlockRange(configured))}

(* surpassMaxQueryRange: here an unset or zero limit counts as 0, not 10000. *)
SurpassMaxQueryRange_Count(from, to, configured) == to - from + 1 > configured
SurpassMaxQueryRange(from, to, configured) == to - from > configured

(* The first block fetched when no successful checkpoint exists yet. *)
InitialFromBlock_Unclamped(newest, window) == newest - window
InitialFromBlock(newest, window) == Greater(newest - window, 0)
=============================================================================
