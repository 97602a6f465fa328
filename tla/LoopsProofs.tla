----------------------------- MODULE LoopsProofs -----------------------------
(***************************************************************************)
(* Machine-checked proofs about the loops of splitIntoRanges and           *)
(* createBatches, for every window, split value and configured limit.      *)
(***************************************************************************)
EXTENDS RangeLoops, Multiples

(***************************************************************************)
(* What the iterations of a loop add up to                                 *)
(***************************************************************************)
(* One more iteration is appended. *)
LEMMA OneMore ==
  ASSUME NEW first \in Int, NEW last \in Int, NEW bound \in Int, NEW m \in Nat \ {0},
         NEW list \in Seq(RangeType), Iterated(list, first, last, bound, m),
         NEW b \in Int, b = first + Len(list) * m, b <= bound, bound <= last,
         NEW r, r = [from |-> b, to |-> Lesser(b + m - 1, last)]
  PROVE  /\ r \in RangeType
         /\ Append(list, r) \in Seq(RangeType)
         /\ Iterated(Append(list, r), first, last, bound, m)
         /\ b + m = first + Len(Append(list, r)) * m
<1> DEFINE n == Len(list)
<1>1. n \in Nat /\ n * m \in Int /\ (n + 1) * m = n * m + m /\ (n + 1 - 1) * m = n * m
  BY StepOn
<1>2. r = Iteration(first, last, m, n + 1)
  BY <1>1 DEF Iteration
<1>3. r \in RangeType
  BY DEF RangeType, Lesser
<1>4. /\ Append(list, r) \in Seq(RangeType) /\ Len(Append(list, r)) = n + 1
      /\ DOMAIN Append(list, r) = 1..(n + 1) /\ DOMAIN list = 1..n
      /\ Append(list, r)[n + 1] = r
      /\ \A i \in 1..n : Append(list, r)[i] = list[i]
  BY <1>3
<1>5. first + (n + 1 - 1) * m <= bound
  BY <1>1
<1>6. Iterated(Append(list, r), first, last, bound, m)
  <2>1. ASSUME NEW i \in 1..(n + 1)
        PROVE  /\ first + (i - 1) * m <= bound
               /\ Append(list, r)[i] = Iteration(first, last, m, i)
    <3>1. CASE i \in 1..n
      BY <3>1, <1>4 DEF Iterated
    <3>2. CASE i = n + 1
      BY <3>2, <1>2, <1>4, <1>5
    <3>3. QED
      BY <3>1, <3>2, <1>1
  <2>2. QED
    BY <2>1, <1>4 DEF Iterated
<1>7. b + m = first + Len(Append(list, r)) * m
  BY <1>1, <1>4
<1>8. QED
  BY <1>3, <1>4, <1>6, <1>7

(* When the loop is over, its list has the ranges of the set of its iterations. *)
LEMMA AllIterations ==
  ASSUME NEW first \in Int, NEW last \in Int, NEW bound \in Int, NEW m \in Nat \ {0},
         NEW list \in Seq(RangeType), Iterated(list, first, last, bound, m),
         first + Len(list) * m > bound
  PROVE  ToSet(list) = {[from |-> b, to |-> Lesser(b + m - 1, last)] :
                          b \in LoopStarts(first, bound, m)}
<1> DEFINE n == Len(list)
           S == {[from |-> b, to |-> Lesser(b + m - 1, last)] : b \in LoopStarts(first, bound, m)}
<1>1. n \in Nat /\ DOMAIN list = 1..n /\ n * m \in Int
  BY StepOn
<1>2. ASSUME NEW i \in 1..n PROVE list[i] \in S
  <2> DEFINE b == first + (i - 1) * m
  <2>1. /\ i - 1 \in Nat /\ (i - 1) * m \in Nat /\ i * m \in Int
        /\ i * m = (i - 1) * m + m /\ i - 1 <= (i - 1) * m
    <3>1. i - 1 \in Nat /\ i \in Int
      BY <1>1
    <3>2. (i - 1) * m \in Nat /\ i * m \in Int /\ i * m = (i - 1) * m + m
      BY <3>1, StepOn
    <3>3. i - 1 <= (i - 1) * m
      BY <3>1, SMT
    <3>4. QED
      BY <3>1, <3>2, <3>3
  <2>2. b <= bound /\ list[i] = Iteration(first, last, m, i)
    BY <1>1 DEF Iterated
  <2>3. b \in LoopStarts(first, bound, m)
    <3>1. b \in first..bound /\ i - 1 \in 0..(bound - first)
      BY <2>1, <2>2
    <3>2. QED
      BY <3>1 DEF LoopStarts
  <2>4. list[i] = [from |-> b, to |-> Lesser(b + m - 1, last)]
    <3>1. b + m - 1 = first + i * m - 1
      BY <2>1
    <3>2. list[i] = [from |-> b, to |-> Lesser(first + i * m - 1, last)]
      BY <2>2 DEF Iteration
    <3> HIDE DEF b
    <3>3. QED
      BY <3>1, <3>2
  <2>5. QED
    BY <2>3, <2>4
<1>3. ASSUME NEW b \in LoopStarts(first, bound, m)
      PROVE  \E i \in 1..n : list[i] = [from |-> b, to |-> Lesser(b + m - 1, last)]
  <2>1. PICK k \in 0..(bound - first) : b = first + k * m
    BY DEF LoopStarts
  <2>2. b \in Int /\ b <= bound /\ k \in Int /\ k * m \in Int
    BY <2>1, StepOn DEF LoopStarts
  <2>3. k < n
    <3> SUFFICES ASSUME n <= k PROVE FALSE
      BY <1>1, <2>2
    <3>2. n * m <= k * m
      BY <1>1, <2>2, InOrder
    <3>3. QED
      BY <3>2, <1>1, <2>1, <2>2
  <2>4. k + 1 \in 1..n /\ (k + 1) * m = k * m + m /\ (k + 1 - 1) * m = k * m
    BY <1>1, <2>1, <2>2, <2>3, StepOn
  <2>5. list[k + 1] = Iteration(first, last, m, k + 1)
    BY <1>1, <2>4 DEF Iterated
  <2>6. QED
    BY <2>1, <2>2, <2>4, <2>5 DEF Iteration
<1>4. ToSet(list) = {list[i] : i \in 1..n}
  BY <1>1 DEF ToSet
<1> HIDE DEF n
<1>5. QED
  BY <1>2, <1>3, <1>4

(* The i-th range of a list of iterations. *)
LEMMA Nth ==
  ASSUME NEW first \in Int, NEW last \in Int, NEW bound \in Int, NEW m \in Nat \ {0},
         NEW list \in Seq(RangeType), Iterated(list, first, last, bound, m), bound <= last,
         NEW i \in 1..Len(list)
  PROVE  /\ i \in DOMAIN list /\ i \in Int
         /\ list[i].from = first + (i - 1) * m
         /\ list[i].to = Lesser(first + i * m - 1, last)
         /\ list[i].from <= list[i].to
         /\ list[i].to - list[i].from < m
         /\ first + (i - 1) * m <= bound
         /\ i * m \in Int /\ (i - 1) * m = i * m - m
<1>1. /\ i \in DOMAIN list /\ i \in Int
      /\ list[i] = Iteration(first, last, m, i) /\ first + (i - 1) * m <= bound
  BY DEF Iterated
<1>2. i * m \in Int /\ (i - 1) * m = i * m - m
  BY <1>1, StepOn
<1>3. first + (i - 1) * m <= last
  BY <1>1, <1>2
<1>4. list[i].from = first + (i - 1) * m /\ list[i].to = Lesser(first + i * m - 1, last)
  BY <1>1 DEF Iteration
<1>5. list[i].from <= list[i].to /\ list[i].to - list[i].from < m
  <2> DEFINE p == i * m
  <2>1. /\ p \in Int /\ list[i].from = first + (p - m) /\ list[i].to = Lesser(first + p - 1, last)
        /\ first + (p - m) <= last
    BY <1>2, <1>3, <1>4
  <2> HIDE DEF p
  <2>2. QED
    BY <2>1 DEF Lesser
<1>6. QED
  BY <1>1, <1>2, <1>4, <1>5

(* Iterations follow one another: each range but the last is full, and the next one
   starts right after it. *)
LEMMA Chained ==
  ASSUME NEW first \in Int, NEW last \in Int, NEW bound \in Int, NEW m \in Nat \ {0},
         NEW list \in Seq(RangeType), Iterated(list, first, last, bound, m), bound <= last
  PROVE  /\ \A i \in DOMAIN list : /\ list[i].from <= list[i].to
                                   /\ list[i].to - list[i].from < m
         /\ \A i \in 1..(Len(list) - 1) : list[i + 1].from = list[i].to + 1
<1> DEFINE n == Len(list)
<1>1. n \in Nat /\ DOMAIN list = 1..n
  OBVIOUS
<1>2. ASSUME NEW i \in 1..n PROVE list[i].from <= list[i].to /\ list[i].to - list[i].from < m
  BY Nth
<1>3. ASSUME NEW i \in 1..(n - 1) PROVE list[i + 1].from = list[i].to + 1
  <2>1. i \in 1..n /\ i + 1 \in 1..n /\ i + 1 - 1 = i /\ i \in Int
    BY <1>1
  <2>2. list[i + 1].from = first + i * m /\ first + i * m <= bound
    BY <2>1, Nth
  <2>3. list[i].to = Lesser(first + i * m - 1, last) /\ i * m \in Int
    BY <2>1, Nth
  <2>4. QED
    BY <2>2, <2>3 DEF Lesser
<1>4. QED
  BY <1>1, <1>2, <1>3

(* Where a list of iterations begins and ends. *)
LEMMA EndsAt ==
  ASSUME NEW first \in Int, NEW last \in Int, NEW bound \in Int, NEW m \in Nat \ {0},
         NEW list \in Seq(RangeType), Iterated(list, first, last, bound, m), bound <= last,
         list # <<>>
  PROVE  /\ Head(list).from = first
         /\ Last(list).to = Lesser(first + Len(list) * m - 1, last)
         /\ first + (Len(list) - 1) * m <= bound
<1> DEFINE n == Len(list)
<1>1. n \in 1..n /\ 1 \in 1..n /\ Head(list) = list[1] /\ Last(list) = list[n]
  BY DEF Last
<1>2. list[1].from = first + (1 - 1) * m /\ (1 - 1) * m = 0
  BY <1>1, Nth
<1>3. list[n].to = Lesser(first + n * m - 1, last) /\ first + (n - 1) * m <= bound
  BY <1>1, Nth
<1>4. QED
  BY <1>1, <1>2, <1>3

(* A finished loop up to the last number tiles all of them. *)
LEMMA WholeIsTiled ==
  ASSUME NEW first \in Int, NEW last \in Int, NEW m \in Nat \ {0},
         NEW list \in Seq(RangeType), Iterated(list, first, last, last, m),
         first + Len(list) * m > last
  PROVE  Tiles(list, first, last)
<1>1. Len(list) \in Int /\ Len(list) * m \in Int
  BY StepOn
<1>2. CASE list = <<>>
  BY <1>2, <1>1 DEF Tiles
<1>3. CASE list # <<>>
  <2>1. Last(list).to = last /\ Head(list).from = first
    BY <1>1, <1>3, EndsAt DEF Lesser
  <2>2. QED
    BY <1>3, <2>1, Chained DEF Tiles
<1>4. QED
  BY <1>2, <1>3

(* A finished loop that stops one number early leaves out the last number exactly when it
   is a whole number of steps from the first. *)
LEMMA AllButLastIsTiled ==
  ASSUME NEW first \in Int, NEW last \in Int, NEW m \in Nat \ {0}, first <= last,
         NEW list \in Seq(RangeType), Iterated(list, first, last, last - 1, m),
         first + Len(list) * m >= last
  PROVE  Tiles(list, first, IF (last - first) % m = 0 THEN last - 1 ELSE last)
<1> DEFINE n == Len(list)
           e == IF (last - first) % m = 0 THEN last - 1 ELSE last
<1>1. /\ n \in Int /\ n * m \in Int /\ (n - 1) * m \in Int /\ (n - 1) * m = n * m - m
      /\ last - 1 \in Int /\ last - 1 <= last /\ last - first \in Nat
  BY StepOn
<1>2. CASE list = <<>>
  <2>1. n * m = 0
    BY <1>2
  <2>2. last - first = 0 /\ 0 % m = 0
    BY <2>1
  <2>3. e = last - 1 /\ first > e
    BY <2>2
  <2>4. QED
    BY <1>2, <2>3 DEF Tiles
<1>3. CASE list # <<>>
  <2> DEFINE Ends == /\ Head(list).from = first
                     /\ Last(list).to = Lesser(first + n * m - 1, last)
                     /\ first + (n - 1) * m <= last - 1
             Rest == /\ \A i \in DOMAIN list : list[i].from <= list[i].to
                     /\ \A i \in 1..(n - 1) : list[i + 1].from = list[i].to + 1
  <2>1. Ends /\ Rest
    <3> DEFINE bound == last - 1
    <3>1. bound \in Int /\ bound <= last /\ Iterated(list, first, last, bound, m)
      BY <1>1
    <3> HIDE DEF bound
    <3>2. Rest
      BY <3>1, Chained
    <3>3. /\ Head(list).from = first
          /\ Last(list).to = Lesser(first + Len(list) * m - 1, last)
          /\ first + (Len(list) - 1) * m <= bound
      BY <1>3, <3>1, EndsAt
    <3>4. QED
      BY <3>2, <3>3 DEF bound
  <2>2. Last(list).to = e
    <3>1. CASE first + n * m > last
      <4>1. Last(list).to = last
        <5> DEFINE p == n * m
        <5>1. p \in Int /\ first + p > last /\ Last(list).to = Lesser(first + p - 1, last)
          BY <1>1, <2>1, <3>1
        <5> HIDE DEF p
        <5>2. QED
          BY <5>1 DEF Lesser
      <4>2. (n - 1) * m < last - first /\ last - first < (n - 1) * m + m /\ n - 1 \in Int
        BY <1>1, <2>1, <3>1
      <4>3. (last - first) % m # 0
        BY <1>1, <4>2, NoMultiple
      <4>4. QED
        BY <4>1, <4>3
    <3>2. CASE first + n * m = last
      <4>1. Last(list).to = last - 1
        BY <1>1, <2>1, <3>2 DEF Lesser
      <4>2. last - first = n * m /\ (n * m) % m = 0
        BY <1>1, <3>2, IsMultiple
      <4>3. QED
        BY <4>1, <4>2
    <3>3. QED
      BY <1>1, <3>1, <3>2
  <2>3. QED
    BY <1>3, <2>1, <2>2 DEF Tiles
<1>4. QED
  BY <1>2, <1>3

(***************************************************************************)
(* The inductive invariant                                                 *)
(***************************************************************************)
(* The provider limit in force is positive. *)
LEMMA PositiveLimit ==
  ASSUME TypeOK
  PROVE  MaxBlockRange(configured) \in Nat \ {0}
BY RangeLoopsAssumption DEF TypeOK, MaxBlockRange

(* The types the arithmetic needs, and where the jobs start. *)
LEMMA Typed ==
  ASSUME LoopInv
  PROVE  /\ fromBlock \in Nat /\ toBlock \in Nat /\ splitValue \in Nat \ {0}
         /\ current \in Nat /\ next \in Nat \ {0} /\ Len(ranges) \in Nat
         /\ DOMAIN ranges = 1..Len(ranges)
         /\ ranges \in Seq(RangeType)
         /\ \A i \in DOMAIN ranges : /\ ranges[i] \in RangeType /\ ranges[i].from \in Nat
                                     /\ batches[i] \in Seq(RangeType)
<1>1. /\ fromBlock \in Nat /\ toBlock \in Nat /\ splitValue \in Nat \ {0}
      /\ current \in Nat /\ next \in Nat \ {0} /\ Len(ranges) \in Nat
      /\ DOMAIN ranges = 1..Len(ranges)
      /\ ranges \in Seq(RangeType)
  BY RangeLoopsAssumption DEF LoopInv, TypeOK
<1>2. ASSUME NEW i \in DOMAIN ranges
      PROVE  ranges[i] \in RangeType /\ ranges[i].from \in Nat /\ batches[i] \in Seq(RangeType)
  <2>1. ranges[i] \in RangeType /\ batches[i] \in Seq(RangeType)
    BY <1>1 DEF LoopInv, TypeOK
  <2>2. /\ i \in Int /\ i - 1 \in Nat /\ fromBlock + (i - 1) * splitValue <= toBlock - 1
        /\ ranges[i] = Iteration(fromBlock, toBlock, splitValue, i)
    BY <1>1 DEF LoopInv, SplitInv, Iterated
  <2>3. (i - 1) * splitValue \in Nat
    BY <1>1, <2>2, InOrder, StepOn
  <2>4. ranges[i].from = fromBlock + (i - 1) * splitValue
    BY <2>2 DEF Iteration
  <2>5. QED
    BY <1>1, <2>1, <2>3, <2>4
<1>3. QED
  BY <1>1, <1>2

LEMMA InitLoopInv == Init => LoopInv
<1> SUFFICES ASSUME Init PROVE LoopInv
  OBVIOUS
<1>1. ranges = <<>> /\ batches = <<>> /\ next = 1 /\ pc = "split" /\ current = fromBlock
  BY DEF Init
<1>2. fromBlock \in Nat /\ splitValue \in Nat /\ fromBlock <= toBlock
  BY RangeLoopsAssumption DEF Init, ValidateBlockRange
<1>3. Len(ranges) = 0 /\ DOMAIN ranges = {} /\ ranges \in Seq(RangeType)
  BY <1>1
<1>4. batches \in [1..Len(ranges) -> Seq(RangeType)]
  BY <1>1, <1>3
<1>5. TypeOK
  BY <1>1, <1>2, <1>3, <1>4 DEF TypeOK, Init
<1>6. SplitInv
  BY <1>1, <1>2, <1>3 DEF SplitInv, Iterated
<1>7. BatchInv
  BY <1>1, <1>3 DEF BatchInv
<1>8. QED
  BY <1>5, <1>6, <1>7 DEF LoopInv

LEMMA SplitIterationKeeps ==
  ASSUME LoopInv, SplitIteration
  PROVE  LoopInv'
<1> DEFINE r == [from |-> current, to |-> Lesser(current + splitValue - 1, toBlock)]
           n == Len(ranges)
<1>1. /\ pc = "split" /\ current < toBlock /\ next = 1
      /\ ranges' = Append(ranges, r) /\ batches' = Append(batches, <<>>)
      /\ current' = current + splitValue /\ pc' = pc /\ next' = next
      /\ fromBlock' = fromBlock /\ toBlock' = toBlock
      /\ splitValue' = splitValue /\ configured' = configured
  BY DEF SplitIteration, LoopInv, SplitInv, window
<1>2. /\ fromBlock \in Nat /\ toBlock \in Nat /\ splitValue \in Nat \ {0}
      /\ current \in Nat /\ n \in Nat /\ DOMAIN ranges = 1..n /\ ranges \in Seq(RangeType)
  BY Typed
<1>3. /\ current = fromBlock + n * splitValue /\ current <= toBlock - 1
      /\ toBlock - 1 \in Int /\ toBlock - 1 <= toBlock
      /\ Iterated(ranges, fromBlock, toBlock, toBlock - 1, splitValue)
  BY <1>1, <1>2 DEF LoopInv, SplitInv
<1>4. /\ r \in RangeType /\ ranges' \in Seq(RangeType)
      /\ Iterated(ranges', fromBlock, toBlock, toBlock - 1, splitValue)
      /\ current' = fromBlock + Len(ranges') * splitValue
  <2>1. fromBlock \in Int /\ toBlock \in Int /\ current \in Int
    BY <1>2
  <2>2. /\ r \in RangeType /\ Append(ranges, r) \in Seq(RangeType)
        /\ Iterated(Append(ranges, r), fromBlock, toBlock, toBlock - 1, splitValue)
        /\ current + splitValue = fromBlock + Len(Append(ranges, r)) * splitValue
    BY <1>2, <1>3, <2>1, OneMore
  <2>3. QED
    BY <1>1, <2>2
<1>5. Len(ranges') = n + 1 /\ DOMAIN ranges' = 1..(n + 1)
      /\ \A i \in 1..n : ranges'[i] = ranges[i]
  BY <1>1, <1>2, <1>4
<1>6. /\ batches' \in [1..(n + 1) -> Seq(RangeType)]
      /\ batches'[n + 1] = <<>>
      /\ \A i \in 1..n : batches'[i] = batches[i]
  <2>1. batches \in [1..n -> Seq(RangeType)]
    BY DEF LoopInv, TypeOK
  <2>2. batches \in Seq(Seq(RangeType)) /\ Len(batches) = n
    BY <1>2, <2>1
  <2>3. <<>> \in Seq(RangeType)
    OBVIOUS
  <2>4. /\ batches' \in Seq(Seq(RangeType)) /\ Len(batches') = n + 1
        /\ batches'[n + 1] = <<>>
        /\ \A i \in 1..n : batches'[i] = batches[i]
    BY <1>1, <1>2, <2>2, <2>3
  <2>5. batches' \in [1..(n + 1) -> Seq(RangeType)]
    BY <2>4
  <2>6. QED
    BY <2>4, <2>5
<1>7. TypeOK'
  BY <1>1, <1>2, <1>4, <1>5, <1>6 DEF LoopInv, TypeOK
<1>8. SplitInv'
  BY <1>1, <1>4 DEF LoopInv, SplitInv
<1>9. BatchInv'
  <2>1. ASSUME NEW i \in 1..(n + 1)
        PROVE  /\ Iterated(batches'[i], ranges'[i].from, ranges'[i].to, ranges'[i].to,
                           MaxBlockRange(configured'))
               /\ batches'[i] = <<>>
    <3>1. CASE i \in 1..n
      <4>1. 1 < i \/ (1 = i /\ pc = "split")
        BY <1>1, <3>1
      <4>2. QED
        BY <1>1, <1>2, <1>5, <1>6, <3>1, <4>1 DEF LoopInv, BatchInv
    <3>2. CASE i = n + 1
      BY <1>6, <3>2 DEF Iterated
    <3>3. QED
      BY <1>2, <3>1, <3>2
  <2>2. pc' # "batch" /\ next' = 1 /\ \A i \in 1..(n + 1) : ~(i < next')
    BY <1>1, <1>2
  <2>3. QED
    BY <1>5, <2>1, <2>2 DEF BatchInv
<1>10. QED
  BY <1>7, <1>8, <1>9 DEF LoopInv

LEMMA SplitEndsKeeps ==
  ASSUME LoopInv, SplitEnds
  PROVE  LoopInv'
<1>1. /\ pc = "split" /\ current >= toBlock /\ next = 1
      /\ ranges' = ranges /\ batches' = batches /\ next' = next
      /\ fromBlock' = fromBlock /\ toBlock' = toBlock
      /\ splitValue' = splitValue /\ configured' = configured
      /\ \/ ranges = <<>> /\ pc' = "done" /\ current' = current
         \/ ranges # <<>> /\ pc' = "batch" /\ current' = Head(ranges).from
  BY DEF SplitEnds, LoopInv, SplitInv, window
<1>2. /\ fromBlock \in Nat /\ toBlock \in Nat /\ splitValue \in Nat \ {0} /\ current \in Nat
      /\ Len(ranges) \in Nat /\ DOMAIN ranges = 1..Len(ranges) /\ ranges \in Seq(RangeType)
  BY Typed
<1>3. ASSUME ranges # <<>>
      PROVE  /\ 1 \in DOMAIN ranges /\ Head(ranges) = ranges[1] /\ ranges[1].from \in Nat
             /\ batches[1] = <<>> /\ Batched(1) = ranges[1].from
  <2>1. 1 \in DOMAIN ranges /\ Head(ranges) = ranges[1]
    BY <1>2, <1>3
  <2>2. ranges[1].from \in Nat
    BY <2>1, Typed
  <2>3. batches[1] = <<>>
    BY <1>1, <2>1 DEF LoopInv, BatchInv
  <2>4. Len(batches[1]) * MaxBlockRange(configured) = 0
    <3>1. MaxBlockRange(configured) \in Nat
      BY PositiveLimit DEF LoopInv
    <3>2. QED
      BY <2>3, <3>1
  <2>5. QED
    BY <2>1, <2>2, <2>3, <2>4 DEF Batched
<1>4. current' \in Nat
  BY <1>1, <1>2, <1>3
<1>5. TypeOK'
  BY <1>1, <1>4 DEF LoopInv, TypeOK
<1>6. SplitInv'
  BY <1>1 DEF LoopInv, SplitInv
<1>7. BatchInv'
  BY <1>1, <1>2, <1>3 DEF LoopInv, BatchInv, Batched
<1>8. QED
  BY <1>5, <1>6, <1>7 DEF LoopInv

LEMMA BatchIterationKeeps ==
  ASSUME LoopInv, BatchIteration
  PROVE  LoopInv'
<1> DEFINE M == MaxBlockRange(configured)
           to == ranges[next].to
           r == [from |-> current, to |-> Lesser(current + M - 1, to)]
           list == batches[next]
<1>1. /\ pc = "batch" /\ current <= to
      /\ batches' = [batches EXCEPT ![next] = Append(@, r)]
      /\ current' = current + M /\ pc' = pc /\ next' = next /\ ranges' = ranges
      /\ fromBlock' = fromBlock /\ toBlock' = toBlock
      /\ splitValue' = splitValue /\ configured' = configured
  BY DEF BatchIteration, window
<1>2. /\ current \in Nat /\ next \in Nat /\ DOMAIN ranges = 1..Len(ranges)
      /\ M \in Nat \ {0}
  BY Typed, PositiveLimit DEF LoopInv
<1>3. next \in DOMAIN ranges /\ current = Batched(next)
  BY <1>1 DEF LoopInv, BatchInv
<1>4. ranges[next].from \in Int /\ to \in Int /\ list \in Seq(RangeType)
  BY <1>3, Typed DEF RangeType
<1>5. Iterated(list, ranges[next].from, to, to, M)
  BY <1>3 DEF LoopInv, BatchInv
<1>6. /\ Append(list, r) \in Seq(RangeType)
      /\ Iterated(Append(list, r), ranges[next].from, to, to, M)
      /\ current + M = ranges[next].from + Len(Append(list, r)) * M
  <2>1. current = ranges[next].from + Len(list) * M /\ current \in Int /\ to <= to
    BY <1>2, <1>3, <1>4 DEF Batched
  <2>2. M \in Nat \ {0} /\ current <= to
    BY <1>1, <1>2
  <2> DEFINE first == ranges[next].from
             b == current
  <2>3. /\ first \in Int /\ to \in Int /\ list \in Seq(RangeType) /\ b \in Int
        /\ Iterated(list, first, to, to, M) /\ b = first + Len(list) * M
        /\ b <= to /\ to <= to
    BY <1>4, <1>5, <2>1, <2>2
  <2>4. r = [from |-> b, to |-> Lesser(b + M - 1, to)]
    OBVIOUS
  <2> HIDE DEF M, to, list, first, b, r
  <2>5. /\ Append(list, r) \in Seq(RangeType)
        /\ Iterated(Append(list, r), first, to, to, M)
        /\ b + M = first + Len(Append(list, r)) * M
    BY <2>2, <2>3, <2>4, OneMore
  <2>6. QED
    BY <2>5 DEF first, b
<1>7. /\ batches \in [1..Len(ranges) -> Seq(RangeType)]
      /\ batches' \in [1..Len(ranges) -> Seq(RangeType)]
      /\ batches'[next] = Append(list, r)
      /\ \A i \in DOMAIN ranges : i # next => batches'[i] = batches[i]
  <2>1. batches \in [1..Len(ranges) -> Seq(RangeType)]
    BY DEF LoopInv, TypeOK
  <2>2. batches' = [batches EXCEPT ![next] = Append(list, r)]
    BY <1>1
  <2> HIDE DEF list, r
  <2>3. QED
    BY <1>2, <1>3, <1>6, <2>1, <2>2
<1>8. TypeOK'
  BY <1>1, <1>2, <1>7 DEF LoopInv, TypeOK
<1>9. SplitInv'
  BY <1>1 DEF LoopInv, SplitInv
<1>10. BatchInv'
  <2>1. current' = Batched(next)'
    BY <1>1, <1>6, <1>7 DEF Batched
  <2>2. ASSUME NEW i \in DOMAIN ranges
        PROVE  /\ Iterated(batches'[i], ranges[i].from, ranges[i].to, ranges[i].to, M)
               /\ next < i => batches'[i] = <<>>
               /\ i < next => Batched(i)' > ranges[i].to
    <3>1. CASE i = next
      <4>1. ~(next < i) /\ ~(i < next)
        BY <1>2, <3>1
      <4>2. Iterated(batches'[i], ranges[i].from, ranges[i].to, ranges[i].to, M)
        BY <1>6, <1>7, <3>1
      <4>3. QED
        BY <4>1, <4>2
    <3>2. CASE i # next
      BY <1>1, <1>7, <3>2 DEF LoopInv, BatchInv, Batched
    <3>3. QED
      BY <3>1, <3>2
  <2>3. QED
    BY <1>1, <1>3, <2>1, <2>2 DEF BatchInv
<1>11. QED
  BY <1>8, <1>9, <1>10 DEF LoopInv

LEMMA BatchEndsKeeps ==
  ASSUME LoopInv, BatchEnds
  PROVE  LoopInv'
<1> DEFINE n == Len(ranges)
<1>1. /\ pc = "batch" /\ current > ranges[next].to
      /\ next' = next + 1 /\ ranges' = ranges /\ batches' = batches
      /\ fromBlock' = fromBlock /\ toBlock' = toBlock
      /\ splitValue' = splitValue /\ configured' = configured
      /\ \/ next = n /\ pc' = "done" /\ current' = current
         \/ next # n /\ pc' = "batch" /\ current' = ranges[next + 1].from
  BY DEF BatchEnds, window
<1>2. DOMAIN ranges = 1..n /\ current \in Nat
  BY Typed
<1>3. next \in Nat /\ n \in Nat /\ next \in 1..n
  BY <1>1, Typed DEF LoopInv, BatchInv
<1>4. current = Batched(next)
  BY <1>1 DEF LoopInv, BatchInv
<1> HIDE DEF n
<1>5. ASSUME next # n
      PROVE  next + 1 \in 1..n /\ next < next + 1
  BY <1>3, <1>5
<1>6. ASSUME next # n
      PROVE  /\ ranges[next + 1].from \in Nat
             /\ Batched(next + 1) = ranges[next + 1].from
  <2>1. next + 1 \in DOMAIN ranges /\ next < next + 1
    BY <1>2, <1>5, <1>6
  <2>2. ranges[next + 1].from \in Nat
    BY <2>1, Typed
  <2>3. Len(batches[next + 1]) = 0
    BY <2>1 DEF LoopInv, BatchInv
  <2>4. Len(batches[next + 1]) * MaxBlockRange(configured) = 0
    <3>1. MaxBlockRange(configured) \in Nat
      BY PositiveLimit DEF LoopInv
    <3>2. QED
      BY <2>3, <3>1
  <2>5. QED
    BY <2>1, <2>2, <2>4 DEF Batched
<1>7. current' \in Nat
  BY <1>1, <1>2, <1>6
<1>8. next' \in 1..(n + 1)
  BY <1>1, <1>3
<1>9. TypeOK'
  BY <1>1, <1>7, <1>8 DEF LoopInv, TypeOK, n
<1>10. SplitInv'
  BY <1>1 DEF LoopInv, SplitInv
<1>11. BatchInv'
  <2>1. pc' = "batch" => next' \in DOMAIN ranges' /\ current' = Batched(next)'
    BY <1>1, <1>2, <1>5, <1>6 DEF Batched
  <2>2. ASSUME NEW i \in DOMAIN ranges
        PROVE  /\ Iterated(batches[i], ranges[i].from, ranges[i].to, ranges[i].to,
                           MaxBlockRange(configured))
               /\ next' < i \/ (next' = i /\ pc' = "split") => batches[i] = <<>>
               /\ i < next' => Batched(i) > ranges[i].to
    <3> i \in Nat
      BY <1>2, <1>3
    <3>1. Iterated(batches[i], ranges[i].from, ranges[i].to, ranges[i].to,
                   MaxBlockRange(configured))
      BY DEF LoopInv, BatchInv
    <3>2. ASSUME next' < i \/ (next' = i /\ pc' = "split") PROVE batches[i] = <<>>
      <4>1. pc' # "split"
        BY <1>1
      <4>2. next + 1 < i
        BY <1>1, <3>2, <4>1
      <4>3. next < i
        BY <1>3, <4>2
      <4>4. QED
        BY <4>3 DEF LoopInv, BatchInv
    <3>3. ASSUME i < next' PROVE Batched(i) > ranges[i].to
      <4>1. i < next + 1
        BY <1>1, <3>3
      <4>2. i = next \/ i < next
        BY <1>3, <4>1
      <4>3. CASE i = next
        BY <1>1, <1>4, <4>3
      <4>4. CASE i < next
        BY <4>4 DEF LoopInv, BatchInv
      <4>5. QED
        BY <4>2, <4>3, <4>4
    <3>4. QED
      BY <3>1, <3>2, <3>3
  <2>3. QED
    BY <1>1, <2>1, <2>2 DEF BatchInv, Batched
<1>12. QED
  BY <1>9, <1>10, <1>11 DEF LoopInv

(* LoopInv holds in every state of the two loops: what has been produced so far is an
   initial part of the iterations of its loop, and the counter stands at the next one. *)
THEOREM LoopInvariance == Spec => []LoopInv
<1>1. ASSUME LoopInv, UNCHANGED vars PROVE LoopInv'
  BY <1>1 DEF LoopInv, TypeOK, SplitInv, BatchInv, Iterated, Batched, vars, window
<1>2. ASSUME LoopInv, Next PROVE LoopInv'
  BY <1>2, SplitIterationKeeps, SplitEndsKeeps, BatchIterationKeeps, BatchEndsKeeps DEF Next
<1>3. QED
  BY <1>1, <1>2, InitLoopInv, PTL DEF Spec

(* The loops keep every variable in its type, for windows, split values and limits of any
   size. *)
THEOREM LoopTypes == Spec => []TypeOK
BY LoopInvariance, PTL DEF LoopInv

(***************************************************************************)
(* What the loops promise                                                  *)
(***************************************************************************)
(* splitIntoRanges tiles the window with jobs no wider than a day, and loses its last block
   exactly when toBlock - fromBlock is a whole number of days. *)
THEOREM SplitCoversAllButLast == Spec => []SplitLosesOnlyLastBlock
<1> SUFFICES ASSUME LoopInv PROVE SplitLosesOnlyLastBlock
  BY LoopInvariance, PTL
<1> SUFFICES ASSUME pc # "split"
             PROVE  /\ Tiles(ranges, fromBlock,
                             IF (toBlock - fromBlock) % splitValue = 0
                               THEN toBlock - 1 ELSE toBlock)
                    /\ \A i \in DOMAIN ranges : ranges[i].to - ranges[i].from < splitValue
  BY DEF SplitLosesOnlyLastBlock
<1>1. /\ fromBlock \in Int /\ toBlock \in Int /\ toBlock - 1 \in Int /\ splitValue \in Nat \ {0}
      /\ toBlock - 1 <= toBlock /\ ranges \in Seq(RangeType)
  BY Typed
<1>2. /\ fromBlock <= toBlock /\ fromBlock + Len(ranges) * splitValue >= toBlock
      /\ Iterated(ranges, fromBlock, toBlock, toBlock - 1, splitValue)
  BY DEF LoopInv, SplitInv
<1>3. Tiles(ranges, fromBlock,
            IF (toBlock - fromBlock) % splitValue = 0 THEN toBlock - 1 ELSE toBlock)
  BY <1>1, <1>2, AllButLastIsTiled
<1>4. \A i \in DOMAIN ranges : ranges[i].to - ranges[i].from < splitValue
  BY <1>1, <1>2, Chained
<1>5. QED
  BY <1>3, <1>4

(* createBatches queries every block of a job exactly once, in order, for any limit. *)
THEOREM BatchesCoverJobs == Spec => []BatchesTileEachRange
<1> SUFFICES ASSUME LoopInv PROVE BatchesTileEachRange
  BY LoopInvariance, PTL
<1> SUFFICES ASSUME NEW i \in 1..(next - 1)
             PROVE  Tiles(batches[i], ranges[i].from, ranges[i].to)
  BY DEF BatchesTileEachRange
<1>1. i \in DOMAIN ranges /\ i < next
  BY Typed DEF LoopInv, TypeOK
<1>2. /\ ranges[i].from \in Int /\ ranges[i].to \in Int /\ batches[i] \in Seq(RangeType)
      /\ MaxBlockRange(configured) \in Nat \ {0}
  BY <1>1, Typed, PositiveLimit DEF RangeType, LoopInv
<1>3. /\ Iterated(batches[i], ranges[i].from, ranges[i].to, ranges[i].to,
                  MaxBlockRange(configured))
      /\ ranges[i].from + Len(batches[i]) * MaxBlockRange(configured) > ranges[i].to
  BY <1>1 DEF LoopInv, BatchInv, Batched
<1>4. QED
  BY <1>2, <1>3, WholeIsTiled

(* fetchStaking never refuses a batch of createBatches when the limit is set, and refuses
   every batch of more than one block when the limit is 0. *)
THEOREM LimitsAgree == Spec => []BatchesAcceptedByProvider
<1> SUFFICES ASSUME LoopInv PROVE BatchesAcceptedByProvider
  BY LoopInvariance, PTL
<1> SUFFICES ASSUME NEW i \in DOMAIN batches, NEW k \in DOMAIN batches[i]
             PROVE  SurpassMaxQueryRange(batches[i][k].from, batches[i][k].to, configured)
                      <=> configured = 0 /\ batches[i][k].from < batches[i][k].to
  BY DEF BatchesAcceptedByProvider
<1> DEFINE b == batches[i][k]
<1>1. i \in DOMAIN ranges
  BY Typed DEF LoopInv, TypeOK
<1>2. /\ ranges[i].from \in Int /\ ranges[i].to \in Int /\ batches[i] \in Seq(RangeType)
      /\ MaxBlockRange(configured) \in Nat \ {0} /\ ranges[i].to <= ranges[i].to
      /\ configured \in Nat
  <2>1. ranges[i] \in RangeType /\ batches[i] \in Seq(RangeType)
    BY <1>1, Typed
  <2>2. MaxBlockRange(configured) \in Nat \ {0}
    BY PositiveLimit DEF LoopInv
  <2>3. configured \in Nat
    BY RangeLoopsAssumption DEF LoopInv, TypeOK
  <2>4. QED
    BY <2>1, <2>2, <2>3 DEF RangeType
<1>3. Iterated(batches[i], ranges[i].from, ranges[i].to, ranges[i].to,
               MaxBlockRange(configured))
  BY <1>1 DEF LoopInv, BatchInv
<1>4. b \in RangeType
  BY <1>2
<1>5. b.to - b.from < MaxBlockRange(configured)
  <2> DEFINE M == MaxBlockRange(configured)
             list == batches[i]
             first == ranges[i].from
             last == ranges[i].to
  <2>1. \A j \in DOMAIN list : list[j].to - list[j].from < M
    <3>1. /\ first \in Int /\ last \in Int /\ M \in Nat \ {0} /\ list \in Seq(RangeType)
          /\ Iterated(list, first, last, last, M) /\ last <= last
      BY <1>2, <1>3
    <3> HIDE DEF M, list, first, last
    <3>2. QED
      BY <3>1, Chained
  <2>2. QED
    BY <2>1
<1>6. b.from \in Int /\ b.to \in Int
  BY <1>4 DEF RangeType
<1> HIDE DEF b
<1>7. QED
  BY <1>2, <1>5, <1>6 DEF SurpassMaxQueryRange, MaxBlockRange, b

(* The sets of jobs and batches that the indexer models use are what the loops compute. *)
THEOREM LoopsComputeSets == Spec => []LoopsMatchSets
<1> SUFFICES ASSUME LoopInv PROVE LoopsMatchSets
  BY LoopInvariance, PTL
<1>1. ASSUME pc # "split" PROVE ToSet(ranges) = SplitIntoRanges(fromBlock, toBlock, splitValue)
  <2>1. /\ fromBlock \in Int /\ toBlock \in Int /\ toBlock - 1 \in Int
        /\ splitValue \in Nat \ {0} /\ ranges \in Seq(RangeType)
    BY Typed
  <2>2. /\ fromBlock + Len(ranges) * splitValue >= toBlock
        /\ Iterated(ranges, fromBlock, toBlock, toBlock - 1, splitValue)
    BY <1>1 DEF LoopInv, SplitInv
  <2>3. fromBlock + Len(ranges) * splitValue > toBlock - 1
    <3>1. Len(ranges) * splitValue \in Int
      BY <2>1, StepOn
    <3>2. QED
      BY <2>1, <2>2, <3>1
  <2>4. QED
    BY <2>1, <2>2, <2>3, AllIterations DEF SplitIntoRanges
<1>2. ASSUME NEW i \in 1..(next - 1)
      PROVE  ToSet(batches[i]) = CreateBatches(ranges[i].from, ranges[i].to, configured)
  <2>1. i \in DOMAIN ranges /\ i < next
    BY Typed DEF LoopInv, TypeOK
  <2>2. /\ ranges[i].from \in Int /\ ranges[i].to \in Int /\ batches[i] \in Seq(RangeType)
        /\ MaxBlockRange(configured) \in Nat \ {0}
    BY <2>1, Typed, PositiveLimit DEF RangeType, LoopInv
  <2>3. /\ Iterated(batches[i], ranges[i].from, ranges[i].to, ranges[i].to,
                    MaxBlockRange(configured))
        /\ ranges[i].from + Len(batches[i]) * MaxBlockRange(configured) > ranges[i].to
    BY <2>1 DEF LoopInv, BatchInv, Batched
  <2>4. ToSet(batches[i]) =
          {[from |-> b, to |-> Lesser(b + MaxBlockRange(configured) - 1, ranges[i].to)] :
             b \in LoopStarts(ranges[i].from, ranges[i].to, MaxBlockRange(configured))}
    BY <2>2, <2>3, AllIterations
  <2>5. QED
    BY <2>4 DEF CreateBatches
<1>3. QED
  BY <1>1, <1>2 DEF LoopsMatchSets
=============================================================================
