------------------------------ MODULE Multiples ------------------------------
(***************************************************************************)
(* Facts about the multiples of a number, which the loops over blocks and  *)
(* the loop over days both step through.                                   *)
(***************************************************************************)
EXTENDS Integers, TLAPS

(* The next multiple is one step further. *)
LEMMA StepOn ==
  ASSUME NEW k \in Int, NEW m \in Int
  PROVE  k * m \in Int /\ (k + 1) * m = k * m + m /\ (k - 1) * m = k * m - m
BY SMT

(* Of two multiples, the larger is at least a step further. *)
LEMMA MultiplesApart ==
  ASSUME NEW j \in Int, NEW k \in Int, NEW m \in Nat \ {0}, j < k
  PROVE  j * m + m <= k * m
<1>1. k - j - 1 \in Nat /\ (k - j - 1) * m \in Nat
  OBVIOUS
<1>2. (k - j - 1) * m = k * m - (j * m + m)
  OBVIOUS
<1>3. j * m \in Int /\ k * m \in Int
  OBVIOUS
<1>4. QED
  BY <1>1, <1>2, <1>3

(* Multiples are in order. *)
LEMMA InOrder ==
  ASSUME NEW j \in Int, NEW k \in Int, NEW m \in Nat \ {0}, j <= k
  PROVE  j * m <= k * m
<1>1. k - j \in Nat /\ (k - j) * m \in Nat /\ (k - j) * m = k * m - j * m
  OBVIOUS
<1>2. j * m \in Int /\ k * m \in Int
  OBVIOUS
<1>3. QED
  BY <1>1, <1>2

(* A number strictly between two neighbouring multiples is no multiple. *)
LEMMA NoMultiple ==
  ASSUME NEW a \in Nat, NEW n \in Int, NEW m \in Nat \ {0}, n * m < a, a < n * m + m
  PROVE  a % m # 0
<1> SUFFICES ASSUME a % m = 0 PROVE FALSE
  OBVIOUS
<1> DEFINE q == a \div m
<1>1. q \in Int /\ a = q * m + (a % m)
  OBVIOUS
<1> HIDE DEF q
<1>2. a = q * m /\ q * m \in Int /\ n * m \in Int
  BY <1>1
<1>3. CASE q <= n
  <2>1. CASE q = n
    BY <2>1, <1>2
  <2>2. CASE q < n
    BY <2>2, <1>1, <1>2, MultiplesApart
  <2>3. QED
    BY <2>1, <2>2, <1>1, <1>3
<1>4. CASE n < q
  BY <1>1, <1>2, <1>4, MultiplesApart
<1>5. QED
  BY <1>1, <1>3, <1>4

(* A multiple leaves no remainder. *)
LEMMA IsMultiple ==
  ASSUME NEW n \in Int, NEW m \in Nat \ {0}
  PROVE  (n * m) % m = 0
<1> DEFINE a == n * m
           q == a \div m
           r == a % m
<1>1. a \in Int /\ q \in Int /\ r \in 0..(m - 1) /\ a = q * m + r /\ q * m \in Int
  <2>1. a \in Int
    BY StepOn
  <2> HIDE DEF a
  <2>2. q \in Int /\ r \in 0..(m - 1) /\ a = q * m + r
    BY <2>1
  <2>3. q * m \in Int
    BY <2>2, StepOn
  <2>4. QED
    BY <2>1, <2>2, <2>3
<1> HIDE DEF q, r
<1>2. CASE q < n
  <2>1. q * m + m <= a
    BY <1>1, <1>2, MultiplesApart
  <2>2. QED
    BY <1>1, <2>1
<1>3. CASE n <= q
  <2>1. a <= q * m
    BY <1>1, <1>3, InOrder
  <2> HIDE DEF a
  <2>2. r = 0
    BY <1>1, <2>1
  <2>3. QED
    BY <2>2 DEF r, a
<1>4. QED
  BY <1>1, <1>2, <1>3

(* Division, from the quotient and the remainder. *)
LEMMA DivisionIs ==
  ASSUME NEW q \in Int, NEW m \in Nat \ {0}, NEW r \in 0..(m - 1)
  PROVE  (q * m + r) \div m = q
<1> DEFINE a == q * m + r
           p == a \div m
           rest == a % m
<1>1. q * m \in Int /\ r \in Int /\ a \in Int
  BY StepOn
<1>2. /\ p \in Int /\ rest \in 0..(m - 1) /\ a = p * m + rest /\ p * m \in Int
  <2>1. a \in Int
    BY <1>1
  <2> HIDE DEF a
  <2>2. p \in Int /\ rest \in 0..(m - 1) /\ a = p * m + rest
    BY <2>1
  <2>3. p * m \in Int
    BY <2>2, StepOn
  <2>4. QED
    BY <2>2, <2>3
<1> HIDE DEF p, rest
<1>3. ~(p < q)
  <2> SUFFICES ASSUME p < q PROVE FALSE
    OBVIOUS
  <2>1. p * m + m <= q * m
    BY <1>2, MultiplesApart
  <2>2. QED
    BY <1>1, <1>2, <2>1
<1>4. ~(q < p)
  <2> SUFFICES ASSUME q < p PROVE FALSE
    OBVIOUS
  <2>1. q * m + m <= p * m
    BY <1>2, MultiplesApart
  <2>2. QED
    BY <1>1, <1>2, <2>1
<1>5. p = q
  BY <1>2, <1>3, <1>4
<1>6. QED
  BY <1>5 DEF p

(* Whole steps come out of a division. *)
LEMMA StepsOut ==
  ASSUME NEW d \in Int, NEW c \in Int, NEW m \in Nat \ {0}
  PROVE  (d * m + c) \div m = d + (c \div m)
<1> DEFINE q == c \div m
           r == c % m
<1>1. q \in Int /\ r \in 0..(m - 1) /\ c = q * m + r
  OBVIOUS
<1> HIDE DEF q, r
<1>2. d * m \in Int /\ q * m \in Int /\ (d + q) * m = d * m + q * m
  <2>1. (d + q) * m = d * m + q * m
    BY <1>1, SMT
  <2>2. QED
    BY <1>1, <2>1, StepOn
<1>3. d * m + c = (d + q) * m + r
  BY <1>1, <1>2
<1>4. QED
  BY <1>1, <1>3, DivisionIs DEF q
=============================================================================
