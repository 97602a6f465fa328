--------------------------- MODULE AnalyticsProofs ---------------------------
(***************************************************************************)
(* Machine-checked proofs about the movement reports, for days of any      *)
(* length, servers in any zone, and any window and table: which days a     *)
(* report lists, under which of them an event is counted, and what the     *)
(* reports add up to.                                                      *)
(***************************************************************************)
EXTENDS Analytics, Multiples, FiniteSetTheorems

(***************************************************************************)
(* Sums over finite sets of rows                                           *)
(***************************************************************************)
(* Every non-empty set of numbers has a least one. *)
LEMMA Least ==
  ASSUME NEW T \in SUBSET Nat, T # {}
  PROVE  \E n \in T : \A m \in T : n <= m
<1> DEFINE R == OpToRel(<, Nat)
<1>1. IsWellFoundedOn(R, Nat)
  BY NatLessThanWellFounded
<1>2. PICK n \in T : \A m \in T : ~(<<m, n>> \in R)
  <2> HIDE DEF R
  <2>1. QED
    BY <1>1, WFMin
<1>3. ASSUME NEW m \in T PROVE n <= m
  <2>1. ~(m < n)
    BY <1>2 DEF OpToRel
  <2>2. QED
    BY <2>1
<1>4. QED
  BY <1>3

(* Among some parts of a finite set there is one that leaves them when any of its
   elements is taken out. *)
LEMMA Smallest ==
  ASSUME NEW S, IsFiniteSet(S), NEW Bad \in SUBSET (SUBSET S), Bad # {}
  PROVE  \E s \in Bad : \A x \in s : s \ {x} \notin Bad
<1> DEFINE T == {Cardinality(s) : s \in Bad}
<1>1. \A s \in Bad : IsFiniteSet(s) /\ Cardinality(s) \in Nat
  BY FS_Subset, FS_CardinalityType
<1>2. PICK n \in T : \A m \in T : n <= m
  <2>1. T \in SUBSET Nat /\ T # {}
    BY <1>1
  <2> HIDE DEF T
  <2>2. QED
    BY <2>1, Least
<1>3. PICK s \in Bad : Cardinality(s) = n
  BY <1>2
<1>4. ASSUME NEW x \in s, s \ {x} \in Bad PROVE FALSE
  <2>1. Cardinality(s \ {x}) = Cardinality(s) - 1
    BY <1>1, FS_RemoveElement
  <2>2. Cardinality(s) <= Cardinality(s \ {x})
    BY <1>2, <1>3, <1>4
  <2>3. QED
    BY <1>1, <2>1, <2>2
<1>5. QED
  BY <1>4

(* How SumOf goes through a set: it takes out one element at a time. *)
Chosen(s) == CHOOSE x \in s : TRUE
Turn(f, s) == IF s = {} THEN 0 ELSE Chosen(s).amount + f[s \ {Chosen(s)}]
Iterates(f, S) == f = [s \in S |-> Turn(f, s)]

(* The element taken out is one of the set. *)
LEMMA ChosenIn ==
  ASSUME NEW s, s # {}
  PROVE  Chosen(s) \in s
BY DEF Chosen

(* SumOf applies the function that is defined by these turns. *)
LEMMA SumIs ==
  ASSUME NEW rows
  PROVE  SumOf(rows) = (CHOOSE f : Iterates(f, SUBSET rows))[rows]
BY DEF SumOf, MapThenSumSet, MapThenFoldSet, Iterates, Turn, Chosen

(* There is such a function for a finite set, built up by the size of its argument. *)
LEMMA IterationExists ==
  ASSUME NEW rows, IsFiniteSet(rows)
  PROVE  \E f : Iterates(f, SUBSET rows)
<1> DEFINE Upto(k) == {s \in SUBSET rows : Cardinality(s) <= k}
           Bad == {k \in Nat : ~ \E f : Iterates(f, Upto(k))}
<1>1. \A s \in SUBSET rows : IsFiniteSet(s) /\ Cardinality(s) \in Nat
  BY FS_Subset, FS_CardinalityType
<1>2. \A s \in SUBSET rows : Cardinality(s) = 0 <=> s = {}
  BY <1>1, FS_EmptySet
<1>3. \A s \in SUBSET rows : \A x \in s :
        s \ {x} \in SUBSET rows /\ Cardinality(s \ {x}) = Cardinality(s) - 1
  BY <1>1, FS_RemoveElement
<1>4. Bad = {}
  <2> SUFFICES ASSUME Bad # {} PROVE FALSE
    OBVIOUS
  <2>1. PICK n \in Bad : \A m \in Bad : n <= m
    BY Least
  <2>2. CASE n = 0
    <3>1. Upto(0) = {{}}
      BY <1>1, <1>2
    <3>2. Iterates([s \in Upto(0) |-> 0], Upto(0))
      BY <3>1 DEF Iterates, Turn
    <3>3. QED
      BY <2>2, <3>2
  <2>3. CASE n > 0
    <3>1. n \in Nat /\ n - 1 \in Nat /\ n - 1 \notin Bad
      <4>1. n \in Nat
        BY <2>1
      <4> HIDE DEF Bad
      <4>2. QED
        BY <2>1, <2>3, <4>1
    <3>2. PICK f : Iterates(f, Upto(n - 1))
      BY <3>1
    <3> DEFINE g == [s \in Upto(n) |-> Turn(f, s)]
    <3>3. ASSUME NEW s \in Upto(n) PROVE g[s] = Turn(g, s)
      <4>1. CASE s = {}
        BY <4>1 DEF Turn
      <4>2. CASE s # {}
        <5> DEFINE t == s \ {Chosen(s)}
        <5>1. Chosen(s) \in s
          BY <4>2, ChosenIn
        <5>2. t \in SUBSET rows /\ Cardinality(t) = Cardinality(s) - 1
          BY <1>3, <5>1
        <5>3. t \in Upto(n - 1) /\ t \in Upto(n)
          BY <1>1, <2>1, <5>2
        <5> HIDE DEF t, Upto
        <5>4. f[t] = Turn(f, t)
          BY <3>2, <5>3 DEF Iterates
        <5>5. g[t] = Turn(f, t)
          BY <5>3
        <5>6. QED
          BY <4>2, <5>4, <5>5 DEF Turn, t
      <4>3. QED
        BY <4>1, <4>2
    <3>4. Iterates(g, Upto(n))
      <4>1. g = [s \in Upto(n) |-> g[s]]
        OBVIOUS
      <4> HIDE DEF Upto
      <4>2. [s \in Upto(n) |-> g[s]] = [s \in Upto(n) |-> Turn(g, s)]
        BY <3>3
      <4>3. QED
        BY <4>1, <4>2 DEF Iterates
    <3>5. QED
      BY <2>1, <3>4
  <2>4. QED
    BY <2>1, <2>2, <2>3
<1>5. Upto(Cardinality(rows)) = SUBSET rows
  BY FS_Subset
<1>6. Cardinality(rows) \in Nat
  BY <1>1
<1>7. QED
  BY <1>4, <1>5, <1>6

(* Two such functions give the same sum wherever both give one. *)
LEMMA IterationsAgree ==
  ASSUME NEW S, IsFiniteSet(S), NEW R \in SUBSET S,
         NEW f, NEW g, Iterates(f, SUBSET S), Iterates(g, SUBSET R)
  PROVE  \A s \in SUBSET R : f[s] = g[s]
<1> DEFINE Bad == {s \in SUBSET R : f[s] # g[s]}
<1>1. SUFFICES ASSUME Bad # {} PROVE FALSE
  OBVIOUS
<1>2. IsFiniteSet(R) /\ Bad \in SUBSET (SUBSET R)
  BY FS_Subset
<1>3. PICK s \in Bad : \A x \in s : s \ {x} \notin Bad
  <2> HIDE DEF Bad
  <2>1. QED
    BY <1>1, <1>2, Smallest
<1>4. s \in SUBSET R /\ s \in SUBSET S
  BY <1>3
<1>5. f[s] = Turn(f, s) /\ g[s] = Turn(g, s)
  BY <1>4 DEF Iterates
<1>6. CASE s = {}
  BY <1>3, <1>5, <1>6 DEF Turn
<1>7. CASE s # {}
  <2>1. Chosen(s) \in s
    BY <1>7, ChosenIn
  <2>2. f[s \ {Chosen(s)}] = g[s \ {Chosen(s)}]
    BY <1>3, <1>4, <2>1
  <2>3. QED
    BY <1>3, <1>5, <2>2 DEF Turn
<1>8. QED
  BY <1>6, <1>7

(* One turn of SumOf. *)
LEMMA SumTurn ==
  ASSUME NEW rows, IsFiniteSet(rows)
  PROVE  /\ SumOf({}) = 0
         /\ rows # {} => SumOf(rows) = Chosen(rows).amount + SumOf(rows \ {Chosen(rows)})
<1> DEFINE F(S) == CHOOSE f : Iterates(f, SUBSET S)
<1>1. ASSUME NEW S, IsFiniteSet(S) PROVE Iterates(F(S), SUBSET S) /\ SumOf(S) = F(S)[S]
  BY <1>1, IterationExists, SumIs
<1> HIDE DEF F
<1>2. ASSUME NEW S, IsFiniteSet(S) PROVE F(S)[S] = Turn(F(S), S)
  BY <1>1, <1>2 DEF Iterates
<1>3. IsFiniteSet({})
  BY FS_EmptySet
<1>4. SumOf({}) = 0
  BY <1>1, <1>2, <1>3 DEF Turn
<1>5. ASSUME rows # {}
      PROVE  SumOf(rows) = Chosen(rows).amount + SumOf(rows \ {Chosen(rows)})
  <2> DEFINE rest == rows \ {Chosen(rows)}
  <2>1. IsFiniteSet(rest) /\ rest \in SUBSET rows
    BY FS_RemoveElement
  <2>2. F(rows)[rest] = F(rest)[rest]
    <3>1. Iterates(F(rows), SUBSET rows) /\ Iterates(F(rest), SUBSET rest)
      BY <1>1, <2>1
    <3>2. rest \in SUBSET rest
      OBVIOUS
    <3> HIDE DEF rest
    <3> DEFINE all == F(rows)
               part == F(rest)
    <3>3. Iterates(all, SUBSET rows) /\ Iterates(part, SUBSET rest)
      BY <3>1
    <3> HIDE DEF all, part
    <3>4. all[rest] = part[rest]
      BY <2>1, <3>2, <3>3, IterationsAgree
    <3>5. QED
      BY <3>4 DEF all, part
  <2>3. SumOf(rows) = Chosen(rows).amount + F(rows)[rest]
    BY <1>1, <1>2, <1>5 DEF Turn
  <2>4. QED
    BY <1>1, <2>1, <2>2, <2>3
<1>6. QED
  BY <1>4, <1>5

(* Nothing sums to 0, which is the COALESCE of the query. *)
LEMMA SumEmpty == SumOf({}) = 0
BY SumTurn, FS_EmptySet

(* What a table holds: finitely many rows, each with an amount. *)
Amounts(rows) == IsFiniteSet(rows) /\ \A e \in rows : e.amount \in Nat

(* A sum of amounts is an amount. *)
LEMMA SumType ==
  ASSUME NEW rows, Amounts(rows)
  PROVE  SumOf(rows) \in Nat
<1> DEFINE Bad == {s \in SUBSET rows : SumOf(s) \notin Nat}
<1>1. SUFFICES ASSUME Bad # {} PROVE FALSE
  OBVIOUS
<1>2. PICK s \in Bad : \A x \in s : s \ {x} \notin Bad
  <2>1. Bad \in SUBSET (SUBSET rows) /\ IsFiniteSet(rows)
    BY DEF Amounts
  <2> HIDE DEF Bad
  <2>2. QED
    BY <1>1, <2>1, Smallest
<1>3. s \in SUBSET rows /\ IsFiniteSet(s)
  BY <1>2, FS_Subset DEF Amounts
<1>4. s # {}
  <2>1. SumOf(s) \notin Nat
    BY <1>2
  <2>2. QED
    BY <2>1, SumEmpty
<1>5. SumOf(s) = Chosen(s).amount + SumOf(s \ {Chosen(s)}) /\ Chosen(s) \in s
  BY <1>3, <1>4, SumTurn, ChosenIn
<1>6. SumOf(s \ {Chosen(s)}) \in Nat /\ Chosen(s).amount \in Nat
  BY <1>2, <1>3, <1>5 DEF Amounts
<1>7. SumOf(s) \notin Nat
  BY <1>2
<1>8. QED
  BY <1>5, <1>6, <1>7

(* Any row may be taken out first. *)
LEMMA SumTakeOut ==
  ASSUME NEW rows, Amounts(rows), NEW e \in rows
  PROVE  SumOf(rows) = e.amount + SumOf(rows \ {e})
<1> DEFINE Bad == {s \in SUBSET rows : \E x \in s : SumOf(s) # x.amount + SumOf(s \ {x})}
<1>1. SUFFICES ASSUME Bad # {} PROVE FALSE
  OBVIOUS
<1>2. PICK s \in Bad : \A x \in s : s \ {x} \notin Bad
  <2>1. Bad \in SUBSET (SUBSET rows) /\ IsFiniteSet(rows)
    BY DEF Amounts
  <2> HIDE DEF Bad
  <2>2. QED
    BY <1>1, <2>1, Smallest
<1>3. s \in SUBSET rows /\ IsFiniteSet(s)
  BY <1>2, FS_Subset DEF Amounts
<1>4. PICK x \in s : SumOf(s) # x.amount + SumOf(s \ {x})
  BY <1>2
<1> DEFINE c == Chosen(s)
<1>5. SumOf(s) = c.amount + SumOf(s \ {c}) /\ c \in s
  BY <1>3, <1>4, SumTurn, ChosenIn
<1> HIDE DEF c
<1>6. x # c /\ x \in s \ {c} /\ c \in s \ {x}
  BY <1>4, <1>5
<1> DEFINE rest == SumOf(s \ {c, x})
<1>7. SumOf(s \ {c}) = x.amount + rest
  <2>1. s \ {c} \in SUBSET rows /\ s \ {c} \notin Bad /\ (s \ {c}) \ {x} = s \ {c, x}
    BY <1>2, <1>3, <1>5
  <2>2. QED
    BY <1>6, <2>1
<1>8. SumOf(s \ {x}) = c.amount + rest
  <2>1. s \ {x} \in SUBSET rows /\ s \ {x} \notin Bad /\ (s \ {x}) \ {c} = s \ {c, x}
    BY <1>2, <1>3
  <2>2. QED
    BY <1>6, <2>1
<1>9. x.amount \in Nat /\ c.amount \in Nat /\ rest \in Nat
  <2>1. s \ {c, x} \in SUBSET rows
    BY <1>3
  <2>2. Amounts(s \ {c, x})
    BY <2>1, FS_Subset DEF Amounts
  <2>3. rest \in Nat
    BY <2>2, SumType
  <2>4. QED
    BY <1>3, <1>5, <2>3 DEF Amounts
<1> HIDE DEF rest
<1>10. QED
  BY <1>4, <1>5, <1>7, <1>8, <1>9

(* The rows of two disjoint tables sum to the sum of their sums. *)
LEMMA SumUnion ==
  ASSUME NEW S, NEW T, Amounts(S), Amounts(T), S \cap T = {}
  PROVE  SumOf(S \cup T) = SumOf(S) + SumOf(T)
<1> DEFINE Bad == {t \in SUBSET T : SumOf(S \cup t) # SumOf(S) + SumOf(t)}
<1>1. SUFFICES ASSUME Bad # {} PROVE FALSE
  OBVIOUS
<1>2. PICK t \in Bad : \A x \in t : t \ {x} \notin Bad
  <2>1. Bad \in SUBSET (SUBSET T) /\ IsFiniteSet(T)
    BY DEF Amounts
  <2> HIDE DEF Bad
  <2>2. QED
    BY <1>1, <2>1, Smallest
<1>3. /\ t \in SUBSET T /\ Amounts(t)
      /\ SumOf(S \cup t) # SumOf(S) + SumOf(t)
  BY <1>2, FS_Subset DEF Amounts
<1>4. Amounts(S \cup t) /\ SumOf(S) \in Nat
  BY <1>3, FS_Union, SumType DEF Amounts
<1>5. CASE t = {}
  <2>1. SumOf(t) = 0 /\ S \cup t = S
    BY <1>5, SumEmpty
  <2>2. SumOf(S \cup t) = SumOf(S)
    BY <2>1
  <2>3. QED
    BY <1>3, <1>4, <2>1, <2>2
<1>6. CASE t # {}
  <2>1. PICK x : x \in t
    BY <1>6
  <2>2. SumOf(t) = x.amount + SumOf(t \ {x})
    BY <1>3, <2>1, SumTakeOut
  <2>3. SumOf(S \cup t) = x.amount + SumOf(S \cup (t \ {x}))
    <3>1. x \in S \cup t /\ (S \cup t) \ {x} = S \cup (t \ {x})
      BY <1>3, <2>1
    <3>2. QED
      BY <1>4, <3>1, SumTakeOut
  <2>4. SumOf(S \cup (t \ {x})) = SumOf(S) + SumOf(t \ {x})
    BY <1>2, <1>3, <2>1
  <2>5. x.amount \in Nat /\ SumOf(t \ {x}) \in Nat
    <3>1. Amounts(t \ {x})
      BY <1>3, FS_RemoveElement DEF Amounts
    <3>2. QED
      BY <1>3, <2>1, <3>1, SumType DEF Amounts
  <2>6. QED
    BY <1>3, <1>4, <2>2, <2>3, <2>4, <2>5
<1>7. QED
  BY <1>5, <1>6

(* Rows sorted under keys: the sum of the sums of the keys D is the sum of the rows that
   have a key of D. *)
SumsOf(rows, key, D) ==
  {[date |-> d, amount |-> SumOf({e \in rows : key[e] = d})] : d \in D}

Under(rows, key, D) == {e \in rows : key[e] \in D}

LEMMA SumByKey ==
  ASSUME NEW rows, Amounts(rows), NEW key, NEW D, IsFiniteSet(D)
  PROVE  SumOf(SumsOf(rows, key, D)) = SumOf(Under(rows, key, D))
<1> DEFINE Of(d) == {e \in rows : key[e] = d}
           under(A) == Under(rows, key, A)
           entry(d) == [date |-> d, amount |-> SumOf(Of(d))]
           sums(A) == {entry(d) : d \in A}
           Bad == {A \in SUBSET D : SumOf(sums(A)) # SumOf(under(A))}
<1>0. \A A : SumsOf(rows, key, A) = sums(A)
  BY DEF SumsOf
<1>1. SUFFICES ASSUME Bad # {} PROVE FALSE
  BY <1>0
<1>2. PICK A \in Bad : \A d \in A : A \ {d} \notin Bad
  <2>1. Bad \in SUBSET (SUBSET D)
    OBVIOUS
  <2> HIDE DEF Bad
  <2>2. QED
    BY <1>1, <2>1, Smallest
<1>3. A \in SUBSET D /\ IsFiniteSet(A) /\ SumOf(sums(A)) # SumOf(under(A))
  BY <1>2, FS_Subset
<1>4. \A B : Amounts(Of(B)) /\ Amounts(under(B))
  BY FS_Subset DEF Amounts, Under
<1>5. \A d : SumOf(Of(d)) \in Nat
  BY <1>4, SumType
<1>6. CASE A = {}
  <2>1. sums(A) = {} /\ under(A) = {}
    BY <1>6 DEF Under
  <2>2. QED
    BY <1>3, <2>1
<1>7. CASE A # {}
  <2>1. PICK d : d \in A
    BY <1>7
  <2> DEFINE B == A \ {d}
  <2>2. SumOf(sums(B)) = SumOf(under(B))
    BY <1>2, <1>3, <2>1
  <2>3. SumOf(under(A)) = SumOf(Of(d)) + SumOf(under(B))
    <3>1. under(A) = Of(d) \cup under(B) /\ Of(d) \cap under(B) = {}
      BY <2>1 DEF Under
    <3> HIDE DEF Of, under, B
    <3>2. QED
      BY <1>4, <3>1, SumUnion
  <2>4. SumOf(sums(A)) = SumOf(Of(d)) + SumOf(sums(B))
    <3>1. entry(d) \in sums(A)
      BY <2>1
    <3>2. \A a, b : a # b => entry(a) # entry(b)
      <4>1. \A a : entry(a).date = a
        OBVIOUS
      <4> HIDE DEF entry
      <4>2. QED
        BY <4>1
    <3>3. sums(A) \ {entry(d)} = sums(B)
      <4> HIDE DEF entry
      <4>1. QED
        BY <3>2
    <3>4. Amounts(sums(A))
      <4>1. \A a : entry(a).amount \in Nat
        BY <1>5
      <4> DEFINE f == [a \in A |-> entry(a)]
      <4> HIDE DEF entry
      <4>2. f \in Surjection(A, sums(A))
        BY DEF Surjection
      <4>3. IsFiniteSet(sums(A))
        <5> HIDE DEF f, sums
        <5>1. QED
          BY <1>3, <4>2, FS_Surjection
      <4>4. \A e \in sums(A) : e.amount \in Nat
        BY <4>1
      <4>5. QED
        BY <4>3, <4>4 DEF Amounts
    <3>5. entry(d).amount = SumOf(Of(d))
      OBVIOUS
    <3> HIDE DEF entry, sums, B, Of
    <3>6. QED
      BY <3>1, <3>3, <3>4, <3>5, SumTakeOut
  <2> HIDE DEF B, Of, under, sums
  <2>5. QED
    BY <1>3, <2>2, <2>3, <2>4
<1>8. QED
  BY <1>6, <1>7

(***************************************************************************)
(* Days and dates                                                          *)
(***************************************************************************)
(* The local day that begins at a local midnight is that midnight's day. *)
LEMMA MidnightIsOfItsDay ==
  ASSUME NEW d \in Int, NEW z \in Int
  PROVE  LocalMidnight(d, z) \in Int /\ LocalDay(LocalMidnight(d, z), z) = d
<1>1. Day \in Nat \ {0} /\ d * Day \in Int
  BY AnalyticsAssumption, StepOn
<1>2. (d * Day + 0) \div Day = d
  BY <1>1, DivisionIs
<1>3. LocalMidnight(d, z) \in Int /\ LocalMidnight(d, z) + z = d * Day + 0
  BY <1>1 DEF LocalMidnight
<1>4. QED
  BY <1>2, <1>3 DEF LocalDay

(* i days after a local midnight comes the local midnight i days later. *)
LEMMA MidnightsLater ==
  ASSUME NEW d \in Int, NEW z \in Int, NEW i \in Int
  PROVE  LocalDaysLater(LocalMidnight(d, z), i) = LocalMidnight(d + i, z)
<1>1. Day \in Int /\ d * Day \in Int /\ i * Day \in Int
  BY AnalyticsAssumption, StepOn
<1>2. (d + i) * Day = d * Day + i * Day
  BY <1>1, SMT
<1>3. QED
  BY <1>1, <1>2 DEF LocalDaysLater, LocalMidnight

(* The driver's conversion of a date and the key of an entry shift by the same amount, so
   an entry finds exactly the row whose date is the local day of the entry. *)
LEMMA KeyIsLocalDay ==
  ASSUME NEW d \in Int, NEW k \in Int, NEW z \in Int
  PROVE  Keyed(d, z, LocalMidnight(k, z)) <=> d = k
<1> DEFINE shift == (0 - z) \div Day
<1>1. Day \in Nat \ {0} /\ d * Day \in Int /\ k * Day \in Int /\ 0 - z \in Int
  BY AnalyticsAssumption, StepOn
<1>2. shift \in Int
  BY <1>1
<1>3. (d * Day + (0 - z)) \div Day = d + shift /\ (k * Day + (0 - z)) \div Day = k + shift
  BY <1>1, StepsOut
<1>4. d * Day - z = d * Day + (0 - z) /\ k * Day - z = k * Day + (0 - z)
  BY <1>1
<1>5. DateKey(DriverDate(d, z)) = d + shift /\ DateKey(LocalMidnight(k, z)) = k + shift
  BY <1>3, <1>4 DEF DateKey, DriverDate, UtcDate, LocalMidnight
<1> HIDE DEF shift
<1>6. QED
  BY <1>2, <1>5 DEF Keyed

(* An event's UTC date, compared with a day. *)
LEMMA DateBounds ==
  ASSUME NEW t \in Int, NEW d \in Int
  PROVE  UtcDate(t) \in Int /\ (UtcDate(t) < d <=> t < d * Day)
<1> DEFINE q == t \div Day
           r == t % Day
<1>1. /\ Day \in Nat \ {0} /\ d * Day \in Int
      /\ q \in Int /\ r \in 0..(Day - 1) /\ t = q * Day + r
  BY AnalyticsAssumption, StepOn
<1> HIDE DEF q, r
<1>2. q * Day \in Int
  BY <1>1, StepOn
<1>3. CASE q < d
  <2>1. q * Day + Day <= d * Day
    BY <1>1, <1>3, MultiplesApart
  <2>2. QED
    BY <1>1, <1>2, <1>3, <2>1 DEF UtcDate, q
<1>4. CASE d <= q
  <2>1. d * Day <= q * Day
    BY <1>1, <1>4, InOrder
  <2>2. ~(t < d * Day)
    BY <1>1, <1>2, <2>1
  <2>3. QED
    BY <1>1, <1>4, <2>2 DEF UtcDate, q
<1>5. QED
  BY <1>1, <1>3, <1>4

(* The width of a window is one instant short of a whole number of days, which rounding up
   makes good: it has one entry for each of its days, and none when it is empty. *)
LEMMA DaysListed ==
  ASSUME NEW first \in Int, NEW last \in Int, NEW z \in Int
  PROVE  DaysDiff(LocalMidnight(first, z), LocalMidnight(last, z) + Day - 1) =
           IF last < first THEN 0 ELSE last - first + 1
<1> DEFINE from == LocalMidnight(first, z)
           to == LocalMidnight(last, z) + Day - 1
           n == last - first + 1
<1>1. /\ Day \in Nat \ {0} /\ Day > 1 /\ n \in Int
      /\ first * Day \in Int /\ last * Day \in Int /\ n * Day \in Int
  BY AnalyticsAssumption, StepOn
<1>2. n * Day = last * Day - first * Day + Day
  BY <1>1, SMT
<1>3. to - from = n * Day - 1 /\ from \in Int /\ to \in Int
  BY <1>1, <1>2 DEF LocalMidnight
<1>4. CASE last < first
  <2>1. n <= 0 /\ 0 * Day = 0
    BY <1>1, <1>4
  <2>2. n * Day <= 0
    BY <1>1, <2>1, InOrder
  <2> HIDE DEF from, to, n
  <2>3. to < from
    BY <1>1, <1>3, <2>2
  <2>4. QED
    BY <1>4, <2>3 DEF DaysDiff, from, to
<1>5. CASE first <= last
  <2>1. 0 < n /\ 0 * Day = 0
    BY <1>1, <1>5
  <2>2. Day <= n * Day
    BY <1>1, <2>1, MultiplesApart
  <2>3. Day - 2 \in 0..(Day - 1)
    BY <1>1
  <2>4. (n * Day + (Day - 2)) \div Day = n
    BY <1>1, <2>3, DivisionIs
  <2>5. ~(last < first)
    BY <1>5
  <2> HIDE DEF from, to, n
  <2>6. ~(to < from) /\ to - from + Day - 1 = n * Day + (Day - 2)
    BY <1>1, <1>3, <2>2
  <2>7. DaysDiff(from, to) = n
    BY <2>4, <2>6 DEF DaysDiff
  <2>8. QED
    BY <2>5, <2>7 DEF from, to, n
<1>6. QED
  BY <1>4, <1>5

(***************************************************************************)
(* The inductive invariant                                                 *)
(***************************************************************************)
first == LocalDay(start, zone)
last == LocalDay(end, zone)

(* The window begins at a local midnight, and how many days it has. *)
LEMMA Window ==
  ASSUME MovementInv
  PROVE  /\ zone \in Int /\ first \in Int /\ last \in Int
         /\ fromDate = LocalMidnight(first, zone) /\ fromDate \in Int
         /\ toDate = LocalMidnight(last, zone) + Day - 1 /\ toDate \in Int
         /\ DaysDiff(fromDate, toDate) = IF last < first THEN 0 ELSE last - first + 1
         /\ DaysDiff(fromDate, toDate) \in Nat
<1>1. zone \in Int /\ start \in Int /\ end \in Int /\ Day \in Nat \ {0}
  BY AnalyticsAssumption DEF MovementInv
<1>2. first \in Int /\ last \in Int
  BY <1>1 DEF first, last, LocalDay
<1>3. fromDate = LocalMidnight(first, zone) /\ toDate = LocalMidnight(last, zone) + Day - 1
  BY DEF fromDate, toDate, GetFromDate, GetToDate, first, last
<1>4. LocalMidnight(first, zone) \in Int /\ LocalMidnight(last, zone) \in Int
  BY <1>1, <1>2, MidnightIsOfItsDay
<1>5. DaysDiff(fromDate, toDate) = IF last < first THEN 0 ELSE last - first + 1
  BY <1>1, <1>2, <1>3, DaysListed
<1>6. DaysDiff(fromDate, toDate) \in Nat
  BY <1>2, <1>5
<1>7. QED
  BY <1>1, <1>2, <1>3, <1>4, <1>5, <1>6

LEMMA InitMovementInv == MovementInit => MovementInv
<1> SUFFICES ASSUME MovementInit PROVE MovementInv
  OBVIOUS
<1>1. Day \in Nat /\ Days \in Nat
  BY AnalyticsAssumption
<1>2. Days * Day \in Int /\ (Days - 1) * Day \in Int
  BY <1>1, StepOn
<1>3. zone \in Zone /\ zone \in Int /\ start \in Int /\ end \in Int 
        /\ events \subseteq Event /\ IsFiniteSet(events)
  BY <1>1, <1>2, AnalyticsAssumption, TablesAssumption DEF MovementInit
<1>4. DaysDiff(fromDate, toDate) \in Nat
  <2>1. first \in Int /\ last \in Int
    BY <1>1, <1>3, AnalyticsAssumption DEF first, last, LocalDay
  <2>2. DaysDiff(fromDate, toDate) = IF last < first THEN 0 ELSE last - first + 1
    BY <1>3, <2>1, DaysListed
       DEF fromDate, toDate, GetFromDate, GetToDate, first, last
  <2>3. QED
    BY <2>1, <2>2
<1>5. report = <<>> /\ day = 0 /\ reporting = TRUE
  BY DEF MovementInit
<1>6. report = [i \in 1..day |->
                  Entry(SumsByDate(events, fromDate, toDate), fromDate, zone, i - 1)]
  BY <1>5
<1>7. QED
  BY <1>3, <1>4, <1>5, <1>6 DEF MovementInv

(* An iteration adds the entry of the next day. *)
LEMMA DayIterationKeeps ==
  ASSUME MovementInv, DayIteration
  PROVE  MovementInv'
<1> DEFINE sums == SumsByDate(events, fromDate, toDate)
           n == DaysDiff(fromDate, toDate)
           F(i) == Entry(sums, fromDate, zone, i - 1)
<1>1. /\ reporting /\ day < n /\ day' = day + 1
      /\ report' = Append(report, Entry(sums, fromDate, zone, day))
      /\ zone' = zone /\ start' = start /\ end' = end /\ events' = events
      /\ reporting' = reporting
  BY DEF DayIteration
<1>2. /\ fromDate' = fromDate /\ toDate' = toDate /\ sums' = sums /\ n' = n
  BY <1>1 DEF fromDate, toDate
<1>3. n \in Nat /\ day \in 0..n
  BY Window DEF MovementInv
<1>4. report = [i \in 1..day |-> F(i)]
  BY DEF MovementInv
<1>5. Entry(sums, fromDate, zone, day) = F(day + 1)
  BY <1>3
<1> HIDE DEF sums, n, F
<1>6. report' = [i \in 1..(day + 1) |-> F(i)]
  <2> DEFINE S == {F(i) : i \in Nat}
  <2>1. report \in Seq(S) /\ Len(report) = day
    BY <1>3, <1>4
  <2>2. F(day + 1) \in S
    BY <1>3
  <2>3. Append(report, F(day + 1)) = [i \in 1..(day + 1) |-> F(i)]
    BY <1>3, <1>4, <2>1, <2>2
  <2>4. QED
    BY <1>1, <1>5, <2>3
<1>7. report' = [i \in 1..day' |->
                   Entry(SumsByDate(events, fromDate, toDate)', fromDate', zone', i - 1)]
  BY <1>1, <1>2, <1>6 DEF F, sums
<1>8. day' \in 0..n'
  BY <1>1, <1>2, <1>3
<1>9. reporting'
  BY <1>1
<1>10. /\ zone' \in Zone /\ start' \in Int /\ end' \in Int
       /\ events' \subseteq Event /\ IsFiniteSet(events')
       /\ reporting' \in BOOLEAN
  BY <1>1 DEF MovementInv
<1>11. QED
  BY <1>7, <1>8, <1>9, <1>10 DEF MovementInv, n

(* MovementInv holds in every state of the loop over the days. *)
THEOREM MovementInvariance == MovementSpec => []MovementInv
<1>1. ASSUME MovementInv, DaysEnd PROVE MovementInv'
  <2>1. /\ day >= DaysDiff(fromDate, toDate) /\ reporting' = FALSE
        /\ zone' = zone /\ start' = start /\ end' = end /\ events' = events
        /\ report' = report /\ day' = day
    BY <1>1 DEF DaysEnd
  <2>2. fromDate' = fromDate /\ toDate' = toDate
    BY <2>1 DEF fromDate, toDate
  <2>3. DaysDiff(fromDate, toDate) \in Nat /\ day \in 0..DaysDiff(fromDate, toDate)
    BY <1>1, Window DEF MovementInv
  <2>4. day' = DaysDiff(fromDate, toDate)'
    BY <2>1, <2>2, <2>3
  <2>5. QED
    BY <1>1, <2>1, <2>2, <2>4 DEF MovementInv
<1>2. ASSUME MovementInv, UNCHANGED movementVars PROVE MovementInv'
  BY <1>2 DEF MovementInv, movementVars, fromDate, toDate
<1>3. ASSUME MovementInv, MovementNext PROVE MovementInv'
  BY <1>1, <1>3, DayIterationKeeps DEF MovementNext
<1>4. QED
  BY <1>2, <1>3, InitMovementInv, PTL DEF MovementSpec

(***************************************************************************)
(* What a movement report lists                                            *)
(***************************************************************************)
(* The entries of a finished list. *)
LEMMA Finished ==
  ASSUME MovementInv, ~reporting
  PROVE  /\ report = CompleteDateRange(SumsByDate(events, fromDate, toDate),
                                       fromDate, toDate, zone)
         /\ DOMAIN report = 1..DaysDiff(fromDate, toDate)
         /\ \A i \in DOMAIN report : report[i].date = LocalMidnight(first + (i - 1), zone)
<1> DEFINE n == DaysDiff(fromDate, toDate)
           sums == SumsByDate(events, fromDate, toDate)
<1>1. report = [i \in 1..n |-> Entry(sums, fromDate, zone, i - 1)]
  BY DEF MovementInv
<1>2. report = CompleteDateRange(sums, fromDate, toDate, zone)
  BY <1>1 DEF CompleteDateRange
<1>3. ASSUME NEW i \in 1..n
      PROVE  report[i].date = LocalMidnight(first + (i - 1), zone)
  <2>1. i - 1 \in Int /\ zone \in Int /\ first \in Int /\ fromDate = LocalMidnight(first, zone)
    BY Window
  <2>2. report[i].date = LocalDaysLater(fromDate, i - 1)
    BY <1>1 DEF Entry
  <2>3. QED
    BY <2>1, <2>2, MidnightsLater
<1>4. QED
  BY <1>1, <1>2, <1>3

(* The loop and the two Array.from copies give one list: one entry for each local day of
   the window, in order, in whatever zone the server runs. *)
THEOREM DaysListedOnce == MovementSpec => []EveryDayListedOnce
<1> SUFFICES ASSUME MovementInv, ~reporting
             PROVE  /\ report = StakingMovement(events, start, end, zone)
                    /\ report = TokenEmissionMovement(events, start, end, zone)
                    /\ [i \in DOMAIN report |-> LocalDay(report[i].date, zone)] =
                         [i \in 1..(last - first + 1) |-> first + i - 1]
  BY MovementInvariance, PTL DEF EveryDayListedOnce, first, last
<1>1. /\ report = StakingMovement(events, start, end, zone)
      /\ report = TokenEmissionMovement(events, start, end, zone)
  BY Finished DEF StakingMovement, TokenEmissionMovement, fromDate, toDate
<1>2. DOMAIN report = 1..(last - first + 1)
  <2>1. first \in Int /\ last \in Int
        /\ DOMAIN report = 1..(IF last < first THEN 0 ELSE last - first + 1)
    BY Window, Finished
  <2>2. QED
    BY <2>1
<1>3. ASSUME NEW i \in DOMAIN report PROVE LocalDay(report[i].date, zone) = first + i - 1
  <2>1. first \in Int /\ last \in Int /\ zone \in Int /\ i \in Int
    BY <1>2, Window
  <2>2. LocalDay(report[i].date, zone) = first + (i - 1)
    BY <2>1, Finished, MidnightIsOfItsDay
  <2>3. QED
    BY <2>1, <2>2
<1>4. QED
  BY <1>1, <1>2, <1>3

(* An event of the window is unlisted if its UTC date is not a local day of the window. *)
LEMMA UnlistedIs ==
  ASSUME MovementInv, NEW e \in Within(events, fromDate, toDate)
  PROVE  /\ e.time \in Int /\ UtcDate(e.time) \in Int
         /\ Unlisted(e) <=> UtcDate(e.time) < first \/ last < UtcDate(e.time)
<1> DEFINE d == UtcDate(e.time)
<1>1. zone \in Int /\ first \in Int /\ last \in Int
  BY Window
<1>2. e.time \in Int
  <2>1. e \in Event
    BY DEF Within, MovementInv
  <2>2. Days * Day \in Int
    BY AnalyticsAssumption, StepOn
  <2>3. QED
    BY <2>1, <2>2 DEF Event
<1>3. d \in Int /\ (d < first <=> e.time < first * Day)
  BY <1>1, <1>2, DateBounds
<1>4. d < last + 1 <=> e.time < (last + 1) * Day
  <2>1. last + 1 \in Int
    BY <1>1
  <2>2. QED
    BY <1>2, <2>1, DateBounds
<1>5. (last + 1) * Day \in Int
  BY <1>1, AnalyticsAssumption, StepOn
<1> HIDE DEF d
<1>6. e.time >= (last + 1) * Day <=> last < d
  BY <1>1, <1>2, <1>3, <1>4, <1>5
<1>7. Unlisted(e) <=> d < first \/ last < d
  BY <1>3, <1>6 DEF Unlisted, first, last
<1>8. QED
  BY <1>2, <1>3, <1>7 DEF d

(* Whether an event's date is a local day of the window decides if an entry counts it. *)
LEMMA DateDecides ==
  ASSUME MovementInv
  PROVE  EventsCountedOnce
<1> SUFFICES ASSUME ~reporting, NEW e \in Within(events, fromDate, toDate)
             PROVE  LET entries == {i \in DOMAIN report :
                                      Keyed(UtcDate(e.time), zone, report[i].date)}
                    IN  IF Unlisted(e) THEN entries = {}
                                       ELSE \E i \in DOMAIN report : entries = {i}
  BY DEF EventsCountedOnce
<1> DEFINE d == UtcDate(e.time)
           entries == {i \in DOMAIN report : Keyed(d, zone, report[i].date)}
<1>1. /\ zone \in Int /\ first \in Int /\ last \in Int
      /\ fromDate = LocalMidnight(first, zone) /\ fromDate \in Int
      /\ toDate = LocalMidnight(last, zone) + Day - 1 /\ toDate \in Int
      /\ DOMAIN report = 1..(IF last < first THEN 0 ELSE last - first + 1)
  BY Window, Finished
<1>2. d \in Int /\ (Unlisted(e) <=> d < first \/ last < d)
  BY UnlistedIs
<1>3. ASSUME NEW i \in DOMAIN report
      PROVE  Keyed(d, zone, report[i].date) <=> d = first + (i - 1)
  <2>1. i \in Int /\ first + (i - 1) \in Int
    BY <1>1
  <2>2. QED
    BY <1>1, <1>2, <2>1, Finished, KeyIsLocalDay
<1> HIDE DEF d
<1>4. CASE d < first \/ last < d
  <2>1. \A i \in DOMAIN report : d # first + (i - 1)
    BY <1>1, <1>2, <1>4
  <2>2. entries = {}
    BY <1>3, <2>1
  <2>3. QED
    BY <1>2, <1>4, <2>2 DEF d
<1>5. CASE first <= d /\ d <= last
  <2>1. d - first + 1 \in DOMAIN report
    BY <1>1, <1>2, <1>5
  <2>2. \A i \in DOMAIN report : d = first + (i - 1) <=> i = d - first + 1
    BY <1>1, <1>2
  <2>3. entries = {d - first + 1}
    BY <1>3, <2>1, <2>2
  <2>4. ~(d < first \/ last < d)
    BY <1>1, <1>2, <1>5
  <2>5. QED
    BY <1>2, <2>1, <2>3, <2>4 DEF d
<1>6. QED
  BY <1>1, <1>2, <1>4, <1>5

(* Each event of the window is counted under one entry, or under none when its UTC date is
   not a local day of the window. *)
THEOREM CountedOnce == MovementSpec => []EventsCountedOnce
BY MovementInvariance, DateDecides, PTL

(***************************************************************************)
(* What the reports add up to                                              *)
(***************************************************************************)
(* The rows of the table, and those of the window, have amounts that can be summed. *)
LEMMA TableAmounts ==
  ASSUME MovementInv
  PROVE  /\ Amounts(events) /\ \A S \in SUBSET events : Amounts(S)
         /\ \A e \in events : e.time \in Int
<1>1. \A e \in events : e.amount \in Nat /\ e.time \in Int
  <2>1. Days * Day \in Int
    BY AnalyticsAssumption, StepOn
  <2>2. events \subseteq Event
    BY DEF MovementInv
  <2>3. \A e \in events : e.time \in Int
    BY <2>1, <2>2 DEF Event
  <2>4. \A e \in events : e.amount \in Nat
    BY <2>2, AnalyticsAssumption DEF Event
  <2>5. QED
    BY <2>3, <2>4
<1>2. Amounts(events)
  BY <1>1 DEF Amounts, MovementInv
<1>3. ASSUME NEW S \in SUBSET events PROVE Amounts(S)
  BY <1>2, FS_Subset DEF Amounts
<1>4. QED
  BY <1>1, <1>2, <1>3

(* One row sums to its amount. *)
LEMMA SumSingle ==
  ASSUME NEW e, e.amount \in Nat
  PROVE  SumOf({e}) = e.amount
<1>1. Amounts({e}) /\ {e} \ {e} = {}
  BY FS_Singleton DEF Amounts
<1>2. SumOf({e}) = e.amount + SumOf({e} \ {e})
  BY <1>1, SumTakeOut
<1>3. QED
  BY <1>1, <1>2, SumEmpty

(* The instants of a local day are those between its midnights. *)
LEMMA LocalDayBounds ==
  ASSUME NEW t \in Int, NEW z \in Int, NEW d \in Int
  PROVE  /\ LocalDay(t, z) \in Int
         /\ LocalDay(t, z) < d <=> t < LocalMidnight(d, z)
<1>1. t + z \in Int /\ d * Day \in Int /\ LocalDay(t, z) = UtcDate(t + z)
  BY AnalyticsAssumption, StepOn DEF LocalDay, UtcDate
<1>2. UtcDate(t + z) \in Int /\ (UtcDate(t + z) < d <=> t + z < d * Day)
  BY <1>1, DateBounds
<1>3. t + z < d * Day <=> t < d * Day - z
  BY <1>1
<1>4. QED
  BY <1>1, <1>2, <1>3 DEF LocalMidnight

(* A window of local days holds the events whose local day is one of them. *)
LEMMA WindowHolds ==
  ASSUME NEW z \in Int, NEW a \in Int, NEW b \in Int, NEW rows,
         \A e \in rows : e.time \in Int
  PROVE  Within(rows, LocalMidnight(a, z), LocalMidnight(b, z) + Day - 1) =
           {e \in rows : LocalDay(e.time, z) \in a..b}
<1>1. LocalMidnight(b, z) + Day - 1 = LocalMidnight(b + 1, z) - 1 /\ LocalMidnight(b + 1, z) \in Int
  <2>1. Day \in Int /\ b * Day \in Int /\ (b + 1) * Day = b * Day + Day
    BY AnalyticsAssumption, StepOn
  <2>2. QED
    BY <2>1 DEF LocalMidnight
<1>2. LocalMidnight(a, z) \in Int
  BY MidnightIsOfItsDay
<1>3. ASSUME NEW e \in rows
      PROVE  /\ LocalMidnight(a, z) <= e.time /\ e.time <= LocalMidnight(b + 1, z) - 1
             <=> LocalDay(e.time, z) \in a..b
  <2> DEFINE t == e.time
             d == LocalDay(t, z)
  <2>1. t \in Int /\ b + 1 \in Int
    OBVIOUS
  <2>2. /\ d \in Int
        /\ d < a <=> t < LocalMidnight(a, z)
        /\ d < b + 1 <=> t < LocalMidnight(b + 1, z)
    BY <2>1, LocalDayBounds
  <2> HIDE DEF t, d
  <2>3. LocalMidnight(a, z) <= t /\ t <= LocalMidnight(b + 1, z) - 1 <=> a <= d /\ d <= b
    BY <1>1, <1>2, <2>1, <2>2
  <2>4. QED
    BY <2>2, <2>3 DEF t, d
<1>4. QED
  BY <1>1, <1>3 DEF Within

(* The total of a window is the sum of the totals of its local days. *)
THEOREM TotalsAddUp == MovementSpec => []TotalIsSumOfDays
<1> SUFFICES ASSUME MovementInv PROVE TotalIsSumOfDays
  BY MovementInvariance, PTL
<1> DEFINE localDay == [e \in events |-> LocalDay(e.time, zone)]
           total(d) == SumOf({e \in events : localDay[e] = d})
<1>1. /\ zone \in Int /\ first \in Int /\ last \in Int
      /\ fromDate = LocalMidnight(first, zone) /\ toDate = LocalMidnight(last, zone) + Day - 1
  BY Window
<1>2. Amounts(events) /\ \A e \in events : e.time \in Int
  BY TableAmounts
<1>3. TotalStakeAmount(events, start, end, zone) =
        SumOf({e \in events : LocalDay(e.time, zone) \in first..last})
  <2>1. TotalStakeAmount(events, start, end, zone) = SumOf(Within(events, fromDate, toDate))
    BY DEF TotalStakeAmount, fromDate, toDate
  <2>2. Within(events, fromDate, toDate) = {e \in events : LocalDay(e.time, zone) \in first..last}
    BY <1>1, <1>2, WindowHolds
  <2>3. QED
    BY <2>1, <2>2
<1>4. {e \in events : LocalDay(e.time, zone) \in first..last} =
        Under(events, localDay, first..last)
  BY DEF Under
<1>5. ASSUME NEW d \in first..last
      PROVE  DayTotal(d) = [date |-> d, amount |-> total(d)]
  <2>1. d \in Int
    BY <1>1
  <2> DEFINE midnight == LocalMidnight(d, zone)
  <2>2. GetFromDate(midnight, zone) = midnight /\ GetToDate(midnight, zone) = midnight + Day - 1
    BY <1>1, <2>1, MidnightIsOfItsDay DEF GetFromDate, GetToDate
  <2>3. Within(events, midnight, midnight + Day - 1) =
          {e \in events : LocalDay(e.time, zone) \in d..d}
    BY <1>1, <1>2, <2>1, WindowHolds
  <2>4. \A e \in events : LocalDay(e.time, zone) \in Int
    BY <1>1, <1>2, LocalDayBounds
  <2>5. {e \in events : LocalDay(e.time, zone) \in d..d} = {e \in events : localDay[e] = d}
    BY <2>1, <2>4
  <2>6. TotalStakeAmount(events, midnight, midnight, zone) = total(d)
    BY <2>2, <2>3, <2>5 DEF TotalStakeAmount
  <2>7. QED
    BY <2>6 DEF DayTotal
<1>6. {DayTotal(d) : d \in first..last} = SumsOf(events, localDay, first..last)
  BY <1>5 DEF SumsOf
<1>7. IsFiniteSet(first..last)
  BY <1>1, FS_Interval
<1> HIDE DEF localDay
<1>8. SumOf(SumsOf(events, localDay, first..last)) = SumOf(Under(events, localDay, first..last))
  BY <1>2, <1>7, SumByKey
<1>9. QED
  BY <1>3, <1>4, <1>6, <1>8 DEF TotalIsSumOfDays, first, last

(* An entry has the sum of the events whose UTC date is the local day of the entry. *)
LEMMA EntryAmount ==
  ASSUME MovementInv, ~reporting, NEW i \in DOMAIN report
  PROVE  report[i].amount =
           SumOf({e \in Within(events, fromDate, toDate) : UtcDate(e.time) = first + (i - 1)})
<1> DEFINE found == Within(events, fromDate, toDate)
           k == first + (i - 1)
           of(d) == {e \in found : UtcDate(e.time) = d}
           dates == {UtcDate(e.time) : e \in found}
           summed(d) == [date |-> d, amount |-> SumOf(of(d))]
           sums == {summed(d) : d \in dates}
           rows == {row \in sums : row.date = k}
<1>1. sums = SumsByDate(events, fromDate, toDate)
  BY DEF SumsByDate
<1>2. /\ zone \in Int /\ first \in Int /\ fromDate = LocalMidnight(first, zone)
      /\ i \in Int /\ i - 1 \in Int /\ k \in Int
  BY Window, Finished
<1>3. report[i].amount = AmountAt(sums, zone, LocalMidnight(k, zone))
  <2>1. report[i] = Entry(sums, fromDate, zone, i - 1)
    BY <1>1, Finished DEF CompleteDateRange
  <2>2. LocalDaysLater(fromDate, i - 1) = LocalMidnight(k, zone)
    BY <1>2, MidnightsLater
  <2> HIDE DEF sums, k
  <2>3. QED
    BY <2>1, <2>2 DEF Entry
<1>4. \A d \in dates : d \in Int
  BY UnlistedIs
<1>5. ASSUME NEW row \in sums
      PROVE  Keyed(row.date, zone, LocalMidnight(k, zone)) <=> row.date = k
  <2>1. row.date \in Int
    <3>1. \A d : summed(d).date = d
      OBVIOUS
    <3> HIDE DEF summed, dates
    <3>2. QED
      BY <1>4, <3>1
  <2> HIDE DEF k
  <2>2. QED
    BY <1>2, <2>1, KeyIsLocalDay
<1>6. report[i].amount = SumOf(rows)
  <2>1. {row \in sums : Keyed(row.date, zone, LocalMidnight(k, zone))} = rows
    <3> HIDE DEF sums, k
    <3>1. QED
      BY <1>5
  <2>2. QED
    BY <1>3, <2>1 DEF AmountAt
<1>7. SumOf(of(k)) \in Nat
  <2>1. of(k) \in SUBSET events
    BY DEF Within
  <2> HIDE DEF of
  <2>2. QED
    BY <2>1, TableAmounts, SumType
<1>8. SumOf(rows) = SumOf(of(k))
  <2>1. \A d \in dates : summed(d).date = d /\ summed(d).amount = SumOf(of(d))
    OBVIOUS
  <2>2. CASE k \in dates
    <3>1. rows = {summed(k)}
      <4> HIDE DEF summed, dates, k
      <4>1. QED
        BY <2>1, <2>2
    <3>2. SumOf({summed(k)}) = summed(k).amount
      <4>1. summed(k).amount \in Nat
        BY <1>7, <2>1, <2>2
      <4> HIDE DEF summed
      <4>2. QED
        BY <4>1, SumSingle
    <3> HIDE DEF rows, summed
    <3>3. QED
      BY <2>1, <2>2, <3>1, <3>2
  <2>3. CASE k \notin dates
    <3>1. of(k) = {}
      <4> HIDE DEF k
      <4>1. QED
        BY <2>3
    <3>2. rows = {}
      <4> HIDE DEF summed, dates, k
      <4>1. QED
        BY <2>1, <2>3
    <3> HIDE DEF of, rows
    <3>3. QED
      BY <3>1, <3>2
  <2>4. QED
    BY <2>2, <2>3
<1>9. QED
  BY <1>6, <1>8

(* The movement and the total of one window differ by the unlisted events, of which there
   are none on a server running in UTC. *)
THEOREM MovementsAddUp == MovementSpec => []MovementAddsUp
<1> SUFFICES ASSUME MovementInv, ~reporting
             PROVE  LET counted == Within(events, fromDate, toDate)
                        unlisted == {e \in counted : Unlisted(e)}
                    IN  /\ Reported + SumOf(unlisted) =
                             TotalUnstakeAmount(events, start, end, zone)
                        /\ zone = 0 => unlisted = {}
  BY MovementInvariance, PTL DEF MovementAddsUp
<1> DEFINE counted == Within(events, fromDate, toDate)
           unlisted == {e \in counted : Unlisted(e)}
           n == DaysDiff(fromDate, toDate)
           entry == [e \in counted |-> UtcDate(e.time) - first + 1]
           listed == Under(counted, entry, 1..n)
<1>1. /\ zone \in Int /\ first \in Int /\ last \in Int
      /\ n = (IF last < first THEN 0 ELSE last - first + 1) /\ DOMAIN report = 1..n
  BY Window, Finished
<1>2. \A e \in counted : /\ e.time \in Int /\ UtcDate(e.time) \in Int
                         /\ Unlisted(e) <=> UtcDate(e.time) < first \/ last < UtcDate(e.time)
  BY UnlistedIs
<1>3. TotalUnstakeAmount(events, start, end, zone) = SumOf(counted)
  BY DEF TotalUnstakeAmount, fromDate, toDate
<1>4. Reported = SumOf(listed)
  <2> DEFINE reported == {[date |-> i, amount |-> report[i].amount] : i \in DOMAIN report}
  <2>1. ASSUME NEW i \in 1..n
        PROVE  report[i].amount = SumOf({e \in counted : entry[e] = i})
    <3> DEFINE found == {e \in counted : UtcDate(e.time) = first + (i - 1)}
    <3>1. report[i].amount = SumOf(found)
      BY <1>1, EntryAmount
    <3>2. found = {e \in counted : entry[e] = i}
      <4>1. i \in Int
        BY <1>1
      <4> HIDE DEF counted
      <4>2. QED
        BY <1>1, <1>2, <4>1
    <3> HIDE DEF counted, found, entry
    <3>3. QED
      BY <3>1, <3>2
  <2>2. reported = SumsOf(counted, entry, 1..n)
    <3> HIDE DEF counted, n, entry
    <3>1. QED
      BY <1>1, <2>1 DEF SumsOf
  <2>3. Amounts(counted)
    BY TableAmounts DEF Within
  <2>4. IsFiniteSet(1..n)
    BY <1>1, FS_Interval
  <2> HIDE DEF counted, n, entry
  <2>5. SumOf(SumsOf(counted, entry, 1..n)) = SumOf(listed)
    BY <2>3, <2>4, SumByKey
  <2>6. QED
    BY <2>2, <2>5 DEF Reported
<1>5. listed \cup unlisted = counted /\ listed \cap unlisted = {}
  <2>1. \A e \in counted : entry[e] \in 1..n <=> ~Unlisted(e)
    <3> HIDE DEF counted, n
    <3>1. QED
      BY <1>1, <1>2
  <2> HIDE DEF entry, counted, n
  <2>2. QED
    BY <2>1 DEF Under
<1>6. SumOf(counted) = SumOf(listed) + SumOf(unlisted)
  <2>1. listed \in SUBSET events /\ unlisted \in SUBSET events
    BY DEF Under, Within
  <2>2. Amounts(listed) /\ Amounts(unlisted)
    <3> HIDE DEF listed, unlisted
    <3>1. QED
      BY <2>1, TableAmounts
  <2> HIDE DEF listed, unlisted, counted
  <2>3. QED
    BY <1>5, <2>2, SumUnion
<1>7. ASSUME zone = 0, NEW e \in counted PROVE ~Unlisted(e)
  <2>1. Day \in Int /\ first * Day \in Int /\ last * Day \in Int
        /\ (last + 1) * Day = last * Day + Day
    BY <1>1, AnalyticsAssumption, StepOn
  <2>2. fromDate = first * Day /\ toDate = last * Day + Day - 1
    BY <1>7, <2>1, Window DEF LocalMidnight
  <2>3. e.time \in Int /\ fromDate <= e.time /\ e.time <= toDate
    BY <1>2 DEF Within
  <2>4. ~(e.time < first * Day) /\ ~(e.time >= (last + 1) * Day)
    BY <2>1, <2>2, <2>3
  <2>5. QED
    BY <2>4 DEF Unlisted, first, last
<1> HIDE DEF listed
<1>8. QED
  BY <1>3, <1>4, <1>6, <1>7
=============================================================================
