----------------------------- MODULE RangeLedger -----------------------------
(***************************************************************************)
(* What one indexer promises, with its ticks, jobs, queue entries, locks   *)
(* and processes left out: a ledger of the blocks it has stored events of  *)
(* and of the ranges it still answers for, has declared successful, or has *)
(* given up.                                                               *)
(***************************************************************************)
EXTENDS Integers

CONSTANTS
  MaxBlock,    \* bound on the height of the chain
  EventBlocks  \* the blocks that hold a valid event

VARIABLES
  recorded, \* the blocks of the stored events
  owed,     \* the ranges somebody still answers for
  done,     \* the ranges declared successful
  dropped,  \* the ranges given up
  start     \* the first block asked for

vars == <<recorded, owed, done, dropped, start>>

Range == {r \in [from : 0..MaxBlock, to : 0..MaxBlock] : r.from <= r.to}

Holds(r, b) == r.from <= b /\ b <= r.to

(* Block b is not forgotten by one who goes on at s: an event of it is stored, it was
   given up, or a range that ends before s answers for it. *)
Accounted(b, s) ==
  \/ b \in recorded
  \/ \E r \in dropped : Holds(r, b)
  \/ \E r \in owed : Holds(r, b) /\ r.to < s

Safe(s) == \A b \in EventBlocks : start <= b /\ b < s => Accounted(b, s)

Init == recorded = {} /\ owed = {} /\ done = {} /\ dropped = {} /\ start = 0

(* An event is stored, of a block before which nothing is forgotten: so nothing is by one
   who looks for the latest stored block and goes on from there. *)
Record(b) ==
  /\ Safe(b)
  /\ recorded' = recorded \cup {b}
  /\ UNCHANGED <<owed, done, dropped, start>>

(* Somebody answers for a further range. *)
Owe(r) ==
  /\ Safe(r.from)
  /\ owed' = owed \cup {r}
  /\ UNCHANGED <<recorded, done, dropped, start>>

(* Nobody need answer for the ranges S any more, though somebody else still may. *)
Release(S) == \E T \in SUBSET S : owed' = owed \ T

(* A range is declared successful: all its blocks are accounted for without it. *)
Settle(r) ==
  /\ Safe(r.from)
  /\ done' = done \cup {r}
  /\ Release({r})
  /\ UNCHANGED <<recorded, dropped, start>>
  /\ \A b \in EventBlocks : start <= b /\ Holds(r, b) => Accounted(b, r.to + 1)'

(* Ranges are given up.  This is on record, but nobody answers for them. *)
Drop(S) ==
  /\ dropped' = dropped \cup S
  /\ Release(S)
  /\ UNCHANGED <<recorded, done, start>>

(* As long as nothing has succeeded, the window may be chosen again, further on. *)
MoveStart(b) ==
  /\ done = {} /\ start <= b
  /\ start' = b
  /\ UNCHANGED <<recorded, owed, done, dropped>>

Next ==
  \/ \E b \in EventBlocks : Record(b)
  \/ \E r \in Range : Owe(r) \/ Settle(r)
  \/ \E S \in SUBSET owed : Drop(S)
  \/ \E b \in 0..MaxBlock : MoveStart(b)

Spec == Init /\ [][Next]_vars

(* The next window starts after the highest range done, so nothing may be forgotten below
   the end of any. *)
NothingForgotten == \A r \in done : Safe(r.to + 1)
=============================================================================
