----------------------------- MODULE IndexersInv -----------------------------
(***************************************************************************)
(* Each of the three indexers, with the others and the shared table, queue *)
(* and workers around it, is a RangeFetch.                                 *)
(***************************************************************************)
EXTENDS Indexers

(***************************************************************************)
(* What the shared table and queue hold of kind k                          *)
(***************************************************************************)
RowOf(k, r) ==
  IF r.queryType = FetchType[k]
    THEN [state |-> IF r.isFailed THEN "failed" ELSE "ok", from |-> r.from, to |-> r.to]
    ELSE [state |-> "none", from |-> 0, to |-> 0]
RowsOf(k) == [c \in RowId |-> RowOf(k, rows[c])]

Untyped(q) ==
  [state |-> q.state, from |-> q.from, to |-> q.to, cp |-> q.cp, left |-> q.left,
   stalls |-> q.stalls, locked |-> q.locked]
Mine(k, q) == q.type \in {FetchType[k], RefreshType[k]}
JobOf(k, q) == Untyped(IF Mine(k, q) THEN q ELSE NoEntry)
JobsOf(k) == [j \in JobId |-> JobOf(k, queue[j])]

One(k) == INSTANCE RangeFetchInv WITH
  NumEvents <- NumEvents[k], Block <- Block[k], Tx <- Tx[k], Valid <- Valid[k],
  Overlap <- TRUE, MaxFaults <- 2 * MaxFaults,
  table <- tables[k], row <- RowsOf(k), job <- JobsOf(k), tick <- ticks[k],
  newestBlock <- newestBlock[k], booted <- booted[k], faults <- hits[k],
  abandoned <- abandoned[k], windowStart <- windowStart[k]

(* Every step of the process is, for each indexer k, a step of RangeFetch or none: no
   service ever takes another's rows or entries, although one table and one queue
   hold all of them, and a crash hits all at once.  It is \A k : One(k)!Spec, with the
   quantifier under the [] where TLC can evaluate it. *)
EachIsARangeFetch ==
  /\ \A k \in Kind : One(k)!Init
  /\ [][\A k \in Kind : UNCHANGED One(k)!vars \/ One(k)!Next]_vars

(***************************************************************************)
(* Why: the inductive invariant                                            *)
(***************************************************************************)
Task == [from : Int, to : Int, cp : RowId \cup {NoCheckpoint}]
TickRecord ==
  [pc : {"idle", "refetching", "latest", "adding"}, probe : SUBSET RowId, todo : SUBSET Task]
RowRecord ==
  [queryType : FetchTypes \cup {NoType}, isFailed : BOOLEAN, from : Int, to : Int]
EntryState == {"free", "waiting", "writing", "failing"}
EntryRecord ==
  [state : EntryState, type : QueryTypes \cup {NoType},
   from : Int, to : Int, cp : RowId \cup {NoCheckpoint}, left : SUBSET Nat, stalls : Nat,
   locked : BOOLEAN]

TypeOK ==
  /\ head \in 0..MaxBlock
  /\ tables \in [Kind -> [TxHash -> Nat]]
  /\ \A k \in Kind, x \in TxHash : tables[k][x] <= NumEvents[k]
  /\ newestBlock \in [Kind -> 0..MaxBlock] /\ booted \in [Kind -> BOOLEAN]
  /\ ticks \in [Kind -> [TickId -> TickRecord]]
  /\ rows \in [RowId -> RowRecord]
  /\ queue \in [JobId -> EntryRecord]
  /\ faults \in 0..MaxFaults /\ hits \in [Kind -> Nat]
  /\ abandoned \in [Kind -> SUBSET [from : Int, to : Int]]
  /\ windowStart \in [Kind -> Int]

(* Only a free entry belongs to nobody; one of a kind is a plain fetch, or refetches a row
   of that kind, and it writes events of that kind. *)
OwnsItsRow(k, cp) == cp \in RowId /\ rows[cp].queryType = FetchType[k]
EntryTyped(q) ==
  /\ q.state = "free" <=> q.type = NoType
  /\ \A k \in Kind :
       /\ q.type = FetchType[k] => q.cp = NoCheckpoint
       /\ q.type = RefreshType[k] => OwnsItsRow(k, q.cp)
       /\ Mine(k, q) => q.left \subseteq 1..NumEvents[k]
EntriesTyped == \A j \in JobId : EntryTyped(queue[j])

(* A tick plans fetches, or refetches of rows of its own kind. *)
TickTyped(k, tick) ==
  /\ \A c \in tick.probe : OwnsItsRow(k, c)
  /\ \A r \in tick.todo :
       IF tick.pc = "adding" THEN r.cp = NoCheckpoint ELSE OwnsItsRow(k, r.cp)
TicksTyped == \A k \in Kind, t \in TickId : TickTyped(k, ticks[k][t])

(* A failing catch clause follows a failed job: counting both, a kind is hit at most
   twice as often as faults happen. *)
Failing(k) == {j \in JobId : queue[j].state = "failing" /\ Fetches(k, j)}
HitsCounted == \A k \in Kind : hits[k] + Cardinality(Failing(k)) <= 2 * faults

IInv == TypeOK /\ EntriesTyped /\ TicksTyped /\ HitsCounted
=============================================================================
