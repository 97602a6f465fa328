--------------------------- MODULE IndexersProofs ---------------------------
(***************************************************************************)
(* Machine-checked proof that each of the three indexers implements        *)
(* RangeFetch inside the shared process, for any chain, split, limit and    *)
(* window, and any number of ticks, entries, rows and faults.              *)
(***************************************************************************)
EXTENDS IndexersInv, FiniteSetTheorems, TLAPS

(***************************************************************************)
(* Query types                                                             *)
(***************************************************************************)
(* No two kinds of work share a query type, and none is the type of nothing. *)
LEMMA TypesDistinct ==
  ASSUME NEW k \in Kind, NEW l \in Kind
  PROVE  /\ FetchType[k] \in FetchTypes /\ RefreshType[k] \in QueryTypes
         /\ FetchTypes \subseteq QueryTypes
         /\ FetchType[k] # NoType /\ RefreshType[k] # NoType
         /\ FetchType[k] # RefreshType[l]
         /\ k # l => FetchType[k] # FetchType[l] /\ RefreshType[k] # RefreshType[l]
<1>1. FetchType[k] \in FetchTypes /\ RefreshType[k] \in QueryTypes
      /\ FetchTypes \subseteq QueryTypes
  BY DEF FetchTypes, QueryTypes
<1>2. FetchType[k] # NoType /\ RefreshType[k] # NoType
  BY <1>1, TypeAssumption
<1>3. FetchType[k] # RefreshType[l]
  BY DEF Kind, FetchType, RefreshType
<1>4. k # l => FetchType[k] # FetchType[l] /\ RefreshType[k] # RefreshType[l]
  BY DEF Kind, FetchType, RefreshType
<1>5. QED
  BY <1>1, <1>2, <1>3, <1>4

(* A free entry, and one of another kind, is nobody's. *)
LEMMA NobodysJob ==
  ASSUME NEW k \in Kind
  PROVE  /\ NoEntry.type = NoType /\ ~Mine(k, NoEntry)
         /\ \A q : ~Mine(k, q) => JobOf(k, q) = JobOf(k, NoEntry)
<1>1. NoEntry.type = NoType
  BY DEF NoEntry
<1>2. ~Mine(k, NoEntry)
  BY <1>1, TypesDistinct DEF Mine
<1>3. QED
  BY <1>1, <1>2, Zenon DEF JobOf

(* Changing one entry of the queue changes that entry of the mapped queue. *)
LEMMA JobsBecome ==
  ASSUME NEW k \in Kind, NEW j \in JobId, NEW e,
         queue \in [JobId -> EntryRecord], Becomes(j, e)
  PROVE  JobsOf(k)' = [JobsOf(k) EXCEPT ![j] = JobOf(k, e)]
BY DEF Becomes, JobsOf

(* ... and for the kinds the entry neither was nor is of, nothing. *)
LEMMA OthersJobs ==
  ASSUME NEW l \in Kind, NEW j \in JobId, NEW e,
         queue \in [JobId -> EntryRecord], Becomes(j, e), ~Mine(l, queue[j]), ~Mine(l, e)
  PROVE  JobsOf(l)' = JobsOf(l)
<1>1. JobsOf(l)' = [JobsOf(l) EXCEPT ![j] = JobOf(l, e)]
  BY JobsBecome
<1>2. JobOf(l, e) = JobOf(l, queue[j])
  BY NobodysJob
<1>3. QED
  BY <1>1, <1>2 DEF JobsOf

(* The mapped queue entry has the fields of the entry, and its owner's view of it is
   the entry itself. *)
LEMMA JobOfMine ==
  ASSUME NEW k \in Kind, NEW q, Mine(k, q)
  PROVE  JobOf(k, q) = Untyped(q)
BY DEF JobOf

(* The chain is the same chain for every indexer. *)
LEMMA GrowStep ==
  ASSUME IInv, Grow, NEW k \in Kind
  PROVE  One(k)!Grow
BY DEF Grow, One!Grow, fields, history, JobsOf, RowsOf

(* A tick starts with the failed rows of its own type: those are all the failed rows its
   RangeFetch has. *)
LEMMA StartTickStep ==
  ASSUME IInv, NEW k \in Kind, NEW t \in TickId, StartTick(k, t)
  PROVE  /\ One(k)!StartTick(t)
         /\ \A l \in Kind \ {k} : UNCHANGED One(l)!vars
<1>1. FindFailedCheckpoints(FetchType[k]) = {c \in RowId : RowsOf(k)[c].state = "failed"}
  BY DEF FindFailedCheckpoints, RowsOf, RowOf
<1>2. UNCHANGED <<RowsOf(k), JobsOf(k)>>
  BY DEF StartTick, RowsOf, JobsOf
<1>3. ticks[k]' = [ticks[k] EXCEPT ![t] =
        Ticking("refetching", {c \in RowId : RowsOf(k)[c].state = "failed"}, {})]
  BY <1>1 DEF StartTick, IInv, TypeOK, Moves
<1>4. One(k)!StartTick(t)
  BY <1>2, <1>3 DEF StartTick, One!StartTick, IInv, TypeOK, history, One!Ticking, Ticking
<1>5. ASSUME NEW l \in Kind \ {k} PROVE UNCHANGED One(l)!vars
  BY DEF StartTick, Moves, IInv, TypeOK, One!vars, RowsOf, JobsOf, history
<1>6. QED
  BY <1>4, <1>5

(* What a service has recorded, seen through the mapping. *)
LEMMA SameRecorded ==
  ASSUME NEW k \in Kind
  PROVE  One(k)!RecordedBlocks = Recorded(k)
BY DEF One!RecordedBlocks, Recorded

(* The refetch planned for a failed row is the same, because the row is the service's own. *)
LEMMA SameRefetch ==
  ASSUME NEW k \in Kind, NEW c \in RowId, OwnsItsRow(k, c)
  PROVE  One(k)!Refetch(c) = Refetch(k, c)
<1>1. RowsOf(k)[c].from = rows[c].from /\ RowsOf(k)[c].to = rows[c].to
  BY DEF RowsOf, RowOf, OwnsItsRow
<1>2. \A b : One(k)!InRange(b, RowsOf(k)[c]) <=> InRange(b, rows[c])
  BY <1>1 DEF InRange, One!InRange
<1>3. QED
  BY <1>1, <1>2, SameRecorded DEF Refetch, One!Refetch

(* A step that only moves a tick of service k leaves the others as they are. *)
LEMMA OtherTicks ==
  ASSUME IInv, NEW k \in Kind, NEW t \in TickId, NEW tick, Moves(k, t, tick),
         NEW l \in Kind \ {k}
  PROVE  UNCHANGED ticks[l]
BY DEF Moves, IInv, TypeOK

(* ... and is that very move in the service's RangeFetch. *)
LEMMA OwnTick ==
  ASSUME IInv, NEW k \in Kind, NEW t \in TickId, NEW tick, Moves(k, t, tick)
  PROVE  ticks[k]' = [ticks[k] EXCEPT ![t] = tick]
BY DEF Moves, IInv, TypeOK

(* Probing a failed row reads the service's own event table. *)
LEMMA ProbeFailedStep ==
  ASSUME IInv, NEW k \in Kind, NEW t \in TickId, ProbeFailed(k, t)
  PROVE  /\ One(k)!ProbeFailed(t)
         /\ \A l \in Kind \ {k} : UNCHANGED One(l)!vars
<1>1. PICK c \in ticks[k][t].probe :
        Moves(k, t, Ticking("refetching", ticks[k][t].probe \ {c},
                                          ticks[k][t].todo \cup Refetch(k, c)))
  BY DEF ProbeFailed
<1>2. c \in RowId /\ OwnsItsRow(k, c)
  BY DEF IInv, TicksTyped, TickTyped, OwnsItsRow
<1>3. One(k)!Refetch(c) = Refetch(k, c)
  BY <1>2, SameRefetch
<1>4. ticks[k]' = [ticks[k] EXCEPT ![t] =
        One(k)!Ticking("refetching", ticks[k][t].probe \ {c},
                                     ticks[k][t].todo \cup One(k)!Refetch(c))]
  BY <1>1, <1>3, OwnTick DEF One!Ticking, Ticking
<1>5. One(k)!ProbeFailed(t)
  BY <1>4 DEF ProbeFailed, One!ProbeFailed, fields, history, RowsOf, JobsOf
<1>6. \A l \in Kind \ {k} : UNCHANGED One(l)!vars
  BY <1>1, OtherTicks DEF ProbeFailed, One!vars, fields, history, RowsOf, JobsOf
<1>7. QED
  BY <1>5, <1>6

(***************************************************************************)
(* Entries added to the queue                                              *)
(***************************************************************************)
(* A new entry has the fields it was made from. *)
LEMMA EntryFields ==
  ASSUME NEW type, NEW r, NEW stalls
  PROVE  /\ Entry(type, r, stalls).type = type
         /\ Untyped(Entry(type, r, stalls)) =
              [state |-> "waiting", from |-> r.from, to |-> r.to, cp |-> r.cp,
               left |-> {}, stalls |-> stalls, locked |-> TRUE]
BY DEF Entry, NoEntry, Untyped

(* A free slot of the queue is free for every kind. *)
LEMMA FreeForAll ==
  ASSUME IInv, NEW j \in FreeSlots, NEW k \in Kind
  PROVE  j \in JobId /\ ~Mine(k, queue[j]) /\ j \in One(k)!FreeSlots
<1>1. j \in JobId /\ queue[j].state = "free" /\ queue[j].type = NoType
  BY DEF FreeSlots, IInv, EntriesTyped, EntryTyped
<1>2. ~Mine(k, queue[j])
  BY <1>1, TypesDistinct DEF Mine
<1>3. JobsOf(k)[j] = Untyped(NoEntry)
  BY <1>1, <1>2 DEF JobsOf, JobOf
<1>4. JobsOf(k)[j].state = "free"
  BY <1>3 DEF Untyped, NoEntry
<1>5. QED
  BY <1>1, <1>2, <1>4 DEF One!FreeSlots

(* Adding an entry of kind k to the queue is Enqueue for k and nothing for the others. *)
LEMMA Enqueued ==
  ASSUME IInv, NEW k \in Kind, NEW type \in {FetchType[k], RefreshType[k]}, NEW r,
         NEW j \in FreeSlots, Becomes(j, Entry(type, r, 0))
  PROVE  /\ One(k)!Enqueue(r)
         /\ \A l \in Kind \ {k} : UNCHANGED JobsOf(l)
<1> DEFINE e == Entry(type, r, 0)
<1>1. e.type = type /\ Mine(k, e)
  BY EntryFields DEF Mine
<1>2. \A l \in Kind \ {k} : ~Mine(l, e)
  BY <1>1, TypesDistinct DEF Mine
<1>3. JobOf(k, e) = One(k)!WaitingJob(r, 0)
  BY <1>1, EntryFields DEF JobOf, One!WaitingJob
<1>4. queue \in [JobId -> EntryRecord] /\ j \in JobId
  BY FreeForAll DEF IInv, TypeOK, Kind
<1> HIDE DEF e
<1>5. Becomes(j, e)
  BY DEF e
<1>6. JobsOf(k)' = [JobsOf(k) EXCEPT ![j] = One(k)!WaitingJob(r, 0)]
  BY <1>3, <1>4, <1>5, JobsBecome
<1>7. One(k)!Enqueue(r)
  BY <1>6, FreeForAll DEF One!Enqueue
<1>8. \A l \in Kind \ {k} : UNCHANGED JobsOf(l)
  BY <1>2, <1>4, <1>5, OthersJobs, FreeForAll
<1>9. QED
  BY <1>7, <1>8

(* A planned refetch goes into the shared queue under the service's refresh type. *)
LEMMA AddRefetchStep ==
  ASSUME IInv, NEW k \in Kind, NEW t \in TickId, AddRefetch(k, t)
  PROVE  /\ One(k)!AddRefetch(t)
         /\ \A l \in Kind \ {k} : UNCHANGED One(l)!vars
<1>1. PICK r \in ticks[k][t].todo :
        Add(k, t, RefreshType[k], r, Ticking("refetching", {}, ticks[k][t].todo \ {r}))
  BY DEF AddRefetch
<1>2. PICK j \in FreeSlots : Becomes(j, Entry(RefreshType[k], r, 0))
  BY <1>1 DEF Add
<1>3. Moves(k, t, Ticking("refetching", {}, ticks[k][t].todo \ {r}))
      /\ UNCHANGED <<head, tables, fields, rows, history>>
  BY <1>1 DEF Add
<1>4. One(k)!Enqueue(r) /\ \A l \in Kind \ {k} : UNCHANGED JobsOf(l)
  BY <1>2, Enqueued
<1>5. ticks[k]' = [ticks[k] EXCEPT ![t] = One(k)!Ticking("refetching", {}, ticks[k][t].todo \ {r})]
  BY <1>3, OwnTick DEF One!Ticking, Ticking
<1>6. One(k)!AddRefetch(t)
  BY <1>3, <1>4, <1>5 DEF AddRefetch, One!AddRefetch, fields, history, RowsOf
<1>7. \A l \in Kind \ {k} : UNCHANGED One(l)!vars
  BY <1>3, <1>4, OtherTicks DEF One!vars, fields, history, RowsOf
<1>8. QED
  BY <1>6, <1>7

(* A planned range goes into the shared queue under the service's fetch type. *)
LEMMA AddFetchStep ==
  ASSUME IInv, NEW k \in Kind, NEW t \in TickId, AddFetch(k, t)
  PROVE  /\ One(k)!AddFetch(t)
         /\ \A l \in Kind \ {k} : UNCHANGED One(l)!vars
<1> DEFINE todo == ticks[k][t].todo
           after(r) == IF todo = {r} THEN IdleTick ELSE Ticking("adding", {}, todo \ {r})
<1>1. PICK r \in todo : (\A q \in todo : r.from <= q.from) /\ Add(k, t, FetchType[k], r, after(r))
  BY DEF AddFetch
<1>2. PICK j \in FreeSlots : Becomes(j, Entry(FetchType[k], r, 0))
  BY <1>1 DEF Add
<1>3. Moves(k, t, after(r)) /\ UNCHANGED <<head, tables, fields, rows, history>>
  BY <1>1 DEF Add
<1>4. One(k)!Enqueue(r) /\ \A l \in Kind \ {k} : UNCHANGED JobsOf(l)
  BY <1>2, Enqueued
<1>5. ticks[k]' = [ticks[k] EXCEPT ![t] =
        IF todo = {r} THEN One(k)!IdleTick ELSE One(k)!Ticking("adding", {}, todo \ {r})]
  BY <1>3, OwnTick DEF One!Ticking, Ticking, IdleTick, One!IdleTick
<1>6. One(k)!AddFetch(t)
  BY <1>1, <1>3, <1>4, <1>5 DEF AddFetch, One!AddFetch, One!Lowest, fields, history, RowsOf
<1>7. \A l \in Kind \ {k} : UNCHANGED One(l)!vars
  BY <1>3, <1>4, OtherTicks DEF One!vars, fields, history, RowsOf
<1>8. QED
  BY <1>6, <1>7

(* Each service keeps its own newestBlock. *)
LEMMA ReadHeadStep ==
  ASSUME IInv, NEW k \in Kind, NEW t \in TickId, ReadHead(k, t)
  PROVE  /\ One(k)!ReadHead(t)
         /\ \A l \in Kind \ {k} : UNCHANGED One(l)!vars
<1>1. PICK n \in Greater(head - Lag, 0)..head : newestBlock' = [newestBlock EXCEPT ![k] = n]
  BY DEF ReadHead
<1>2. newestBlock[k]' \in One(k)!SeenHeads /\ \A l \in Kind \ {k} : UNCHANGED newestBlock[l]
  BY <1>1 DEF IInv, TypeOK, One!SeenHeads, Greater, One!Greater
<1>3. ticks[k]' = [ticks[k] EXCEPT ![t] = One(k)!Ticking("latest", {}, {})]
  <2>1. Moves(k, t, Ticking("latest", {}, {}))
    BY DEF ReadHead
  <2>2. QED
    BY <2>1, OwnTick DEF One!Ticking, Ticking
<1>4. One(k)!ReadHead(t)
  BY <1>2, <1>3 DEF ReadHead, One!ReadHead, Ticking, history, RowsOf, JobsOf
<1>5. \A l \in Kind \ {k} : UNCHANGED One(l)!vars
  BY <1>2, OtherTicks DEF ReadHead, One!vars, history, RowsOf, JobsOf
<1>6. QED
  BY <1>4, <1>5

(***************************************************************************)
(* The latest checkpoint                                                   *)
(***************************************************************************)
(* The successful rows of a type are those the mapping calls ok, and so the latest
   checkpoint of a service is that of its own RangeFetch. *)
LEMMA SameLatest ==
  ASSUME NEW k \in Kind
  PROVE  /\ Successful(FetchType[k]) = {} <=> One(k)!OkEnds = {}
         /\ FindLatestCheckpoint(FetchType[k]) = One(k)!LatestEnd
<1> DEFINE ok == Successful(FetchType[k])
<1>1. {c \in RowId : RowsOf(k)[c].state = "ok"} = ok
  BY DEF Successful, RowsOf, RowOf
<1>2. \A c \in ok : c \in RowId /\ RowsOf(k)[c].to = rows[c].to
  BY DEF Successful, RowsOf, RowOf
<1>3. One(k)!OkEnds = {rows[c].to : c \in ok}
  BY <1>1, <1>2 DEF One!OkEnds
<1>4. One(k)!LatestEnd = {m \in One(k)!OkEnds : \A n \in One(k)!OkEnds : n <= m}
  BY DEF One!LatestEnd
<1>5. FindLatestCheckpoint(FetchType[k]) =
        {rows[c].to : c \in {d \in ok : \A e \in ok : rows[e].to <= rows[d].to}}
  BY DEF FindLatestCheckpoint
<1> HIDE DEF ok
<1>6. ok = {} <=> One(k)!OkEnds = {}
  BY <1>3
<1>7. \A m : m \in One(k)!LatestEnd <=>
        \E d \in ok : m = rows[d].to /\ \A e \in ok : rows[e].to <= rows[d].to
  BY <1>3, <1>4
<1>8. \A m : m \in FindLatestCheckpoint(FetchType[k]) <=>
        \E d \in ok : m = rows[d].to /\ \A e \in ok : rows[e].to <= rows[d].to
  BY <1>5
<1>9. FindLatestCheckpoint(FetchType[k]) = One(k)!LatestEnd
  BY <1>7, <1>8
<1>10. QED
  BY <1>6, <1>9 DEF ok

(* The window starts after the latest successful row of the service's own type. *)
LEMMA ReadLatestStep ==
  ASSUME IInv, NEW k \in Kind, NEW t \in TickId, ReadLatest(k, t)
  PROVE  /\ One(k)!ReadLatest(t)
         /\ \A l \in Kind \ {k} : UNCHANGED One(l)!vars
<1> DEFINE none == Successful(FetchType[k]) = {}
           starts == IF none THEN {InitialFromBlock(newestBlock[k], Window)}
                             ELSE {m + 1 : m \in FindLatestCheckpoint(FetchType[k])}
           plan(from) == {[from |-> r.from, to |-> r.to, cp |-> NoCheckpoint] :
                            r \in SplitIntoRanges(from, newestBlock[k], SplitValue)}
<1>1. PICK from \in starts :
        /\ Moves(k, t, IF plan(from) = {} THEN IdleTick ELSE Ticking("adding", {}, plan(from)))
        /\ windowStart' = IF none THEN [windowStart EXCEPT ![k] = Greater(@, from)]
                                  ELSE windowStart
  BY DEF ReadLatest
<1>2. from \in One(k)!StartBlocks
  BY SameLatest DEF One!StartBlocks, InitialFromBlock, One!InitialFromBlock, Greater, One!Greater
<1>3. plan(from) = {[from |-> r.from, to |-> r.to, cp |-> NoCheckpoint] :
                      r \in One(k)!SplitIntoRanges(from, newestBlock[k], SplitValue)}
  BY DEF SplitIntoRanges, One!SplitIntoRanges, LoopStarts, One!LoopStarts, Lesser, One!Lesser
<1>4. /\ windowStart[k]' = IF One(k)!OkEnds = {} THEN One(k)!Greater(windowStart[k], from)
                                                  ELSE windowStart[k]
      /\ \A l \in Kind \ {k} : UNCHANGED windowStart[l]
  BY <1>1, SameLatest DEF Greater, One!Greater, IInv, TypeOK
<1>5. ticks[k]' = [ticks[k] EXCEPT ![t] =
        IF plan(from) = {} THEN One(k)!IdleTick ELSE One(k)!Ticking("adding", {}, plan(from))]
  <2> DEFINE chosen == IF plan(from) = {} THEN IdleTick ELSE Ticking("adding", {}, plan(from))
  <2>1. chosen = IF plan(from) = {} THEN One(k)!IdleTick
                                    ELSE One(k)!Ticking("adding", {}, plan(from))
    <3> HIDE DEF plan
    <3>1. QED
      BY DEF One!Ticking, Ticking, IdleTick, One!IdleTick
  <2>2. Moves(k, t, chosen)
    BY <1>1
  <2> HIDE DEF chosen
  <2>3. ticks[k]' = [ticks[k] EXCEPT ![t] = chosen]
    BY <2>2, OwnTick
  <2>4. QED
    BY <2>1, <2>3
<1> HIDE DEF none, starts, plan
<1>6. /\ ticks[k][t].pc = "latest"
      /\ UNCHANGED <<head, tables, fields, rows, queue, faults, hits, abandoned>>
  BY DEF ReadLatest
<1>7. One(k)!ReadLatest(t)
  BY <1>2, <1>3, <1>4, <1>5, <1>6 DEF One!ReadLatest, fields, RowsOf, JobsOf
<1>8. \A l \in Kind \ {k} : UNCHANGED One(l)!vars
  BY <1>1, <1>4, <1>6, OtherTicks DEF One!vars, fields, RowsOf, JobsOf
<1>9. QED
  BY <1>7, <1>8

(***************************************************************************)
(* Jobs                                                                    *)
(***************************************************************************)
(* The mapped entry of a job of kind k has the fields of the entry, and is a plain
   fetch exactly when its type says so. *)
LEMMA JobFields ==
  ASSUME IInv, NEW k \in Kind, NEW j \in JobId, Serves(k, j)
  PROVE  /\ Mine(k, queue[j]) /\ \A l \in Kind \ {k} : ~Mine(l, queue[j])
         /\ queue[j] \in EntryRecord
         /\ JobsOf(k)[j] = Untyped(queue[j])
         /\ JobsOf(k)[j].state = queue[j].state /\ JobsOf(k)[j].from = queue[j].from
         /\ JobsOf(k)[j].to = queue[j].to /\ JobsOf(k)[j].cp = queue[j].cp
         /\ JobsOf(k)[j].left = queue[j].left /\ JobsOf(k)[j].stalls = queue[j].stalls
         /\ JobsOf(k)[j].locked = queue[j].locked
         /\ One(k)!IsFetch(j) <=> Fetches(k, j)
<1>1. Mine(k, queue[j]) /\ \A l \in Kind \ {k} : ~Mine(l, queue[j])
  BY TypesDistinct DEF Serves, Fetches, Refreshes, Mine
<1>2. queue[j] \in EntryRecord
  BY DEF IInv, TypeOK
<1>3. JobsOf(k)[j] = Untyped(queue[j])
  BY <1>1 DEF JobsOf, JobOf
<1>4. /\ JobsOf(k)[j].state = queue[j].state /\ JobsOf(k)[j].from = queue[j].from
      /\ JobsOf(k)[j].to = queue[j].to /\ JobsOf(k)[j].cp = queue[j].cp
      /\ JobsOf(k)[j].left = queue[j].left /\ JobsOf(k)[j].stalls = queue[j].stalls
      /\ JobsOf(k)[j].locked = queue[j].locked
  BY <1>3 DEF Untyped
<1>5. Fetches(k, j) => queue[j].cp = NoCheckpoint
  BY DEF IInv, EntriesTyped, EntryTyped, Fetches
<1>6. Refreshes(k, j) => queue[j].cp # NoCheckpoint
  BY ConfigAssumption DEF IInv, EntriesTyped, EntryTyped, OwnsItsRow, Refreshes
<1>7. One(k)!IsFetch(j) <=> Fetches(k, j)
  BY <1>4, <1>5, <1>6, TypesDistinct DEF One!IsFetch, Serves
<1>8. QED
  BY <1>1, <1>2, <1>3, <1>4, <1>7

(* A job of kind k that goes on, or goes away, does so for k alone. *)
LEMMA JobBecomes ==
  ASSUME IInv, NEW k \in Kind, NEW j \in JobId, Serves(k, j),
         NEW e, e = NoEntry \/ e.type = queue[j].type, Becomes(j, e)
  PROVE  /\ JobsOf(k)' = [JobsOf(k) EXCEPT ![j] = Untyped(e)]
         /\ \A l \in Kind \ {k} : UNCHANGED JobsOf(l)
<1>1. queue \in [JobId -> EntryRecord]
  BY DEF IInv, TypeOK
<1>2. JobOf(k, e) = Untyped(e)
  BY JobFields DEF JobOf, Mine
<1>3. \A l \in Kind \ {k} : ~Mine(l, e)
  BY JobFields, NobodysJob DEF Mine
<1>4. JobsOf(k)' = [JobsOf(k) EXCEPT ![j] = Untyped(e)]
  BY <1>1, <1>2, JobsBecome
<1>5. \A l \in Kind \ {k} : UNCHANGED JobsOf(l)
  BY <1>1, <1>3, JobFields, OthersJobs
<1>6. QED
  BY <1>4, <1>5

(* Moving a job to another state, and freeing its slot, are the same for RangeFetch. *)
LEMMA SameMoves ==
  ASSUME IInv, NEW k \in Kind, NEW j \in JobId, Serves(k, j),
         NEW state \in EntryState, NEW left \in SUBSET Nat
  PROVE  /\ Untyped(With(j, state, left)) = One(k)!Moved(j, state, left)
         /\ With(j, state, left).type = queue[j].type
         /\ Untyped(NoEntry) = One(k)!FreeJob
<1>1. PICK q \in EntryRecord : q = queue[j]
  BY JobFields
<1> DEFINE m == [q EXCEPT !.state = state, !.left = left]
           u == [Untyped(q) EXCEPT !.state = state, !.left = left]
<1>2. m = With(j, state, left)
  BY <1>1 DEF With
<1>3. u = One(k)!Moved(j, state, left)
  <2>1. JobsOf(k)[j] = Untyped(q)
    BY <1>1, JobFields
  <2>2. QED
    BY <2>1, Zenon DEF One!Moved
<1>4. /\ m.state = state /\ m.type = q.type /\ m.from = q.from /\ m.to = q.to /\ m.cp = q.cp
      /\ m.left = left /\ m.stalls = q.stalls /\ m.locked = q.locked
  BY DEF EntryRecord
<1> DEFINE View == [state : EntryState, from : Int, to : Int, cp : RowId \cup {NoCheckpoint},
                    left : SUBSET Nat, stalls : Nat, locked : BOOLEAN]
<1>5. PICK v \in View : v = Untyped(q)
  BY DEF EntryRecord, EntryState, Untyped
<1>6. /\ v.from = q.from /\ v.to = q.to /\ v.cp = q.cp
      /\ v.stalls = q.stalls /\ v.locked = q.locked
  BY <1>5 DEF Untyped
<1>7. PICK w \in View : w = [v EXCEPT !.state = state, !.left = left]
  OBVIOUS
<1>8. /\ w.state = state /\ w.left = left /\ w.from = v.from /\ w.to = v.to /\ w.cp = v.cp
      /\ w.stalls = v.stalls /\ w.locked = v.locked
  BY <1>7
<1>9. w = [state |-> w.state, from |-> w.from, to |-> w.to, cp |-> w.cp, left |-> w.left,
           stalls |-> w.stalls, locked |-> w.locked]
  OBVIOUS
<1>10. Untyped(m) = w
  BY <1>4, <1>6, <1>8, <1>9 DEF Untyped
<1>11. Untyped(NoEntry) = One(k)!FreeJob
  BY DEF Untyped, NoEntry, One!FreeJob
<1>12. QED
  BY <1>1, <1>2, <1>3, <1>4, <1>5, <1>7, <1>10, <1>11

(* The instance speaks of the same cardinalities. *)
LEMMA SameCardinality ==
  ASSUME NEW k \in Kind, NEW S
  PROVE  One(k)!Cardinality(S) = Cardinality(S)
BY DEF Cardinality, One!Cardinality

(* A worker free for the shared queue is free for kind k alone. *)
LEMMA AdmittedForOne ==
  ASSUME IInv, NEW k \in Kind, NEW j \in JobId, Serves(k, j), Admitted(j)
  PROVE  One(k)!Admitted(j)
<1>1. One(k)!Running \subseteq Running
  <2>1. ASSUME NEW i \in JobId, JobsOf(k)[i].state \in {"writing", "failing"}
        PROVE  queue[i].state \in {"writing", "failing"}
    BY <2>1 DEF JobsOf, JobOf, Untyped, NoEntry
  <2>2. QED
    BY <2>1 DEF Running, One!Running
<1>2. IsFiniteSet(Running)
  BY ConfigAssumption, FS_Subset DEF Running
<1>3. Cardinality(One(k)!Running) <= Cardinality(Running)
  BY <1>1, <1>2, FS_Subset
<1>4. Cardinality(One(k)!Running) \in Nat /\ Cardinality(Running) \in Nat
  BY <1>1, <1>2, FS_Subset, FS_CardinalityType
<1>5. JobsOf(k)[j].state = "waiting" /\ Cardinality(Running) < Concurrency
  BY JobFields DEF Admitted
<1>6. Cardinality(One(k)!Running) < Concurrency
  BY <1>3, <1>4, <1>5, ConfigAssumption
<1>7. QED
  BY <1>5, <1>6, SameCardinality DEF One!Admitted

(* The logs of a range are the same events. *)
LEMMA SameLogs ==
  ASSUME NEW k \in Kind, NEW q, NEW r, q.from = r.from, q.to = r.to
  PROVE  One(k)!Fetched(q) = Logs(k, r) /\ Logs(k, r) \in SUBSET Nat
<1>1. \A b : CreateBatches(r.from, r.to, b) = One(k)!CreateBatches(q.from, q.to, b)
  BY DEF CreateBatches, One!CreateBatches, LoopStarts, One!LoopStarts, Lesser, One!Lesser,
         MaxBlockRange, One!MaxBlockRange
<1>2. One(k)!Fetched(q) = Logs(k, r)
  BY <1>1 DEF Logs, One!Fetched, One!Event, InRange, One!InRange
<1>3. 1..NumEvents[k] \in SUBSET Nat
  BY EventAssumption
<1>4. QED
  BY <1>2, <1>3 DEF Logs

(* A worker takes an entry of one kind and reads the logs of that kind. *)
LEMMA FetchLogsStep ==
  ASSUME IInv, NEW k \in Kind, NEW j \in JobId, FetchLogs(k, j)
  PROVE  /\ One(k)!FetchLogs(j)
         /\ \A l \in Kind \ {k} : UNCHANGED One(l)!vars
<1>1. Serves(k, j) /\ One(k)!Admitted(j)
  BY AdmittedForOne DEF FetchLogs
<1>2. One(k)!Fetched(JobsOf(k)[j]) = Logs(k, queue[j]) /\ Logs(k, queue[j]) \in SUBSET Nat
  BY <1>1, JobFields, SameLogs
<1> DEFINE e == With(j, "writing", Logs(k, queue[j]))
<1>3. /\ Untyped(e) = One(k)!Moved(j, "writing", One(k)!Fetched(JobsOf(k)[j]))
      /\ e.type = queue[j].type
  BY <1>1, <1>2, SameMoves DEF EntryState
<1> HIDE DEF e
<1>4. Becomes(j, e) /\ UNCHANGED <<head, tables, fields, ticks, rows, history>>
  BY DEF FetchLogs, e
<1>5. JobsOf(k)' = [JobsOf(k) EXCEPT ![j] = Untyped(e)] /\ \A l \in Kind \ {k} : UNCHANGED JobsOf(l)
  BY <1>1, <1>3, <1>4, JobBecomes
<1>6. One(k)!FetchLogs(j)
  BY <1>1, <1>3, <1>4, <1>5 DEF One!FetchLogs, fields, history, RowsOf
<1>7. \A l \in Kind \ {k} : UNCHANGED One(l)!vars
  BY <1>4, <1>5 DEF One!vars, fields, history, RowsOf
<1>8. QED
  BY <1>6, <1>7

(* Writing an event touches the table of its kind only. *)
LEMMA WriteEventStep ==
  ASSUME IInv, NEW k \in Kind, NEW j \in JobId, WriteEvent(k, j)
  PROVE  /\ One(k)!WriteEvent(j)
         /\ \A l \in Kind \ {k} : UNCHANGED One(l)!vars
<1>1. Serves(k, j) /\ queue[j].state = "writing"
      /\ UNCHANGED <<head, fields, ticks, rows, history>>
  BY DEF WriteEvent
<1> DEFINE w(e) == With(j, "writing", queue[j].left \ {e})
<1>2. PICK e \in queue[j].left :
        /\ \A d \in queue[j].left : e <= d
        /\ Becomes(j, w(e))
        /\ tables' = IF e \in Valid[k] THEN [tables EXCEPT ![k][Tx[k][e]] = e] ELSE tables
  BY DEF WriteEvent
<1>3. queue[j].left \ {e} \in SUBSET Nat
  BY <1>1, JobFields DEF EntryRecord
<1>4. JobsOf(k)[j].left = queue[j].left /\ JobsOf(k)[j].state = "writing"
  BY <1>1, JobFields
<1>5. /\ Untyped(w(e)) = One(k)!Moved(j, "writing", JobsOf(k)[j].left \ {e})
      /\ w(e).type = queue[j].type
  BY <1>1, <1>3, <1>4, SameMoves DEF EntryState
<1> HIDE DEF w
<1>6. /\ JobsOf(k)' = [JobsOf(k) EXCEPT ![j] = Untyped(w(e))]
      /\ \A l \in Kind \ {k} : UNCHANGED JobsOf(l)
  BY <1>1, <1>2, <1>5, JobBecomes
<1>7. tables[k]' = One(k)!Upsert(e) /\ \A l \in Kind \ {k} : UNCHANGED tables[l]
  BY <1>2 DEF One!Upsert, IInv, TypeOK
<1>8. One(k)!WriteEvent(j)
  BY <1>1, <1>2, <1>4, <1>5, <1>6, <1>7 DEF One!WriteEvent, One!NextLog, fields, history, RowsOf
<1>9. \A l \in Kind \ {k} : UNCHANGED One(l)!vars
  BY <1>1, <1>6, <1>7 DEF One!vars, fields, history, RowsOf
<1>10. QED
  BY <1>8, <1>9

(* A finished job of kind k frees its slot, for k alone. *)
LEMMA JobGone ==
  ASSUME IInv, NEW k \in Kind, NEW j \in JobId, Serves(k, j), Becomes(j, NoEntry)
  PROVE  /\ JobsOf(k)' = [JobsOf(k) EXCEPT ![j] = One(k)!FreeJob]
         /\ \A l \in Kind \ {k} : UNCHANGED JobsOf(l)
<1>1. Untyped(NoEntry) = One(k)!FreeJob
  BY DEF Untyped, NoEntry, One!FreeJob
<1>2. QED
  BY <1>1, JobBecomes

(* A row inserted for a job of kind k is a row of k, and of no other kind. *)
LEMMA RowInserted ==
  ASSUME IInv, NEW k \in Kind, NEW j \in JobId, Fetches(k, j), NEW failed \in BOOLEAN,
         InsertRow(FetchType[k], j, failed)
  PROVE  /\ One(k)!InsertRow(j, IF failed THEN "failed" ELSE "ok")
         /\ \A l \in Kind \ {k} : UNCHANGED RowsOf(l)
<1> DEFINE r == [queryType |-> FetchType[k], isFailed |-> failed,
                 from |-> queue[j].from, to |-> queue[j].to]
           s == IF failed THEN "failed" ELSE "ok"
<1>1. PICK c \in RowId : rows[c] = NoRow /\ rows' = [rows EXCEPT ![c] = r]
  BY DEF InsertRow
<1>2. JobsOf(k)[j].from = queue[j].from /\ JobsOf(k)[j].to = queue[j].to
  BY JobFields DEF Serves
<1>3. RowOf(k, r) = [state |-> s, from |-> JobsOf(k)[j].from, to |-> JobsOf(k)[j].to]
  BY <1>2 DEF RowOf
<1>4. \A l \in Kind : RowOf(l, NoRow) = [state |-> "none", from |-> 0, to |-> 0]
  BY TypesDistinct DEF RowOf, NoRow
<1>5. \A l \in Kind \ {k} : RowOf(l, r) = [state |-> "none", from |-> 0, to |-> 0]
  BY TypesDistinct DEF RowOf
<1>6. ASSUME NEW l \in Kind PROVE RowsOf(l)' = [RowsOf(l) EXCEPT ![c] = RowOf(l, r)]
  BY <1>1 DEF RowsOf, IInv, TypeOK
<1>7. RowsOf(k)' = [RowsOf(k) EXCEPT ![c] =
                     [state |-> s, from |-> JobsOf(k)[j].from, to |-> JobsOf(k)[j].to]]
  BY <1>3, <1>6
<1>8. c \in One(k)!NewRows
  BY <1>1, <1>4 DEF One!NewRows, RowsOf
<1>9. One(k)!InsertRow(j, s)
  BY <1>7, <1>8 DEF One!InsertRow
<1>10. ASSUME NEW l \in Kind \ {k} PROVE UNCHANGED RowsOf(l)
  BY <1>1, <1>4, <1>5, <1>6 DEF RowsOf
<1>11. QED
  BY <1>9, <1>10

(* A finished fetch inserts a successful row that only its own kind sees. *)
LEMMA SaveCheckpointStep ==
  ASSUME IInv, NEW k \in Kind, NEW j \in JobId, SaveCheckpoint(k, j)
  PROVE  /\ One(k)!SaveCheckpoint(j)
         /\ \A l \in Kind \ {k} : UNCHANGED One(l)!vars
<1>1. /\ Serves(k, j) /\ Fetches(k, j) /\ queue[j].state = "writing" /\ queue[j].left = {}
      /\ InsertRow(FetchType[k], j, FALSE) /\ Becomes(j, NoEntry)
      /\ UNCHANGED <<head, tables, fields, ticks, history>>
  BY DEF SaveCheckpoint, Serves, Logged
<1>2. One(k)!Logged(j) /\ One(k)!IsFetch(j)
  BY <1>1, JobFields DEF One!Logged
<1>3. One(k)!InsertRow(j, "ok") /\ \A l \in Kind \ {k} : UNCHANGED RowsOf(l)
  BY <1>1, RowInserted
<1>4. /\ JobsOf(k)' = [JobsOf(k) EXCEPT ![j] = One(k)!FreeJob]
      /\ \A l \in Kind \ {k} : UNCHANGED JobsOf(l)
  BY <1>1, JobGone
<1>5. One(k)!SaveCheckpoint(j)
  BY <1>1, <1>2, <1>3, <1>4 DEF One!SaveCheckpoint, fields, history
<1>6. \A l \in Kind \ {k} : UNCHANGED One(l)!vars
  BY <1>1, <1>3, <1>4 DEF One!vars, fields, history
<1>7. QED
  BY <1>5, <1>6

(* ... and a failed one a failed row. *)
LEMMA SaveFailedCheckpointStep ==
  ASSUME IInv, NEW k \in Kind, NEW j \in JobId, SaveFailedCheckpoint(k, j)
  PROVE  /\ One(k)!SaveFailedCheckpoint(j)
         /\ \A l \in Kind \ {k} : UNCHANGED One(l)!vars
<1>1. /\ Serves(k, j) /\ Fetches(k, j) /\ queue[j].state = "failing"
      /\ InsertRow(FetchType[k], j, TRUE) /\ Becomes(j, NoEntry)
      /\ UNCHANGED <<head, tables, fields, ticks, history>>
  BY DEF SaveFailedCheckpoint, Serves
<1>2. JobsOf(k)[j].state = "failing"
  BY <1>1, JobFields
<1>3. One(k)!InsertRow(j, "failed") /\ \A l \in Kind \ {k} : UNCHANGED RowsOf(l)
  BY <1>1, RowInserted
<1>4. /\ JobsOf(k)' = [JobsOf(k) EXCEPT ![j] = One(k)!FreeJob]
      /\ \A l \in Kind \ {k} : UNCHANGED JobsOf(l)
  BY <1>1, JobGone
<1>5. One(k)!SaveFailedCheckpoint(j)
  BY <1>1, <1>2, <1>3, <1>4 DEF One!SaveFailedCheckpoint, fields, history
<1>6. \A l \in Kind \ {k} : UNCHANGED One(l)!vars
  BY <1>1, <1>3, <1>4 DEF One!vars, fields, history
<1>7. QED
  BY <1>5, <1>6

(* The row that a refetch clears is one of its own kind. *)
LEMMA ClearFailedStep ==
  ASSUME IInv, NEW k \in Kind, NEW j \in JobId, ClearFailed(k, j)
  PROVE  /\ One(k)!ClearFailed(j)
         /\ \A l \in Kind \ {k} : UNCHANGED One(l)!vars
<1> DEFINE c == queue[j].cp
<1>1. /\ Serves(k, j) /\ Refreshes(k, j) /\ ~Fetches(k, j)
      /\ queue[j].state = "writing" /\ queue[j].left = {}
      /\ rows' = [rows EXCEPT ![c].isFailed = FALSE] /\ Becomes(j, NoEntry)
      /\ UNCHANGED <<head, tables, fields, ticks, history>>
  BY TypesDistinct DEF ClearFailed, Serves, Logged, Refreshes, Fetches
<1>2. One(k)!Logged(j) /\ ~One(k)!IsFetch(j) /\ JobsOf(k)[j].cp = c
  BY <1>1, JobFields DEF One!Logged
<1>3. c \in RowId /\ rows[c].queryType = FetchType[k]
  BY <1>1 DEF IInv, EntriesTyped, EntryTyped, OwnsItsRow, Refreshes
<1> HIDE DEF c
<1>4. PICK r \in RowRecord : r = rows[c]
  BY <1>3 DEF IInv, TypeOK
<1>5. PICK n \in RowRecord : n = [r EXCEPT !.isFailed = FALSE]
  BY DEF RowRecord
<1>6. n.isFailed = FALSE /\ n.from = r.from /\ n.to = r.to /\ n.queryType = FetchType[k]
  BY <1>3, <1>4, <1>5 DEF RowRecord
<1>7. rows' = [rows EXCEPT ![c] = n]
  BY <1>1, <1>4, <1>5
<1>8. ASSUME NEW l \in Kind PROVE RowsOf(l)' = [RowsOf(l) EXCEPT ![c] = RowOf(l, n)]
  BY <1>7 DEF RowsOf, IInv, TypeOK
<1>9. RowOf(k, n) = [RowsOf(k)[c] EXCEPT !.state = "ok"]
  <2>1. RowsOf(k)[c] = [state |-> IF r.isFailed THEN "failed" ELSE "ok",
                        from |-> r.from, to |-> r.to]
    BY <1>3, <1>4 DEF RowsOf, RowOf
  <2>2. RowOf(k, n) = [state |-> "ok", from |-> r.from, to |-> r.to]
    BY <1>6 DEF RowOf
  <2>3. QED
    BY <2>1, <2>2
<1>10. RowsOf(k)' = [RowsOf(k) EXCEPT ![c] = [@ EXCEPT !.state = "ok"]]
  BY <1>8, <1>9
<1>11. ASSUME NEW l \in Kind \ {k} PROVE UNCHANGED RowsOf(l)
  <2>1. RowOf(l, n) = RowOf(l, rows[c])
    BY <1>3, <1>6, TypesDistinct DEF RowOf
  <2>2. QED
    BY <1>3, <1>8, <2>1 DEF RowsOf
<1>12. /\ JobsOf(k)' = [JobsOf(k) EXCEPT ![j] = One(k)!FreeJob]
       /\ \A l \in Kind \ {k} : UNCHANGED JobsOf(l)
  BY <1>1, JobGone
<1>13. One(k)!ClearFailed(j)
  BY <1>1, <1>2, <1>10, <1>12 DEF One!ClearFailed, fields, history
<1>14. \A l \in Kind \ {k} : UNCHANGED One(l)!vars
  BY <1>1, <1>11, <1>12 DEF One!vars, fields, history
<1>15. QED
  BY <1>13, <1>14

(***************************************************************************)
(* Faults                                                                  *)
(***************************************************************************)
(* A kind can be hit whenever a fault can still happen. *)
LEMMA MayBeHit ==
  ASSUME IInv, NEW f, NEW K \in SUBSET Kind, Fault(f, K)
  PROVE  /\ \A k \in K : One(k)!Fault(f)
         /\ \A l \in Kind \ K : UNCHANGED hits[l]
<1>1. f \in FaultKinds /\ faults < MaxFaults /\ faults' = faults + 1
      /\ hits' = [k \in Kind |-> hits[k] + IF k \in K THEN 1 ELSE 0]
  BY DEF Fault, Hit
<1>2. ASSUME NEW k \in K PROVE One(k)!Fault(f)
  <2>1. IsFiniteSet(Failing(k))
    BY ConfigAssumption, FS_Subset DEF Failing
  <2>2. Cardinality(Failing(k)) \in Nat
    BY <2>1, FS_CardinalityType
  <2>3. hits[k] \in Nat /\ faults \in Nat /\ hits[k] + Cardinality(Failing(k)) <= 2 * faults
    BY ConfigAssumption DEF IInv, TypeOK, HitsCounted
  <2>4. hits[k] < 2 * MaxFaults /\ hits[k]' = hits[k] + 1
    BY <1>1, <2>2, <2>3, ConfigAssumption
  <2>5. QED
    BY <1>1, <2>4 DEF One!Fault
<1>3. \A l \in Kind \ K : UNCHANGED hits[l]
  BY <1>1 DEF IInv, TypeOK
<1>4. QED
  BY <1>2, <1>3

(* A job that throws hits its own kind, as one of the at most 2 * MaxFaults hits. *)
LEMMA JobThrowsStep ==
  ASSUME IInv, NEW k \in Kind, NEW j \in JobId, JobThrows(k, j)
  PROVE  /\ One(k)!JobThrows(j)
         /\ \A l \in Kind \ {k} : UNCHANGED One(l)!vars
<1> DEFINE e == IF Fetches(k, j) THEN With(j, "failing", {}) ELSE NoEntry
<1>1. /\ Fault("job", {k}) /\ Serves(k, j)
      /\ Admitted(j) \/ queue[j].state = "writing"
      /\ Becomes(j, e) /\ UNCHANGED <<head, tables, fields, ticks, rows, abandoned, windowStart>>
  BY DEF JobThrows
<1>2. One(k)!Admitted(j) \/ JobsOf(k)[j].state = "writing"
  <2>1. CASE Admitted(j)
    BY <1>1, <2>1, AdmittedForOne
  <2>2. CASE queue[j].state = "writing"
    BY <1>1, <2>2, JobFields
  <2>3. QED
    BY <1>1, <2>1, <2>2
<1>3. One(k)!Fault("job") /\ \A l \in Kind \ {k} : UNCHANGED hits[l]
  BY <1>1, MayBeHit
<1>4. Untyped(e) = One(k)!Caught(j) /\ (e = NoEntry \/ e.type = queue[j].type)
  <2>1. One(k)!IsFetch(j) <=> Fetches(k, j)
    BY <1>1, JobFields
  <2>2. /\ Untyped(With(j, "failing", {})) = One(k)!Moved(j, "failing", {})
        /\ With(j, "failing", {}).type = queue[j].type /\ Untyped(NoEntry) = One(k)!FreeJob
    BY <1>1, SameMoves DEF EntryState
  <2>3. QED
    BY <2>1, <2>2 DEF One!Caught
<1> HIDE DEF e
<1>5. JobsOf(k)' = [JobsOf(k) EXCEPT ![j] = Untyped(e)] /\ \A l \in Kind \ {k} : UNCHANGED JobsOf(l)
  BY <1>1, <1>4, JobBecomes
<1>6. One(k)!JobThrows(j)
  BY <1>1, <1>2, <1>3, <1>4, <1>5 DEF One!JobThrows, fields, RowsOf
<1>7. \A l \in Kind \ {k} : UNCHANGED One(l)!vars
  BY <1>1, <1>3, <1>5 DEF One!vars, fields, RowsOf
<1>8. QED
  BY <1>6, <1>7

(* What kind k loses with an entry is the same. *)
LEMMA SameOrphan ==
  ASSUME IInv, NEW k \in Kind, NEW j \in JobId, Serves(k, j)
  PROVE  One(k)!Orphans({j}) = Orphans(k, {j})
<1>1. /\ One(k)!IsFetch(j) <=> Fetches(k, j)
      /\ JobsOf(k)[j].locked = queue[j].locked
      /\ JobsOf(k)[j].from = queue[j].from /\ JobsOf(k)[j].to = queue[j].to
  BY JobFields
<1>2. One(k)!RangeOf(JobsOf(k)[j]) = Whole(queue[j])
  BY <1>1 DEF One!RangeOf, Whole
<1>3. QED
  BY <1>1, <1>2 DEF Orphans, One!Orphans

(* A throwing catch clause is not counted as a fault but is counted as a hit: the job that
   is failing leaves room for it. *)
LEMMA SaveFailedThrowsStep ==
  ASSUME IInv, NEW k \in Kind, NEW j \in JobId, SaveFailedThrows(k, j)
  PROVE  /\ One(k)!SaveFailedThrows(j)
         /\ \A l \in Kind \ {k} : UNCHANGED One(l)!vars
<1>1. /\ "catch" \in FaultKinds /\ Hit({k}) /\ Serves(k, j) /\ Fetches(k, j)
      /\ queue[j].state = "failing" /\ Becomes(j, NoEntry)
      /\ abandoned' = [abandoned EXCEPT ![k] = @ \cup Orphans(k, {j})]
      /\ UNCHANGED <<head, tables, fields, ticks, rows, faults, windowStart>>
  BY DEF SaveFailedThrows, Serves
<1>2. IsFiniteSet(Failing(k)) /\ j \in Failing(k)
  BY <1>1, ConfigAssumption, FS_Subset DEF Failing
<1>3. Cardinality(Failing(k)) \in Nat /\ Cardinality(Failing(k)) # 0
  BY <1>2, FS_CardinalityType, FS_EmptySet
<1>4. hits[k] \in Nat /\ faults \in Nat /\ faults <= MaxFaults
      /\ hits[k] + Cardinality(Failing(k)) <= 2 * faults
  BY ConfigAssumption DEF IInv, TypeOK, HitsCounted
<1>5. hits[k]' = hits[k] + 1 /\ \A l \in Kind \ {k} : UNCHANGED hits[l]
  BY <1>1 DEF Hit, IInv, TypeOK
<1>6. One(k)!Fault("catch")
  <2>1. hits[k] < 2 * MaxFaults
    BY <1>3, <1>4, ConfigAssumption
  <2>2. QED
    BY <1>1, <1>5, <2>1 DEF One!Fault
<1>7. /\ abandoned[k]' = abandoned[k] \cup One(k)!Orphans({j})
      /\ \A l \in Kind \ {k} : UNCHANGED abandoned[l]
  BY <1>1, SameOrphan DEF IInv, TypeOK
<1>8. /\ JobsOf(k)' = [JobsOf(k) EXCEPT ![j] = One(k)!FreeJob]
      /\ \A l \in Kind \ {k} : UNCHANGED JobsOf(l)
  BY <1>1, JobGone
<1>9. JobsOf(k)[j].state = "failing"
  BY <1>1, JobFields
<1>10. One(k)!SaveFailedThrows(j)
  BY <1>1, <1>6, <1>7, <1>8, <1>9 DEF One!SaveFailedThrows, fields, RowsOf
<1>11. \A l \in Kind \ {k} : UNCHANGED One(l)!vars
  BY <1>1, <1>5, <1>7, <1>8 DEF One!vars, fields, RowsOf
<1>12. QED
  BY <1>10, <1>11

(* A job that lost its lock is the same entry without it. *)
LEMMA SameUnlocked ==
  ASSUME IInv, NEW k \in Kind, NEW j \in JobId, Serves(k, j)
  PROVE  /\ Untyped(Unlocked(j)) = One(k)!Unlocked(j)
         /\ Unlocked(j) \in EntryRecord /\ Unlocked(j).type = queue[j].type
         /\ Unlocked(j).state = queue[j].state /\ Unlocked(j).cp = queue[j].cp
         /\ Unlocked(j).left = queue[j].left
<1>1. PICK q \in EntryRecord : q = queue[j]
  BY JobFields
<1> DEFINE View == [state : EntryState, from : Int, to : Int, cp : RowId \cup {NoCheckpoint},
                    left : SUBSET Nat, stalls : Nat, locked : BOOLEAN]
<1>2. PICK m \in EntryRecord : m = [q EXCEPT !.locked = FALSE]
  BY DEF EntryRecord
<1>3. /\ m.state = q.state /\ m.type = q.type /\ m.from = q.from /\ m.to = q.to /\ m.cp = q.cp
      /\ m.left = q.left /\ m.stalls = q.stalls /\ m.locked = FALSE
  BY <1>2 DEF EntryRecord
<1>4. PICK v \in View : v = Untyped(q)
  BY DEF EntryRecord, EntryState, Untyped
<1>5. /\ v.state = q.state /\ v.from = q.from /\ v.to = q.to /\ v.cp = q.cp
      /\ v.left = q.left /\ v.stalls = q.stalls
  BY <1>4 DEF Untyped
<1>6. PICK w \in View : w = [v EXCEPT !.locked = FALSE]
  OBVIOUS
<1>7. /\ w.state = v.state /\ w.from = v.from /\ w.to = v.to /\ w.cp = v.cp
      /\ w.left = v.left /\ w.stalls = v.stalls /\ w.locked = FALSE
  BY <1>6
<1>8. w = [state |-> w.state, from |-> w.from, to |-> w.to, cp |-> w.cp, left |-> w.left,
           stalls |-> w.stalls, locked |-> w.locked]
  OBVIOUS
<1>9. Untyped(m) = w
  BY <1>3, <1>5, <1>7, <1>8 DEF Untyped
<1>10. m = Unlocked(j)
  BY <1>1, <1>2 DEF Unlocked
<1>11. w = One(k)!Unlocked(j)
  <2>1. JobsOf(k)[j] = v
    BY <1>1, <1>4, JobFields
  <2>2. QED
    BY <1>6, <2>1, Zenon DEF One!Unlocked
<1>12. QED
  BY <1>1, <1>3, <1>9, <1>10, <1>11

(* A redelivered entry is the same for RangeFetch. *)
LEMMA SameRedelivered ==
  ASSUME IInv, NEW k \in Kind, NEW j \in JobId, Serves(k, j)
  PROVE  /\ Untyped(Redelivered(j)) = One(k)!Redelivered(j)
         /\ Redelivered(j).type = queue[j].type
<1>1. /\ JobsOf(k)[j].from = queue[j].from /\ JobsOf(k)[j].to = queue[j].to
      /\ JobsOf(k)[j].cp = queue[j].cp /\ JobsOf(k)[j].stalls = queue[j].stalls
  BY JobFields
<1>2. PICK q, n : q = queue[j] /\ n = queue[j].stalls + 1
  OBVIOUS
<1>3. Redelivered(j) = Entry(q.type, q, n)
  BY <1>2 DEF Redelivered
<1>4. Entry(q.type, q, n).type = q.type
      /\ Untyped(Entry(q.type, q, n)) =
           [state |-> "waiting", from |-> q.from, to |-> q.to, cp |-> q.cp,
            left |-> {}, stalls |-> n, locked |-> TRUE]
  BY DEF Entry, NoEntry, Untyped
<1>5. One(k)!Redelivered(j) =
        [state |-> "waiting", from |-> q.from, to |-> q.to, cp |-> q.cp,
         left |-> {}, stalls |-> n, locked |-> TRUE]
  BY <1>1, <1>2 DEF One!Redelivered, One!WaitingJob
<1>6. QED
  BY <1>2, <1>3, <1>4, <1>5

(* A stalled entry is unlocked, and redelivered into a slot that is free for every kind. *)
LEMMA StallStep ==
  ASSUME IInv, NEW k \in Kind, NEW j \in JobId, Stall(k, j)
  PROVE  /\ One(k)!Stall(j)
         /\ \A l \in Kind \ {k} : UNCHANGED One(l)!vars
<1>1. /\ Fault("stall", {k}) /\ Serves(k, j) /\ j \in Running /\ queue[j].locked
      /\ UNCHANGED <<head, tables, fields, ticks, rows, windowStart>>
  BY DEF Stall
<1>2. One(k)!Fault("stall") /\ \A l \in Kind \ {k} : UNCHANGED hits[l]
  BY <1>1, MayBeHit
<1>3. /\ j \in One(k)!Running /\ JobsOf(k)[j].locked
      /\ One(k)!GivesUp(j) <=> GivesUp(j)
  <2>1. JobsOf(k)[j].state = queue[j].state /\ JobsOf(k)[j].locked = queue[j].locked
        /\ JobsOf(k)[j].stalls = queue[j].stalls
    BY <1>1, JobFields
  <2>2. QED
    BY <1>1, <2>1 DEF Running, One!Running, GivesUp, One!GivesUp
<1>4. /\ Untyped(Unlocked(j)) = One(k)!Unlocked(j) /\ Unlocked(j).type = queue[j].type
      /\ Untyped(Redelivered(j)) = One(k)!Redelivered(j) /\ Redelivered(j).type = queue[j].type
  BY <1>1, SameUnlocked, SameRedelivered
<1>5. CASE GivesUp(j)
  <2>1. Becomes(j, Unlocked(j)) /\ abandoned' = [abandoned EXCEPT ![k] = @ \cup Orphans(k, {j})]
    BY <1>5 DEF Stall
  <2>2. /\ JobsOf(k)' = [JobsOf(k) EXCEPT ![j] = One(k)!Unlocked(j)]
        /\ \A l \in Kind \ {k} : UNCHANGED JobsOf(l)
    BY <1>1, <1>4, <2>1, JobBecomes
  <2>3. /\ abandoned[k]' = abandoned[k] \cup One(k)!Orphans({j})
        /\ \A l \in Kind \ {k} : UNCHANGED abandoned[l]
    BY <1>1, <2>1, SameOrphan DEF IInv, TypeOK
  <2>4. One(k)!Stall(j)
    BY <1>1, <1>2, <1>3, <1>5, <2>2, <2>3 DEF One!Stall, fields, RowsOf
  <2>5. \A l \in Kind \ {k} : UNCHANGED One(l)!vars
    BY <1>1, <1>2, <2>2, <2>3 DEF One!vars, fields, RowsOf
  <2>6. QED
    BY <2>4, <2>5
<1>6. CASE ~GivesUp(j)
  <2>1. PICK i \in FreeSlots : queue' = [queue EXCEPT ![j] = Unlocked(j), ![i] = Redelivered(j)]
    BY <1>6 DEF Stall
  <2>2. UNCHANGED abandoned
    BY <1>6 DEF Stall
  <2>3. queue \in [JobId -> EntryRecord] /\ i \in JobId /\ i # j
    BY <1>1, FreeForAll DEF IInv, TypeOK, FreeSlots, Running, Kind
  <2>4. ASSUME NEW l \in Kind
        PROVE  JobsOf(l)' = [JobsOf(l) EXCEPT ![j] = JobOf(l, Unlocked(j)),
                                              ![i] = JobOf(l, Redelivered(j))]
    BY <2>1, <2>3 DEF JobsOf
  <2>5. /\ JobOf(k, Unlocked(j)) = One(k)!Unlocked(j)
        /\ JobOf(k, Redelivered(j)) = One(k)!Redelivered(j)
    BY <1>1, <1>4, JobFields DEF JobOf, Mine
  <2>6. JobsOf(k)' = [JobsOf(k) EXCEPT ![j] = One(k)!Unlocked(j), ![i] = One(k)!Redelivered(j)]
    BY <2>4, <2>5
  <2>7. ASSUME NEW l \in Kind \ {k} PROVE UNCHANGED JobsOf(l)
    <3>1. ~Mine(l, queue[j]) /\ ~Mine(l, queue[i])
      BY <1>1, JobFields, FreeForAll
    <3>2. ~Mine(l, Unlocked(j)) /\ ~Mine(l, Redelivered(j))
      BY <1>4, <3>1 DEF Mine
    <3>3. JobOf(l, Unlocked(j)) = JobsOf(l)[j] /\ JobOf(l, Redelivered(j)) = JobsOf(l)[i]
      BY <2>3, <3>1, <3>2, NobodysJob DEF JobsOf
    <3>4. QED
      BY <2>3, <2>4, <3>3 DEF JobsOf
  <2>8. i \in One(k)!FreeSlots
    BY <1>1, FreeForAll
  <2>9. One(k)!Stall(j)
    BY <1>1, <1>2, <1>3, <1>6, <2>2, <2>6, <2>8 DEF One!Stall, fields, RowsOf
  <2>10. \A l \in Kind \ {k} : UNCHANGED One(l)!vars
    BY <1>1, <1>2, <2>2, <2>7 DEF One!vars, fields, RowsOf
  <2>11. QED
    BY <2>9, <2>10
<1>7. QED
  BY <1>5, <1>6

(* A crash of the process is a restart of each of the three. *)
LEMMA CrashStep ==
  ASSUME IInv, Crash, NEW k \in Kind
  PROVE  One(k)!Crash
<1> DEFINE Lost == {j \in Running : ~queue[j].locked \/ GivesUp(j)}
           LostOne == {j \in One(k)!Running : ~JobsOf(k)[j].locked \/ One(k)!GivesUp(j)}
           mine == {j \in JobId : Serves(k, j)}
           left(j) == IF j \notin Running THEN queue[j]
                      ELSE IF j \in Lost THEN NoEntry ELSE Redelivered(j)
<1>1. /\ Fault("crash", Kind)
      /\ ticks' = [l \in Kind |-> [t \in TickId |-> IdleTick]]
      /\ newestBlock' = [l \in Kind |-> 0] /\ booted' = [l \in Kind |-> FALSE]
      /\ queue' = [j \in JobId |-> left(j)]
      /\ abandoned' = [l \in Kind |-> abandoned[l] \cup Orphans(l, Lost)]
      /\ UNCHANGED <<head, tables, rows, windowStart>>
  BY DEF Crash
<1>2. One(k)!Fault("crash")
  BY <1>1, MayBeHit
<1>3. ASSUME NEW j \in mine
      PROVE  /\ j \in One(k)!Running <=> j \in Running
             /\ j \in LostOne <=> j \in Lost
  <2>1. JobsOf(k)[j].state = queue[j].state /\ JobsOf(k)[j].locked = queue[j].locked
        /\ JobsOf(k)[j].stalls = queue[j].stalls
    BY JobFields
  <2>2. QED
    BY <2>1 DEF Running, One!Running, GivesUp, One!GivesUp
<1>4. ASSUME NEW j \in JobId \ mine
      PROVE  /\ JobsOf(k)[j] = One(k)!FreeJob /\ ~Mine(k, queue[j])
             /\ j \notin One(k)!Running /\ j \notin LostOne
  <2>1. ~Mine(k, queue[j])
    BY DEF Mine, Serves, Fetches, Refreshes
  <2>2. JobsOf(k)[j] = Untyped(NoEntry)
    BY <2>1 DEF JobsOf, JobOf
  <2>3. JobsOf(k)[j] = One(k)!FreeJob
    BY <2>2 DEF Untyped, NoEntry, One!FreeJob
  <2>4. JobsOf(k)[j].state = "free"
    BY <2>3 DEF One!FreeJob
  <2>5. QED
    BY <2>1, <2>3, <2>4 DEF One!Running
<1>5. JobsOf(k)' = [j \in JobId |-> JobOf(k, left(j))]
  BY <1>1 DEF JobsOf
<1>6. ASSUME NEW j \in JobId
      PROVE  JobOf(k, left(j)) = (IF j \notin One(k)!Running THEN JobsOf(k)[j]
                                  ELSE IF j \in LostOne THEN One(k)!FreeJob
                                  ELSE One(k)!Redelivered(j))
  <2>1. JobOf(k, NoEntry) = One(k)!FreeJob
    BY NobodysJob DEF JobOf, Untyped, NoEntry, One!FreeJob
  <2>2. CASE j \in mine
    <3>1. JobOf(k, queue[j]) = JobsOf(k)[j]
      BY DEF JobsOf
    <3>2. JobOf(k, Redelivered(j)) = One(k)!Redelivered(j)
      BY <2>2, JobFields, SameRedelivered DEF JobOf, Mine
    <3>3. QED
      BY <1>3, <2>1, <2>2, <3>1, <3>2
  <2>3. CASE j \notin mine
    <3>1. ~Mine(k, Redelivered(j))
      BY <1>4, <2>3, EntryFields DEF Redelivered, Mine
    <3>2. ~Mine(k, left(j))
      BY <1>4, <2>3, <3>1, NobodysJob
    <3>3. JobOf(k, left(j)) = One(k)!FreeJob
      BY <2>1, <3>2, NobodysJob
    <3>4. QED
      BY <1>4, <2>3, <3>3
  <2>4. QED
    BY <2>2, <2>3
<1>7. One(k)!Orphans(LostOne) = Orphans(k, Lost)
  <2>1. \A j \in JobId :
          j \in LostOne /\ JobsOf(k)[j].locked /\ One(k)!IsFetch(j)
            <=> j \in Lost /\ queue[j].locked /\ Fetches(k, j)
    <3>1. ASSUME NEW j \in mine
          PROVE  /\ JobsOf(k)[j].locked = queue[j].locked
                 /\ One(k)!IsFetch(j) <=> Fetches(k, j)
      BY JobFields
    <3>2. \A j \in JobId \ mine : ~Fetches(k, j)
      BY DEF Serves
    <3>3. QED
      BY <1>3, <1>4, <3>1, <3>2
  <2>2. \A j \in mine : One(k)!RangeOf(JobsOf(k)[j]) = Whole(queue[j])
    BY JobFields DEF One!RangeOf, Whole
  <2>3. \A j \in JobId : Fetches(k, j) => j \in mine
    BY DEF Serves
  <2>4. Lost \subseteq JobId /\ LostOne \subseteq JobId
    BY DEF Running, One!Running
  <2> HIDE DEF Lost, LostOne, mine
  <2>5. {j \in LostOne : JobsOf(k)[j].locked /\ One(k)!IsFetch(j)} =
          {j \in Lost : queue[j].locked /\ Fetches(k, j)}
    BY <2>1, <2>4
  <2>6. QED
    BY <2>2, <2>3, <2>4, <2>5 DEF Orphans, One!Orphans
<1> HIDE DEF Lost, left, mine
<1>8. /\ JobsOf(k)' = [j \in JobId |-> IF j \notin One(k)!Running THEN JobsOf(k)[j]
                                       ELSE IF j \in LostOne THEN One(k)!FreeJob
                                       ELSE One(k)!Redelivered(j)]
      /\ abandoned[k]' = abandoned[k] \cup One(k)!Orphans(LostOne)
  BY <1>1, <1>5, <1>6, <1>7
<1>9. /\ ticks[k]' = [t \in TickId |-> One(k)!IdleTick]
      /\ newestBlock[k]' = 0 /\ booted[k]' = FALSE
      /\ UNCHANGED <<head, tables[k], RowsOf(k), windowStart[k]>>
  BY <1>1 DEF IdleTick, Ticking, One!IdleTick, One!Ticking, RowsOf
<1>10. One(k)!Restart
  BY <1>8, <1>9 DEF One!Restart
<1>11. QED
  BY <1>2, <1>10 DEF One!Crash

(* A tick that throws ends alone in LISTEN mode and takes the process, that is every kind,
   down in CRAWL mode. *)
LEMMA TickThrowsStep ==
  ASSUME IInv, NEW k \in Kind, NEW t \in TickId, TickThrows(k, t), NEW l \in Kind
  PROVE  \/ One(l)!Crash
         \/ l = k /\ One(l)!TickThrows(t)
         \/ UNCHANGED One(l)!vars
<1>1. CASE Mode = "CRAWL"
  BY <1>1, CrashStep DEF TickThrows
<1>2. CASE Mode # "CRAWL"
  <2>1. /\ ticks[k][t].pc # "idle" /\ Fault("tick", {k}) /\ Moves(k, t, IdleTick)
        /\ UNCHANGED <<head, tables, fields, rows, queue, abandoned, windowStart>>
    BY <1>2 DEF TickThrows
  <2>2. One(k)!Fault("tick") /\ \A m \in Kind \ {k} : UNCHANGED hits[m]
    BY <2>1, MayBeHit
  <2>3. CASE l = k
    <3>1. ticks[k]' = [ticks[k] EXCEPT ![t] = One(k)!IdleTick]
      BY <2>1, OwnTick DEF IdleTick, Ticking, One!IdleTick, One!Ticking
    <3>2. One(k)!TickThrows(t)
      BY <1>2, <2>1, <2>2, <3>1 DEF One!TickThrows, fields, RowsOf, JobsOf
    <3>3. QED
      BY <2>3, <3>2
  <2>4. CASE l # k
    BY <2>1, <2>2, <2>4, OtherTicks DEF One!vars, fields, RowsOf, JobsOf
  <2>5. QED
    BY <2>3, <2>4
<1>3. QED
  BY <1>1, <1>2

(***************************************************************************)
(* The invariant                                                           *)
(***************************************************************************)
(* A row never changes its type once it has one. *)
RowsKeepTypes ==
  \A c \in RowId : rows[c].queryType # NoType => rows'[c].queryType = rows[c].queryType

(* So whoever refetches a row of its kind still does. *)
LEMMA OwnershipKept ==
  ASSUME NEW k \in Kind, NEW c, OwnsItsRow(k, c), RowsKeepTypes
  PROVE  OwnsItsRow(k, c)'
BY TypesDistinct DEF OwnsItsRow, RowsKeepTypes

(* An entry of its type stays one while the rows keep their types. *)
LEMMA EntryKept ==
  ASSUME NEW q, EntryTyped(q), RowsKeepTypes
  PROVE  EntryTyped(q)'
BY OwnershipKept DEF EntryTyped

(* ... and so does a tick. *)
LEMMA TickKept ==
  ASSUME NEW k \in Kind, NEW tick, TickTyped(k, tick), RowsKeepTypes
  PROVE  TickTyped(k, tick)'
BY OwnershipKept DEF TickTyped

(* When one entry of the queue changes, only that one has to be looked at. *)
LEMMA QueueStep ==
  ASSUME IInv, NEW j \in JobId, NEW e \in EntryRecord, Becomes(j, e), EntryTyped(e)',
         RowsKeepTypes
  PROVE  queue' \in [JobId -> EntryRecord] /\ EntriesTyped'
<1>1. queue \in [JobId -> EntryRecord] /\ \A i \in JobId : EntryTyped(queue[i])
  BY DEF IInv, TypeOK, EntriesTyped
<1>2. queue' = [queue EXCEPT ![j] = e]
  BY DEF Becomes
<1>3. ASSUME NEW i \in JobId PROVE EntryTyped(queue[i])'
  <2>1. PICK q \in EntryRecord : q = queue'[i] /\ (q = e \/ q = queue[i])
    BY <1>1, <1>2
  <2>2. EntryTyped(q)'
    BY <1>1, <2>1, EntryKept
  <2>3. QED
    BY <2>1, <2>2
<1>4. QED
  BY <1>1, <1>2, <1>3 DEF EntriesTyped

(* The queue stays as it is. *)
LEMMA QueueIdle ==
  ASSUME IInv, UNCHANGED queue, RowsKeepTypes
  PROVE  queue' \in [JobId -> EntryRecord] /\ EntriesTyped'
<1>1. queue \in [JobId -> EntryRecord] /\ \A i \in JobId : EntryTyped(queue[i])
  BY DEF IInv, TypeOK, EntriesTyped
<1>2. ASSUME NEW i \in JobId PROVE EntryTyped(queue[i])'
  <2>1. PICK q \in EntryRecord : q = queue'[i] /\ q = queue[i]
    BY <1>1
  <2>2. EntryTyped(q)'
    BY <1>1, <2>1, EntryKept
  <2>3. QED
    BY <2>1, <2>2
<1>3. QED
  BY <1>1, <1>2 DEF EntriesTyped

(* When one tick moves, only that one has to be looked at. *)
LEMMA TickStep ==
  ASSUME IInv, NEW k \in Kind, NEW t \in TickId, NEW tick \in TickRecord, Moves(k, t, tick),
         TickTyped(k, tick)', RowsKeepTypes
  PROVE  ticks' \in [Kind -> [TickId -> TickRecord]] /\ TicksTyped'
<1>1. ticks \in [Kind -> [TickId -> TickRecord]]
      /\ \A l \in Kind, s \in TickId : TickTyped(l, ticks[l][s])
  BY DEF IInv, TypeOK, TicksTyped
<1>2. ticks' = [ticks EXCEPT ![k][t] = tick]
  BY DEF Moves
<1>3. ASSUME NEW l \in Kind, NEW s \in TickId PROVE TickTyped(l, ticks[l][s])'
  <2>1. PICK p \in TickRecord :
          p = ticks'[l][s] /\ ((l = k /\ p = tick) \/ p = ticks[l][s])
    BY <1>1, <1>2
  <2>2. TickTyped(l, p)'
    BY <1>1, <2>1, TickKept
  <2>3. QED
    BY <2>1, <2>2
<1>4. QED
  BY <1>1, <1>2, <1>3 DEF TicksTyped

(* The ticks stay as they are. *)
LEMMA TicksIdle ==
  ASSUME IInv, UNCHANGED ticks, RowsKeepTypes
  PROVE  ticks' \in [Kind -> [TickId -> TickRecord]] /\ TicksTyped'
<1>1. ticks \in [Kind -> [TickId -> TickRecord]]
      /\ \A l \in Kind, s \in TickId : TickTyped(l, ticks[l][s])
  BY DEF IInv, TypeOK, TicksTyped
<1>2. ASSUME NEW l \in Kind, NEW s \in TickId PROVE TickTyped(l, ticks[l][s])'
  <2>1. PICK p \in TickRecord : p = ticks'[l][s] /\ p = ticks[l][s]
    BY <1>1
  <2>2. TickTyped(l, p)'
    BY <1>1, <2>1, TickKept
  <2>3. QED
    BY <2>1, <2>2
<1>3. QED
  BY <1>1, <1>2 DEF TicksTyped

(* No step without a fault can upset the count of hits, unless a job fails by it. *)
LEMMA HitsIdle ==
  ASSUME IInv, UNCHANGED <<hits, faults>>, \A l \in Kind : Failing(l)' \subseteq Failing(l)
  PROVE  HitsCounted'
<1>1. ASSUME NEW l \in Kind
      PROVE  hits'[l] + Cardinality(Failing(l)') <= 2 * faults'
  <2>1. IsFiniteSet(Failing(l))
    BY ConfigAssumption, FS_Subset DEF Failing
  <2>2. Cardinality(Failing(l)') <= Cardinality(Failing(l)) /\ IsFiniteSet(Failing(l)')
    BY <2>1, FS_Subset
  <2>3. Cardinality(Failing(l)) \in Nat /\ Cardinality(Failing(l)') \in Nat
    BY <2>1, <2>2, FS_CardinalityType
  <2>4. hits[l] \in Nat /\ faults \in Nat /\ hits[l] + Cardinality(Failing(l)) <= 2 * faults
    BY ConfigAssumption DEF IInv, TypeOK, HitsCounted
  <2>5. QED
    BY <2>2, <2>3, <2>4
<1>2. QED
  BY <1>1 DEF HitsCounted

(* A counted fault that fails at most one job allows for two more hits. *)
LEMMA HitsFault ==
  ASSUME IInv, NEW f, NEW K \in SUBSET Kind, Fault(f, K), NEW j \in JobId,
         \A l \in Kind : Failing(l)' \subseteq Failing(l) \cup {j}
  PROVE  HitsCounted' /\ faults' \in 0..MaxFaults /\ hits' \in [Kind -> Nat]
<1>1. faults < MaxFaults /\ faults' = faults + 1 /\ faults \in Nat
      /\ hits' = [k \in Kind |-> hits[k] + IF k \in K THEN 1 ELSE 0] /\ hits \in [Kind -> Nat]
  BY ConfigAssumption DEF Fault, Hit, IInv, TypeOK
<1>2. faults' \in 0..MaxFaults /\ hits' \in [Kind -> Nat]
  BY <1>1, ConfigAssumption
<1>3. ASSUME NEW l \in Kind
      PROVE  hits'[l] + Cardinality(Failing(l)') <= 2 * faults'
  <2>1. IsFiniteSet(Failing(l))
    BY ConfigAssumption, FS_Subset DEF Failing
  <2>2. /\ IsFiniteSet(Failing(l) \cup {j})
        /\ Cardinality(Failing(l) \cup {j}) <= Cardinality(Failing(l)) + 1
    <3>1. IsFiniteSet(Failing(l) \cup {j}) /\ Cardinality(Failing(l)) \in Nat
      BY <2>1, FS_AddElement, FS_CardinalityType
    <3>2. Cardinality(Failing(l) \cup {j}) =
            IF j \in Failing(l) THEN Cardinality(Failing(l)) ELSE Cardinality(Failing(l)) + 1
      BY <2>1, FS_AddElement
    <3>3. QED
      BY <3>1, <3>2
  <2>3. Cardinality(Failing(l)') <= Cardinality(Failing(l) \cup {j}) /\ IsFiniteSet(Failing(l)')
    BY <2>2, FS_Subset
  <2>4. Cardinality(Failing(l)) \in Nat /\ Cardinality(Failing(l)') \in Nat
        /\ Cardinality(Failing(l) \cup {j}) \in Nat
    BY <2>1, <2>2, <2>3, FS_CardinalityType
  <2>5. /\ hits[l] \in Nat /\ hits[l] + Cardinality(Failing(l)) <= 2 * faults
        /\ hits'[l] <= hits[l] + 1 /\ hits'[l] \in Nat
    BY <1>1 DEF IInv, TypeOK, HitsCounted
  <2>6. QED
    BY <1>1, <2>2, <2>3, <2>4, <2>5
<1>4. QED
  BY <1>2, <1>3 DEF HitsCounted

(* When one entry of the queue changes and is not failing, no job starts to fail. *)
LEMMA NoneFails ==
  ASSUME IInv, NEW j \in JobId, NEW e, Becomes(j, e)
  PROVE  /\ \A l \in Kind : Failing(l)' \subseteq Failing(l) \cup {j}
         /\ e.state # "failing" => \A l \in Kind : Failing(l)' \subseteq Failing(l) \ {j}
BY DEF Becomes, IInv, TypeOK, Failing, Fetches

(* The record of a tick in progress, and the one that is idle. *)
LEMMA TickingType ==
  ASSUME NEW pc \in {"idle", "refetching", "latest", "adding"},
         NEW probe \in SUBSET RowId, NEW todo \in SUBSET Task
  PROVE  /\ Ticking(pc, probe, todo) \in TickRecord
         /\ Ticking(pc, probe, todo).pc = pc
         /\ Ticking(pc, probe, todo).probe = probe
         /\ Ticking(pc, probe, todo).todo = todo
BY DEF Ticking, TickRecord

(* The idle tick is of every kind's type. *)
LEMMA IdleTickType ==
  /\ IdleTick \in TickRecord
  /\ \A k \in Kind : TickTyped(k, IdleTick) /\ TickTyped(k, IdleTick)'
<1>1. IdleTick \in TickRecord /\ IdleTick.probe = {} /\ IdleTick.todo = {}
  BY TickingType DEF IdleTick
<1>2. PICK tick \in TickRecord : tick = IdleTick /\ tick.probe = {} /\ tick.todo = {}
  BY <1>1
<1>3. \A k \in Kind : TickTyped(k, tick) /\ TickTyped(k, tick)'
  BY <1>2 DEF TickTyped
<1>4. QED
  BY <1>1, <1>2, <1>3

(* A new entry is of its type, and starts out waiting. *)
LEMMA EntryType ==
  ASSUME NEW type \in QueryTypes, NEW r, NEW stalls \in Nat,
         r.from \in Int, r.to \in Int, r.cp \in RowId \cup {NoCheckpoint}
  PROVE  /\ Entry(type, r, stalls) \in EntryRecord
         /\ Entry(type, r, stalls).state = "waiting" /\ Entry(type, r, stalls).type = type
         /\ Entry(type, r, stalls).cp = r.cp /\ Entry(type, r, stalls).left = {}
BY DEF Entry, NoEntry, EntryRecord, EntryState

(* The free entry is nobody's. *)
LEMMA NoEntryType ==
  /\ NoEntry \in EntryRecord /\ NoEntry.state = "free"
  /\ EntryTyped(NoEntry) /\ EntryTyped(NoEntry)'
<1>1. /\ NoEntry \in EntryRecord /\ NoEntry.state = "free" /\ NoEntry.type = NoType
      /\ NoEntry.left = {}
  BY DEF NoEntry, EntryRecord, EntryState
<1>2. PICK e \in EntryRecord : e = NoEntry /\ e.type = NoType /\ e.state = "free"
  BY <1>1
<1>3. EntryTyped(e) /\ EntryTyped(e)'
  BY <1>2, TypesDistinct DEF EntryTyped, Mine
<1>4. QED
  BY <1>1, <1>2, <1>3

(* A job moved to another state stays of its type. *)
LEMMA WithType ==
  ASSUME IInv, NEW j \in JobId, NEW state \in EntryState, NEW left \in SUBSET Nat
  PROVE  /\ With(j, state, left) \in EntryRecord
         /\ With(j, state, left).state = state /\ With(j, state, left).left = left
         /\ With(j, state, left).type = queue[j].type /\ With(j, state, left).cp = queue[j].cp
<1>1. PICK q \in EntryRecord : q = queue[j]
  BY DEF IInv, TypeOK
<1>2. PICK m \in EntryRecord : m = [q EXCEPT !.state = state, !.left = left]
  BY DEF EntryRecord
<1>3. m.state = state /\ m.left = left /\ m.type = q.type /\ m.cp = q.cp
  BY <1>2 DEF EntryRecord
<1>4. m = With(j, state, left)
  BY <1>1, <1>2 DEF With
<1>5. QED
  BY <1>1, <1>3, <1>4

(* No row changes. *)
LEMMA RowsIdle == ASSUME UNCHANGED rows PROVE RowsKeepTypes
BY DEF RowsKeepTypes

(* A step that only moves a tick keeps the invariant if the tick is of its type. *)
LEMMA TickOnlyInv ==
  ASSUME IInv, NEW k \in Kind, NEW t \in TickId, NEW tick \in TickRecord, Moves(k, t, tick),
         TickTyped(k, tick), UNCHANGED <<head, tables, rows, queue, faults, hits, abandoned>>,
         newestBlock' \in [Kind -> 0..MaxBlock], booted' \in [Kind -> BOOLEAN],
         windowStart' \in [Kind -> Int]
  PROVE  IInv'
<1>1. RowsKeepTypes
  BY RowsIdle
<1>2. TickTyped(k, tick)'
  BY <1>1, TickKept
<1>3. ticks' \in [Kind -> [TickId -> TickRecord]] /\ TicksTyped'
  BY <1>1, <1>2, TickStep
<1>4. EntriesTyped'
  BY <1>1, QueueIdle
<1>5. HitsCounted'
  <2>1. \A l \in Kind : Failing(l)' \subseteq Failing(l)
    BY DEF Failing, Fetches
  <2>2. QED
    BY <2>1, HitsIdle
<1>6. TypeOK'
  BY <1>3 DEF IInv, TypeOK
<1>7. QED
  BY <1>3, <1>4, <1>5, <1>6 DEF IInv

(* A tick starts with failed rows of its own kind. *)
LEMMA StartTickInv ==
  ASSUME IInv, NEW k \in Kind, NEW t \in TickId, StartTick(k, t)
  PROVE  IInv'
<1> DEFINE failed == FindFailedCheckpoints(FetchType[k])
<1>1. failed \in SUBSET RowId /\ \A c \in failed : OwnsItsRow(k, c)
  BY DEF FindFailedCheckpoints, OwnsItsRow
<1>2. PICK tick \in TickRecord :
        tick = Ticking("refetching", failed, {}) /\ tick.probe = failed /\ tick.todo = {}
  BY <1>1, TickingType
<1>3. TickTyped(k, tick)
  BY <1>1, <1>2 DEF TickTyped
<1>4. Moves(k, t, tick) /\ booted' = [booted EXCEPT ![k] = TRUE]
      /\ UNCHANGED <<head, tables, newestBlock, rows, queue, history>>
  BY <1>2 DEF StartTick
<1>5. booted' \in [Kind -> BOOLEAN]
  BY <1>4 DEF IInv, TypeOK
<1>6. newestBlock' \in [Kind -> 0..MaxBlock] /\ windowStart' \in [Kind -> Int]
      /\ UNCHANGED <<head, tables, rows, queue, faults, hits, abandoned>>
  BY <1>4 DEF IInv, TypeOK, history
<1>7. QED
  BY <1>3, <1>4, <1>5, <1>6, TickOnlyInv

(* What the probe of a row of kind k plans refetches that row. *)
LEMMA RefetchType ==
  ASSUME IInv, NEW k \in Kind, NEW c \in RowId, OwnsItsRow(k, c)
  PROVE  Refetch(k, c) \in SUBSET Task /\ \A r \in Refetch(k, c) : OwnsItsRow(k, r.cp)
<1>1. rows[c].from \in Int /\ rows[c].to \in Int
  BY DEF IInv, TypeOK, RowRecord
<1>2. Recorded(k) \subseteq Int
  <2>1. \A x \in TxHash : tables[k][x] # 0 => tables[k][x] \in 1..NumEvents[k]
    BY EventAssumption DEF IInv, TypeOK
  <2>2. \A e \in 1..NumEvents[k] : Block[k][e] \in Int
    BY EventAssumption
  <2>3. QED
    BY <2>1, <2>2 DEF Recorded
<1>3. \A r \in Refetch(k, c) : r \in Task /\ r.cp = c
  BY <1>1, <1>2 DEF Refetch, Task
<1>4. QED
  BY <1>3

(* A probed row of the kind becomes a refetch of that row. *)
LEMMA ProbeFailedInv ==
  ASSUME IInv, NEW k \in Kind, NEW t \in TickId, ProbeFailed(k, t)
  PROVE  IInv'
<1> DEFINE probe == ticks[k][t].probe
           todo == ticks[k][t].todo
<1>1. /\ ticks[k][t].pc = "refetching"
      /\ UNCHANGED <<head, tables, fields, rows, queue, history>>
  BY DEF ProbeFailed
<1>2. PICK c \in probe : Moves(k, t, Ticking("refetching", probe \ {c}, todo \cup Refetch(k, c)))
  BY DEF ProbeFailed
<1>3. /\ probe \in SUBSET RowId /\ todo \in SUBSET Task
      /\ \A d \in probe : OwnsItsRow(k, d)
      /\ \A r \in todo : OwnsItsRow(k, r.cp)
  BY <1>1 DEF IInv, TypeOK, TickRecord, TicksTyped, TickTyped
<1>4. Refetch(k, c) \in SUBSET Task /\ \A r \in Refetch(k, c) : OwnsItsRow(k, r.cp)
  BY <1>3, RefetchType
<1>5. PICK tick \in TickRecord :
        /\ tick = Ticking("refetching", probe \ {c}, todo \cup Refetch(k, c))
        /\ tick.pc = "refetching" /\ tick.probe = probe \ {c} /\ tick.todo = todo \cup Refetch(k, c)
  BY <1>3, <1>4, TickingType
<1>6. TickTyped(k, tick)
  BY <1>3, <1>4, <1>5 DEF TickTyped
<1>7. newestBlock' \in [Kind -> 0..MaxBlock] /\ booted' \in [Kind -> BOOLEAN]
      /\ windowStart' \in [Kind -> Int]
      /\ UNCHANGED <<head, tables, rows, queue, faults, hits, abandoned>>
  BY <1>1 DEF IInv, TypeOK, history, fields
<1>8. QED
  BY <1>2, <1>5, <1>6, <1>7, TickOnlyInv

(* A height read is at most the head. *)
LEMMA ReadHeadInv ==
  ASSUME IInv, NEW k \in Kind, NEW t \in TickId, ReadHead(k, t)
  PROVE  IInv'
<1>1. PICK tick \in TickRecord :
        tick = Ticking("latest", {}, {}) /\ tick.probe = {} /\ tick.todo = {}
  BY TickingType
<1>2. TickTyped(k, tick)
  BY <1>1 DEF TickTyped
<1>3. Moves(k, t, tick) /\ UNCHANGED <<head, tables, booted, rows, queue, history>>
  BY <1>1 DEF ReadHead
<1>4. PICK n \in Greater(head - Lag, 0)..head : newestBlock' = [newestBlock EXCEPT ![k] = n]
  BY DEF ReadHead
<1>5. n \in 0..MaxBlock
  BY ConfigAssumption DEF IInv, TypeOK, Greater
<1>6. newestBlock' \in [Kind -> 0..MaxBlock]
  BY <1>4, <1>5 DEF IInv, TypeOK
<1>7. booted' \in [Kind -> BOOLEAN] /\ windowStart' \in [Kind -> Int]
      /\ UNCHANGED <<head, tables, rows, queue, faults, hits, abandoned>>
  BY <1>3 DEF IInv, TypeOK, history
<1>8. QED
  BY <1>2, <1>3, <1>6, <1>7, TickOnlyInv

(* A planned window has no checkpoint to clear. *)
LEMMA ReadLatestInv ==
  ASSUME IInv, NEW k \in Kind, NEW t \in TickId, ReadLatest(k, t)
  PROVE  IInv'
<1> DEFINE none == Successful(FetchType[k]) = {}
           starts == IF none THEN {InitialFromBlock(newestBlock[k], Window)}
                             ELSE {m + 1 : m \in FindLatestCheckpoint(FetchType[k])}
           plan(from) == {[from |-> r.from, to |-> r.to, cp |-> NoCheckpoint] :
                            r \in SplitIntoRanges(from, newestBlock[k], SplitValue)}
<1>1. PICK from \in starts :
        /\ Moves(k, t, IF plan(from) = {} THEN IdleTick ELSE Ticking("adding", {}, plan(from)))
        /\ windowStart' = IF none THEN [windowStart EXCEPT ![k] = Greater(@, from)]
                                  ELSE windowStart
  BY DEF ReadLatest
<1>2. newestBlock[k] \in 0..MaxBlock /\ \A c \in RowId : rows[c].to \in Int
  BY DEF IInv, TypeOK, RowRecord
<1>3. from \in Int
  BY <1>2, ConfigAssumption DEF InitialFromBlock, Greater, FindLatestCheckpoint, Successful
<1>4. \A r \in SplitIntoRanges(from, newestBlock[k], SplitValue) : r.from \in Int /\ r.to \in Int
  BY <1>2, <1>3, ConfigAssumption DEF SplitIntoRanges, LoopStarts, Lesser
<1>5. plan(from) \in SUBSET Task /\ \A r \in plan(from) : r.cp = NoCheckpoint
  BY <1>4 DEF Task
<1>6. windowStart' \in [Kind -> Int]
  BY <1>1, <1>3 DEF IInv, TypeOK, Greater
<1> HIDE DEF none, starts, plan
<1>7. newestBlock' \in [Kind -> 0..MaxBlock] /\ booted' \in [Kind -> BOOLEAN]
      /\ UNCHANGED <<head, tables, rows, queue, faults, hits, abandoned>>
  BY DEF ReadLatest, IInv, TypeOK, fields
<1>8. CASE plan(from) = {}
  <2>1. PICK tick \in TickRecord : tick = IdleTick /\ TickTyped(k, tick)
    BY IdleTickType
  <2>2. Moves(k, t, tick)
    BY <1>1, <1>8, <2>1
  <2>3. QED
    BY <1>6, <1>7, <2>1, <2>2, TickOnlyInv
<1>9. CASE plan(from) # {}
  <2>1. PICK tick \in TickRecord :
          /\ tick = Ticking("adding", {}, plan(from))
          /\ tick.pc = "adding" /\ tick.probe = {} /\ tick.todo = plan(from)
    BY <1>5, TickingType
  <2>2. TickTyped(k, tick)
    BY <1>5, <2>1 DEF TickTyped
  <2>3. Moves(k, t, tick)
    BY <1>1, <1>9, <2>1
  <2>4. QED
    BY <1>6, <1>7, <2>2, <2>3, TickOnlyInv
<1>10. QED
  BY <1>8, <1>9

(* An entry added for a planned range is of the kind the range was planned for. *)
LEMMA AddInv ==
  ASSUME IInv, NEW k \in Kind, NEW t \in TickId, NEW r \in Task,
         NEW type \in {FetchType[k], RefreshType[k]},
         type = FetchType[k] => r.cp = NoCheckpoint,
         type = RefreshType[k] => OwnsItsRow(k, r.cp),
         NEW tick \in TickRecord, TickTyped(k, tick), Add(k, t, type, r, tick)
  PROVE  IInv'
<1>1. PICK j \in FreeSlots : Becomes(j, Entry(type, r, 0))
  BY DEF Add
<1>2. Moves(k, t, tick) /\ UNCHANGED <<head, tables, fields, rows, history>>
  BY DEF Add
<1>3. RowsKeepTypes
  BY <1>2, RowsIdle
<1>4. type \in QueryTypes
  BY TypesDistinct
<1>5. r.from \in Int /\ r.to \in Int /\ r.cp \in RowId \cup {NoCheckpoint}
  BY DEF Task
<1>6. PICK e \in EntryRecord :
        /\ e = Entry(type, r, 0)
        /\ e.state = "waiting" /\ e.type = type /\ e.cp = r.cp /\ e.left = {}
  BY <1>4, <1>5, EntryType
<1>7. EntryTyped(e)
  BY <1>6, TypesDistinct DEF EntryTyped
<1>8. j \in JobId /\ Becomes(j, e) /\ EntryTyped(e)'
  BY <1>1, <1>3, <1>6, <1>7, EntryKept DEF FreeSlots
<1>9. queue' \in [JobId -> EntryRecord] /\ EntriesTyped'
  BY <1>3, <1>8, QueueStep
<1>10. TickTyped(k, tick)'
  BY <1>3, TickKept
<1>11. ticks' \in [Kind -> [TickId -> TickRecord]] /\ TicksTyped'
  BY <1>2, <1>3, <1>10, TickStep
<1>12. HitsCounted'
  <2>1. \A l \in Kind : Failing(l)' \subseteq Failing(l) \ {j}
    BY <1>6, <1>8, NoneFails
  <2>2. QED
    BY <1>2, <2>1, HitsIdle DEF history
<1>13. TypeOK'
  BY <1>2, <1>9, <1>11 DEF IInv, TypeOK, fields, history
<1>14. QED
  BY <1>9, <1>11, <1>12, <1>13 DEF IInv

(* A refetch of a row of the kind is queued under the kind's refresh type. *)
LEMMA AddRefetchInv ==
  ASSUME IInv, NEW k \in Kind, NEW t \in TickId, AddRefetch(k, t)
  PROVE  IInv'
<1> DEFINE todo == ticks[k][t].todo
<1>1. PICK r \in todo : Add(k, t, RefreshType[k], r, Ticking("refetching", {}, todo \ {r}))
  BY DEF AddRefetch
<1>2. ticks[k][t].pc = "refetching"
  BY DEF AddRefetch
<1>3. todo \in SUBSET Task /\ \A q \in todo : OwnsItsRow(k, q.cp)
  BY <1>2 DEF IInv, TypeOK, TickRecord, TicksTyped, TickTyped
<1>4. PICK tick \in TickRecord :
        /\ tick = Ticking("refetching", {}, todo \ {r})
        /\ tick.pc = "refetching" /\ tick.probe = {} /\ tick.todo = todo \ {r}
  BY <1>3, TickingType
<1>5. TickTyped(k, tick)
  BY <1>3, <1>4 DEF TickTyped
<1>6. r \in Task /\ OwnsItsRow(k, r.cp) /\ Add(k, t, RefreshType[k], r, tick)
  BY <1>1, <1>3, <1>4
<1>7. RefreshType[k] # FetchType[k]
  BY TypesDistinct
<1>8. QED
  BY <1>5, <1>6, <1>7, AddInv

(* A planned fetch is queued under the kind's fetch type. *)
LEMMA AddFetchInv ==
  ASSUME IInv, NEW k \in Kind, NEW t \in TickId, AddFetch(k, t)
  PROVE  IInv'
<1> DEFINE todo == ticks[k][t].todo
           after(r) == IF todo = {r} THEN IdleTick ELSE Ticking("adding", {}, todo \ {r})
<1>1. PICK r \in todo : Add(k, t, FetchType[k], r, after(r))
  BY DEF AddFetch
<1>2. ticks[k][t].pc = "adding"
  BY DEF AddFetch
<1>3. todo \in SUBSET Task /\ \A q \in todo : q.cp = NoCheckpoint
  BY <1>2 DEF IInv, TypeOK, TickRecord, TicksTyped, TickTyped
<1>4. PICK tick \in TickRecord : tick = after(r) /\ TickTyped(k, tick)
  <2>1. CASE todo = {r}
    BY <2>1, IdleTickType
  <2>2. CASE todo # {r}
    <3>1. PICK tick \in TickRecord :
            /\ tick = Ticking("adding", {}, todo \ {r})
            /\ tick.pc = "adding" /\ tick.probe = {} /\ tick.todo = todo \ {r}
      BY <1>3, TickingType
    <3>2. TickTyped(k, tick)
      BY <1>3, <3>1 DEF TickTyped
    <3>3. tick = after(r)
      BY <2>2, <3>1
    <3>4. QED
      BY <3>2, <3>3
  <2>3. QED
    BY <2>1, <2>2
<1> HIDE DEF after
<1>5. r \in Task /\ r.cp = NoCheckpoint /\ Add(k, t, FetchType[k], r, tick)
  BY <1>1, <1>3, <1>4
<1>6. RefreshType[k] # FetchType[k]
  BY TypesDistinct
<1>7. QED
  BY <1>4, <1>5, <1>6, AddInv

(* A step of a job of kind k that leaves every row its type. *)
LEMMA JobInv ==
  ASSUME IInv, NEW k \in Kind, NEW j \in JobId, NEW e \in EntryRecord, Becomes(j, e),
         EntryTyped(e), RowsKeepTypes, UNCHANGED <<head, fields, ticks, windowStart>>,
         rows' \in [RowId -> RowRecord], tables' \in [Kind -> [TxHash -> Nat]],
         \A l \in Kind, x \in TxHash : tables'[l][x] <= NumEvents[l],
         abandoned' \in [Kind -> SUBSET [from : Int, to : Int]],
         faults' \in 0..MaxFaults, hits' \in [Kind -> Nat], HitsCounted'
  PROVE  IInv'
<1>1. EntryTyped(e)'
  BY EntryKept
<1>2. queue' \in [JobId -> EntryRecord] /\ EntriesTyped'
  BY <1>1, QueueStep
<1>3. ticks' \in [Kind -> [TickId -> TickRecord]] /\ TicksTyped'
  BY TicksIdle
<1>4. TypeOK'
  BY <1>2, <1>3 DEF IInv, TypeOK, fields
<1>5. QED
  BY <1>2, <1>3, <1>4 DEF IInv

(* An entry that keeps its type and checkpoint, and writes events of its kind. *)
LEMMA StillTyped ==
  ASSUME IInv, NEW k \in Kind, NEW j \in JobId, Serves(k, j), NEW e \in EntryRecord,
         e.state # "free", e.type = queue[j].type, e.cp = queue[j].cp,
         e.left \subseteq 1..NumEvents[k]
  PROVE  EntryTyped(e)
<1>1. EntryTyped(queue[j]) /\ Mine(k, queue[j])
  BY JobFields DEF IInv, EntriesTyped
<1>2. \A l \in Kind : Mine(l, e) => l = k
  BY <1>1, TypesDistinct DEF Mine
<1>3. e.type # NoType
  BY <1>1, TypesDistinct DEF Mine
<1>4. QED
  BY <1>1, <1>2, <1>3 DEF EntryTyped

(* The logs read are events of the kind. *)
LEMMA FetchLogsInv ==
  ASSUME IInv, NEW k \in Kind, NEW j \in JobId, FetchLogs(k, j)
  PROVE  IInv'
<1>1. /\ Serves(k, j) /\ Becomes(j, With(j, "writing", Logs(k, queue[j])))
      /\ UNCHANGED <<head, tables, fields, ticks, rows, history>>
  BY DEF FetchLogs
<1>2. Logs(k, queue[j]) \subseteq 1..NumEvents[k] /\ Logs(k, queue[j]) \in SUBSET Nat
  BY EventAssumption DEF Logs
<1>3. PICK e \in EntryRecord :
        /\ e = With(j, "writing", Logs(k, queue[j]))
        /\ e.state = "writing" /\ e.left = Logs(k, queue[j])
        /\ e.type = queue[j].type /\ e.cp = queue[j].cp
  BY <1>2, WithType DEF EntryState
<1>4. EntryTyped(e)
  BY <1>1, <1>2, <1>3, StillTyped
<1>5. Becomes(j, e) /\ RowsKeepTypes
  BY <1>1, <1>3, RowsIdle
<1>6. HitsCounted'
  <2>1. \A l \in Kind : Failing(l)' \subseteq Failing(l) \ {j}
    BY <1>3, <1>5, NoneFails
  <2>2. QED
    BY <1>1, <2>1, HitsIdle DEF history
<1>7. QED
  BY <1>1, <1>4, <1>5, <1>6, JobInv DEF IInv, TypeOK, history

(* The event written is one of the kind. *)
LEMMA WriteEventInv ==
  ASSUME IInv, NEW k \in Kind, NEW j \in JobId, WriteEvent(k, j)
  PROVE  IInv'
<1>1. Serves(k, j) /\ UNCHANGED <<head, fields, ticks, rows, history>>
  BY DEF WriteEvent
<1>2. PICK v \in queue[j].left :
        /\ Becomes(j, With(j, "writing", queue[j].left \ {v}))
        /\ tables' = IF v \in Valid[k] THEN [tables EXCEPT ![k][Tx[k][v]] = v] ELSE tables
  BY DEF WriteEvent
<1>3. queue[j].left \subseteq 1..NumEvents[k]
  <2>1. Mine(k, queue[j]) /\ EntryTyped(queue[j])
    BY <1>1, JobFields DEF IInv, EntriesTyped
  <2>2. QED
    BY <2>1 DEF EntryTyped
<1>4. queue[j].left \ {v} \in SUBSET Nat /\ NumEvents[k] \in Nat
  BY <1>3, EventAssumption
<1>5. PICK e \in EntryRecord :
        /\ e = With(j, "writing", queue[j].left \ {v})
        /\ e.state = "writing" /\ e.left = queue[j].left \ {v}
        /\ e.type = queue[j].type /\ e.cp = queue[j].cp
  BY <1>4, WithType DEF EntryState
<1>6. EntryTyped(e)
  BY <1>1, <1>3, <1>5, StillTyped
<1>7. Becomes(j, e) /\ RowsKeepTypes
  BY <1>1, <1>2, <1>5, RowsIdle
<1>8. tables' \in [Kind -> [TxHash -> Nat]]
      /\ \A l \in Kind, x \in TxHash : tables'[l][x] <= NumEvents[l]
  <2>1. v \in Nat /\ v <= NumEvents[k]
    BY <1>3, <1>4
  <2>2. tables \in [Kind -> [TxHash -> Nat]]
        /\ \A l \in Kind, x \in TxHash : tables[l][x] <= NumEvents[l]
    BY DEF IInv, TypeOK
  <2>3. QED
    BY <1>2, <2>1, <2>2
<1>9. HitsCounted'
  <2>1. \A l \in Kind : Failing(l)' \subseteq Failing(l) \ {j}
    BY <1>5, <1>7, NoneFails
  <2>2. QED
    BY <1>1, <2>1, HitsIdle DEF history
<1>10. QED
  BY <1>1, <1>6, <1>7, <1>8, <1>9, JobInv DEF IInv, TypeOK, history

(* An inserted row is the first of its slot. *)
LEMMA InsertRowType ==
  ASSUME IInv, NEW k \in Kind, NEW j \in JobId, NEW failed \in BOOLEAN,
         InsertRow(FetchType[k], j, failed)
  PROVE  rows' \in [RowId -> RowRecord] /\ RowsKeepTypes
<1> DEFINE r == [queryType |-> FetchType[k], isFailed |-> failed,
                 from |-> queue[j].from, to |-> queue[j].to]
<1>1. PICK c \in RowId : rows[c] = NoRow /\ rows' = [rows EXCEPT ![c] = r]
  BY DEF InsertRow
<1>2. queue[j].from \in Int /\ queue[j].to \in Int
  BY DEF IInv, TypeOK, EntryRecord
<1>3. r \in RowRecord
  BY <1>2, TypesDistinct DEF RowRecord
<1> HIDE DEF r
<1>4. rows \in [RowId -> RowRecord]
  BY DEF IInv, TypeOK
<1>5. rows' \in [RowId -> RowRecord]
  BY <1>1, <1>3, <1>4
<1>6. rows[c].queryType = NoType
  BY <1>1 DEF NoRow
<1>7. RowsKeepTypes
  BY <1>1, <1>4, <1>6 DEF RowsKeepTypes
<1>8. QED
  BY <1>5, <1>7

(* A job that ends, with at most a row to show for it. *)
LEMMA JobGoneInv ==
  ASSUME IInv, NEW k \in Kind, NEW j \in JobId, Becomes(j, NoEntry), RowsKeepTypes,
         rows' \in [RowId -> RowRecord], UNCHANGED <<head, tables, fields, ticks, history>>
  PROVE  IInv'
<1>1. PICK e \in EntryRecord : e = NoEntry /\ e.state = "free" /\ EntryTyped(e)
  BY NoEntryType
<1>2. Becomes(j, e)
  BY <1>1
<1>3. HitsCounted'
  <2>1. \A l \in Kind : Failing(l)' \subseteq Failing(l) \ {j}
    BY <1>1, <1>2, NoneFails
  <2>2. QED
    BY <2>1, HitsIdle DEF history
<1>4. QED
  BY <1>1, <1>2, <1>3, JobInv DEF IInv, TypeOK, history

(* A successful row takes a free slot. *)
LEMMA SaveCheckpointInv ==
  ASSUME IInv, NEW k \in Kind, NEW j \in JobId, SaveCheckpoint(k, j)
  PROVE  IInv'
<1>1. rows' \in [RowId -> RowRecord] /\ RowsKeepTypes
  BY InsertRowType DEF SaveCheckpoint
<1>2. QED
  BY <1>1, JobGoneInv DEF SaveCheckpoint

(* So does a failed one. *)
LEMMA SaveFailedCheckpointInv ==
  ASSUME IInv, NEW k \in Kind, NEW j \in JobId, SaveFailedCheckpoint(k, j)
  PROVE  IInv'
<1>1. rows' \in [RowId -> RowRecord] /\ RowsKeepTypes
  BY InsertRowType DEF SaveFailedCheckpoint
<1>2. QED
  BY <1>1, JobGoneInv DEF SaveFailedCheckpoint

(* Clearing a row leaves it its type. *)
LEMMA ClearFailedInv ==
  ASSUME IInv, NEW k \in Kind, NEW j \in JobId, ClearFailed(k, j)
  PROVE  IInv'
<1> DEFINE c == queue[j].cp
<1>1. /\ Refreshes(k, j) /\ rows' = [rows EXCEPT ![c].isFailed = FALSE]
      /\ Becomes(j, NoEntry) /\ UNCHANGED <<head, tables, fields, ticks, history>>
  BY DEF ClearFailed
<1>2. c \in RowId
  BY <1>1 DEF IInv, EntriesTyped, EntryTyped, OwnsItsRow, Refreshes
<1> HIDE DEF c
<1>3. rows \in [RowId -> RowRecord]
  BY DEF IInv, TypeOK
<1>4. PICK r \in RowRecord : r = rows[c]
  BY <1>2, <1>3
<1>5. PICK n \in RowRecord : n = [r EXCEPT !.isFailed = FALSE]
  BY DEF RowRecord
<1>6. n.queryType = r.queryType
  BY <1>5 DEF RowRecord
<1>7. rows' = [rows EXCEPT ![c] = n]
  BY <1>1, <1>4, <1>5
<1>8. rows' \in [RowId -> RowRecord] /\ RowsKeepTypes
  BY <1>3, <1>4, <1>6, <1>7 DEF RowsKeepTypes
<1>9. QED
  BY <1>1, <1>8, JobGoneInv

(* A fetch that throws is the one more job failing that the fault allows for. *)
LEMMA JobThrowsInv ==
  ASSUME IInv, NEW k \in Kind, NEW j \in JobId, JobThrows(k, j)
  PROVE  IInv'
<1>1. /\ Fault("job", {k}) /\ Serves(k, j)
      /\ Becomes(j, IF Fetches(k, j) THEN With(j, "failing", {}) ELSE NoEntry)
      /\ UNCHANGED <<head, tables, fields, ticks, rows, abandoned, windowStart>>
  BY DEF JobThrows
<1>2. PICK e \in EntryRecord : Becomes(j, e) /\ EntryTyped(e)
  <2>1. CASE Fetches(k, j)
    <3>1. PICK e \in EntryRecord :
            /\ e = With(j, "failing", {})
            /\ e.state = "failing" /\ e.left = {}
            /\ e.type = queue[j].type /\ e.cp = queue[j].cp
      BY WithType DEF EntryState
    <3>2. EntryTyped(e)
      BY <1>1, <3>1, StillTyped
    <3>3. Becomes(j, e)
      BY <1>1, <2>1, <3>1
    <3>4. QED
      BY <3>2, <3>3
  <2>2. CASE ~Fetches(k, j)
    BY <1>1, <2>2, NoEntryType
  <2>3. QED
    BY <2>1, <2>2
<1>3. HitsCounted' /\ faults' \in 0..MaxFaults /\ hits' \in [Kind -> Nat]
  <2>1. \A l \in Kind : Failing(l)' \subseteq Failing(l) \cup {j}
    BY <1>2, NoneFails
  <2>2. QED
    BY <1>1, <2>1, HitsFault
<1>4. RowsKeepTypes
  BY <1>1, RowsIdle
<1>5. QED
  BY <1>1, <1>2, <1>3, <1>4, JobInv DEF IInv, TypeOK

(* The ranges given up are ranges. *)
LEMMA OrphansType ==
  ASSUME IInv, NEW k \in Kind, NEW S \in SUBSET JobId
  PROVE  Orphans(k, S) \in SUBSET [from : Int, to : Int]
<1>1. \A j \in JobId : queue[j].from \in Int /\ queue[j].to \in Int
  BY DEF IInv, TypeOK, EntryRecord
<1>2. QED
  BY <1>1 DEF Orphans, Whole

(* A hit that is not a fault uses up the failing job it comes from. *)
LEMMA SaveFailedThrowsInv ==
  ASSUME IInv, NEW k \in Kind, NEW j \in JobId, SaveFailedThrows(k, j)
  PROVE  IInv'
<1>1. /\ Hit({k}) /\ Fetches(k, j) /\ queue[j].state = "failing" /\ Becomes(j, NoEntry)
      /\ abandoned' = [abandoned EXCEPT ![k] = @ \cup Orphans(k, {j})]
      /\ UNCHANGED <<head, tables, fields, ticks, rows, faults, windowStart>>
  BY DEF SaveFailedThrows
<1>2. PICK e \in EntryRecord : e = NoEntry /\ e.state = "free" /\ EntryTyped(e)
  BY NoEntryType
<1>3. Becomes(j, e)
  BY <1>1, <1>2
<1>4. \A l \in Kind : Failing(l)' \subseteq Failing(l) \ {j}
  BY <1>2, <1>3, NoneFails
<1>5. hits' \in [Kind -> Nat] /\ hits \in [Kind -> Nat]
      /\ \A l \in Kind : hits'[l] = hits[l] + IF l = k THEN 1 ELSE 0
  BY <1>1 DEF Hit, IInv, TypeOK
<1>6. ASSUME NEW l \in Kind PROVE hits'[l] + Cardinality(Failing(l)') <= 2 * faults'
  <2>1. IsFiniteSet(Failing(l))
    BY ConfigAssumption, FS_Subset DEF Failing
  <2>2. IsFiniteSet(Failing(l) \ {j}) /\ Cardinality(Failing(l)) \in Nat
    BY <2>1, FS_RemoveElement, FS_CardinalityType
  <2>3. Cardinality(Failing(l)') <= Cardinality(Failing(l) \ {j}) /\ IsFiniteSet(Failing(l)')
    BY <1>4, <2>2, FS_Subset
  <2>4. Cardinality(Failing(l) \ {j}) =
          IF j \in Failing(l) THEN Cardinality(Failing(l)) - 1 ELSE Cardinality(Failing(l))
    BY <2>1, FS_RemoveElement
  <2>5. l = k => j \in Failing(l)
    BY <1>1 DEF Failing
  <2>6. Cardinality(Failing(l)') \in Nat
    BY <2>3, FS_CardinalityType
  <2>7. hits[l] \in Nat /\ faults \in Nat /\ faults' = faults
        /\ hits[l] + Cardinality(Failing(l)) <= 2 * faults
    BY <1>1, ConfigAssumption DEF IInv, TypeOK, HitsCounted
  <2>8. hits'[l] = hits[l] + IF l = k THEN 1 ELSE 0
    BY <1>5
  <2>9. QED
    BY <2>2, <2>3, <2>4, <2>5, <2>6, <2>7, <2>8
<1>7. HitsCounted'
  BY <1>6 DEF HitsCounted
<1>8. RowsKeepTypes
  BY <1>1, RowsIdle
<1>9. Orphans(k, {j}) \in SUBSET [from : Int, to : Int]
  BY OrphansType
<1>10. abandoned' \in [Kind -> SUBSET [from : Int, to : Int]]
  BY <1>1, <1>9 DEF IInv, TypeOK
<1>11. QED
  BY <1>1, <1>2, <1>3, <1>5, <1>7, <1>8, <1>10, JobInv DEF IInv, TypeOK

(* A redelivered entry is of the same type, and waits. *)
LEMMA RedeliveredType ==
  ASSUME IInv, NEW k \in Kind, NEW j \in JobId, Serves(k, j)
  PROVE  \E e \in EntryRecord : e = Redelivered(j) /\ e.state = "waiting" /\ EntryTyped(e)
<1>1. /\ queue[j].type \in QueryTypes /\ queue[j].from \in Int /\ queue[j].to \in Int
      /\ queue[j].cp \in RowId \cup {NoCheckpoint} /\ queue[j].stalls + 1 \in Nat
  <2>1. queue[j] \in EntryRecord
    BY JobFields
  <2>2. queue[j].type \in QueryTypes
    BY TypesDistinct DEF Serves, Fetches, Refreshes
  <2>3. QED
    BY <2>1, <2>2 DEF EntryRecord
<1>2. PICK e \in EntryRecord :
        /\ e = Redelivered(j)
        /\ e.state = "waiting" /\ e.type = queue[j].type /\ e.cp = queue[j].cp /\ e.left = {}
  BY <1>1, EntryType DEF Redelivered
<1>3. EntryTyped(e)
  BY <1>2, StillTyped
<1>4. QED
  BY <1>2, <1>3

(* A redelivered entry is of the kind that stalled. *)
LEMMA StallInv ==
  ASSUME IInv, NEW k \in Kind, NEW j \in JobId, Stall(k, j)
  PROVE  IInv'
<1>1. /\ Fault("stall", {k}) /\ Serves(k, j) /\ j \in Running
      /\ UNCHANGED <<head, tables, fields, ticks, rows, windowStart>>
  BY DEF Stall
<1>2. RowsKeepTypes
  BY <1>1, RowsIdle
<1>3. EntryTyped(queue[j]) /\ Mine(k, queue[j]) /\ queue[j] \in EntryRecord
  BY <1>1, JobFields DEF IInv, EntriesTyped
<1>4. PICK u \in EntryRecord :
        /\ u = Unlocked(j)
        /\ u.state = queue[j].state /\ u.type = queue[j].type /\ u.cp = queue[j].cp
        /\ u.left = queue[j].left
  BY <1>1, SameUnlocked
<1>5. EntryTyped(u)
  <2>1. u.left \subseteq 1..NumEvents[k] /\ u.state # "free"
    BY <1>1, <1>3, <1>4 DEF EntryTyped, Running
  <2>2. QED
    BY <1>1, <1>4, <2>1, StillTyped
<1>6. CASE GivesUp(j)
  <2>1. Becomes(j, u) /\ abandoned' = [abandoned EXCEPT ![k] = @ \cup Orphans(k, {j})]
    BY <1>4, <1>6 DEF Stall
  <2>2. HitsCounted' /\ faults' \in 0..MaxFaults /\ hits' \in [Kind -> Nat]
    <3>1. \A l \in Kind : Failing(l)' \subseteq Failing(l) \cup {j}
      BY <2>1, NoneFails
    <3>2. QED
      BY <1>1, <3>1, HitsFault
  <2>3. Orphans(k, {j}) \in SUBSET [from : Int, to : Int]
    BY OrphansType
  <2>4. abandoned' \in [Kind -> SUBSET [from : Int, to : Int]]
    BY <2>1, <2>3 DEF IInv, TypeOK
  <2>5. QED
    BY <1>1, <1>2, <1>5, <2>1, <2>2, <2>4, JobInv DEF IInv, TypeOK
<1>7. CASE ~GivesUp(j)
  <2>1. PICK i \in FreeSlots : queue' = [queue EXCEPT ![j] = Unlocked(j), ![i] = Redelivered(j)]
    BY <1>7 DEF Stall
  <2>2. UNCHANGED abandoned
    BY <1>7 DEF Stall
  <2>3. PICK r \in EntryRecord : r = Redelivered(j) /\ r.state = "waiting" /\ EntryTyped(r)
    BY <1>1, RedeliveredType
  <2>4. queue' = [queue EXCEPT ![j] = u, ![i] = r]
    BY <1>4, <2>1, <2>3
  <2>5. queue \in [JobId -> EntryRecord] /\ i \in JobId
    BY DEF IInv, TypeOK, FreeSlots
  <2>6. queue' \in [JobId -> EntryRecord]
    BY <2>4, <2>5
  <2>7. EntriesTyped'
    <3>1. ASSUME NEW x \in JobId PROVE EntryTyped(queue[x])'
      <4>1. PICK q \in EntryRecord : q = queue'[x] /\ (q = u \/ q = r \/ q = queue[x])
        BY <2>4, <2>5, <2>6
      <4>2. EntryTyped(q)
        BY <1>5, <2>3, <4>1 DEF IInv, EntriesTyped
      <4>3. EntryTyped(q)'
        BY <1>2, <4>2, EntryKept
      <4>4. QED
        BY <4>1, <4>3
    <3>2. QED
      BY <3>1 DEF EntriesTyped
  <2>8. HitsCounted' /\ faults' \in 0..MaxFaults /\ hits' \in [Kind -> Nat]
    <3>1. \A l \in Kind : Failing(l)' \subseteq Failing(l) \cup {j}
      BY <2>3, <2>4, <2>5 DEF Failing, Fetches
    <3>2. QED
      BY <1>1, <3>1, HitsFault
  <2>9. ticks' \in [Kind -> [TickId -> TickRecord]] /\ TicksTyped'
    BY <1>1, <1>2, TicksIdle
  <2>10. TypeOK'
    BY <1>1, <2>2, <2>6, <2>8, <2>9 DEF IInv, TypeOK, fields
  <2>11. QED
    BY <2>7, <2>8, <2>9, <2>10 DEF IInv
<1>8. QED
  BY <1>6, <1>7

(* A crash hits every kind once and leaves no job failing. *)
LEMMA CrashInv == ASSUME IInv, Crash PROVE IInv'
<1> DEFINE Lost == {j \in Running : ~queue[j].locked \/ GivesUp(j)}
           left(j) == IF j \notin Running THEN queue[j]
                      ELSE IF j \in Lost THEN NoEntry ELSE Redelivered(j)
<1>1. /\ Fault("crash", Kind)
      /\ ticks' = [l \in Kind |-> [t \in TickId |-> IdleTick]]
      /\ newestBlock' = [l \in Kind |-> 0] /\ booted' = [l \in Kind |-> FALSE]
      /\ queue' = [j \in JobId |-> left(j)]
      /\ abandoned' = [l \in Kind |-> abandoned[l] \cup Orphans(l, Lost)]
      /\ UNCHANGED <<head, tables, rows, windowStart>>
  BY DEF Crash
<1>2. RowsKeepTypes
  BY <1>1, RowsIdle
<1>3. ASSUME NEW j \in JobId
      PROVE  \E e \in EntryRecord : e = left(j) /\ e.state # "failing" /\ EntryTyped(e)
  <2>1. queue[j] \in EntryRecord /\ EntryTyped(queue[j])
    BY DEF IInv, TypeOK, EntriesTyped
  <2>2. CASE j \notin Running
    BY <2>1, <2>2 DEF Running
  <2>3. CASE j \in Lost
    BY <2>3, NoEntryType
  <2>4. CASE j \in Running /\ j \notin Lost
    <3>1. queue[j].type \in QueryTypes
      BY <2>1, <2>4 DEF EntryTyped, Running, EntryRecord
    <3>2. \E k \in Kind : Serves(k, j)
      BY <3>1 DEF Serves, Fetches, Refreshes, QueryTypes, FetchTypes
    <3>3. QED
      BY <2>4, <3>2, RedeliveredType
  <2>5. QED
    BY <2>2, <2>3, <2>4
<1>4. queue' \in [JobId -> EntryRecord] /\ EntriesTyped'
  <2>1. ASSUME NEW j \in JobId PROVE queue'[j] \in EntryRecord /\ EntryTyped(queue[j])'
    <3>1. PICK e \in EntryRecord : e = queue'[j] /\ EntryTyped(e)
      BY <1>1, <1>3
    <3>2. EntryTyped(e)'
      BY <1>2, <3>1, EntryKept
    <3>3. QED
      BY <3>1, <3>2
  <2>2. QED
    BY <1>1, <2>1 DEF EntriesTyped
<1>5. \A j \in JobId : queue'[j].state # "failing"
  BY <1>1, <1>3
<1>6. HitsCounted' /\ faults' \in 0..MaxFaults /\ hits' \in [Kind -> Nat]
  <2>1. \A l \in Kind : Failing(l)' = {}
    BY <1>5 DEF Failing
  <2>2. faults \in Nat /\ faults' = faults + 1 /\ faults < MaxFaults /\ hits \in [Kind -> Nat]
        /\ hits' = [k \in Kind |-> hits[k] + 1]
    BY <1>1, ConfigAssumption DEF Fault, Hit, IInv, TypeOK
  <2>3. ASSUME NEW l \in Kind PROVE hits'[l] + Cardinality(Failing(l)') <= 2 * faults'
    <3>1. IsFiniteSet(Failing(l))
      BY ConfigAssumption, FS_Subset DEF Failing
    <3>2. Cardinality(Failing(l)) \in Nat /\ hits[l] + Cardinality(Failing(l)) <= 2 * faults
      BY <3>1, FS_CardinalityType DEF IInv, HitsCounted
    <3>3. Cardinality(Failing(l)') = 0
      BY <2>1, FS_EmptySet
    <3>4. QED
      BY <2>2, <3>2, <3>3
  <2>4. QED
    BY <2>2, <2>3, ConfigAssumption DEF HitsCounted
<1>7. abandoned' \in [Kind -> SUBSET [from : Int, to : Int]]
  <2>1. Lost \in SUBSET JobId
    BY DEF Running
  <2>2. \A l \in Kind : Orphans(l, Lost) \in SUBSET [from : Int, to : Int]
    BY <2>1, OrphansType
  <2>3. QED
    BY <1>1, <2>2 DEF IInv, TypeOK
<1>8. ticks' \in [Kind -> [TickId -> TickRecord]] /\ TicksTyped'
  <2>1. PICK tick \in TickRecord : tick = IdleTick /\ \A k \in Kind : TickTyped(k, tick)'
    BY IdleTickType
  <2>2. ASSUME NEW k \in Kind, NEW t \in TickId PROVE TickTyped(k, ticks[k][t])'
    <3>1. ticks'[k][t] = tick
      BY <1>1, <2>1
    <3>2. QED
      BY <2>1, <3>1
  <2>3. QED
    BY <1>1, <2>1, <2>2 DEF TicksTyped
<1>9. newestBlock' \in [Kind -> 0..MaxBlock] /\ booted' \in [Kind -> BOOLEAN]
  BY <1>1, ConfigAssumption
<1> HIDE DEF Lost, left
<1>10. TypeOK'
  BY <1>1, <1>4, <1>6, <1>7, <1>8, <1>9 DEF IInv, TypeOK
<1>11. QED
  BY <1>4, <1>6, <1>8, <1>10 DEF IInv

(* A tick that throws leaves the queue alone, or crashes the process. *)
LEMMA TickThrowsInv ==
  ASSUME IInv, NEW k \in Kind, NEW t \in TickId, TickThrows(k, t)
  PROVE  IInv'
<1>1. CASE Mode = "CRAWL"
  BY <1>1, CrashInv DEF TickThrows
<1>2. CASE Mode # "CRAWL"
  <2>1. /\ Fault("tick", {k}) /\ Moves(k, t, IdleTick)
        /\ UNCHANGED <<head, tables, fields, rows, queue, abandoned, windowStart>>
    BY <1>2 DEF TickThrows
  <2>2. RowsKeepTypes
    BY <2>1, RowsIdle
  <2>3. PICK tick \in TickRecord : tick = IdleTick /\ TickTyped(k, tick)'
    BY IdleTickType
  <2>4. Moves(k, t, tick)
    BY <2>1, <2>3
  <2>5. ticks' \in [Kind -> [TickId -> TickRecord]] /\ TicksTyped'
    BY <2>2, <2>3, <2>4, TickStep
  <2>6. EntriesTyped'
    BY <2>1, <2>2, QueueIdle
  <2>7. HitsCounted' /\ faults' \in 0..MaxFaults /\ hits' \in [Kind -> Nat]
    <3>1. \A l \in Kind : Failing(l)' = Failing(l)
      BY <2>1 DEF Failing, Fetches
    <3>2. faults < MaxFaults /\ faults' = faults + 1 /\ faults \in Nat
          /\ hits' = [l \in Kind |-> hits[l] + IF l \in {k} THEN 1 ELSE 0]
          /\ hits \in [Kind -> Nat]
      BY <2>1, ConfigAssumption DEF Fault, Hit, IInv, TypeOK
    <3>3. ASSUME NEW l \in Kind PROVE hits'[l] + Cardinality(Failing(l)') <= 2 * faults'
      <4>1. IsFiniteSet(Failing(l))
        BY ConfigAssumption, FS_Subset DEF Failing
      <4>2. Cardinality(Failing(l)) \in Nat /\ hits[l] + Cardinality(Failing(l)) <= 2 * faults
        BY <4>1, FS_CardinalityType DEF IInv, HitsCounted
      <4>3. Cardinality(Failing(l)') = Cardinality(Failing(l))
        BY <3>1
      <4>4. hits'[l] <= hits[l] + 1 /\ hits'[l] \in Nat /\ hits[l] \in Nat
        BY <3>2
      <4>5. QED
        BY <3>2, <4>2, <4>3, <4>4
    <3>4. QED
      BY <3>2, <3>3, ConfigAssumption DEF HitsCounted
  <2>8. TypeOK'
    BY <2>1, <2>5, <2>7 DEF IInv, TypeOK, fields
  <2>9. QED
    BY <2>5, <2>6, <2>7, <2>8 DEF IInv
<1>3. QED
  BY <1>1, <1>2

(* The chain grows up to its bound. *)
LEMMA GrowInv == ASSUME IInv, Grow PROVE IInv'
<1>1. /\ head < MaxBlock /\ head' = head + 1
      /\ UNCHANGED <<tables, fields, ticks, rows, queue, history>>
  BY DEF Grow
<1>2. RowsKeepTypes
  BY <1>1, RowsIdle
<1>3. ticks' \in [Kind -> [TickId -> TickRecord]] /\ TicksTyped'
  BY <1>1, <1>2, TicksIdle
<1>4. EntriesTyped'
  BY <1>1, <1>2, QueueIdle
<1>5. HitsCounted'
  <2>1. \A l \in Kind : Failing(l)' \subseteq Failing(l)
    BY <1>1 DEF Failing, Fetches
  <2>2. QED
    BY <1>1, <2>1, HitsIdle DEF history
<1>6. head' \in 0..MaxBlock
  BY <1>1, ConfigAssumption DEF IInv, TypeOK
<1>7. TypeOK'
  BY <1>1, <1>3, <1>6 DEF IInv, TypeOK, fields, history
<1>8. QED
  BY <1>3, <1>4, <1>5, <1>7 DEF IInv

(* Nothing changes. *)
LEMMA StutterInv == ASSUME IInv, UNCHANGED vars PROVE IInv'
<1>1. UNCHANGED <<head, tables, fields, ticks, rows, queue, history>>
  BY DEF vars, fields, history
<1>2. RowsKeepTypes
  BY <1>1, RowsIdle
<1>3. ticks' \in [Kind -> [TickId -> TickRecord]] /\ TicksTyped'
  BY <1>1, <1>2, TicksIdle
<1>4. EntriesTyped'
  BY <1>1, <1>2, QueueIdle
<1>5. HitsCounted'
  <2>1. \A l \in Kind : Failing(l)' \subseteq Failing(l)
    BY <1>1 DEF Failing, Fetches
  <2>2. QED
    BY <1>1, <2>1, HitsIdle DEF history
<1>6. TypeOK'
  BY <1>1, <1>3 DEF IInv, TypeOK, fields, history
<1>7. QED
  BY <1>3, <1>4, <1>5, <1>6 DEF IInv

(* The initial states have nothing in the table, the queue or the ticks. *)
LEMMA InitInv == Init => IInv
<1> SUFFICES ASSUME Init PROVE IInv
  OBVIOUS
<1>1. IdleTick \in TickRecord /\ \A k \in Kind : TickTyped(k, IdleTick)
  BY IdleTickType
<1>2. NoEntry \in EntryRecord /\ NoEntry.state = "free" /\ EntryTyped(NoEntry)
  BY NoEntryType
<1>3. NoRow \in RowRecord
  BY DEF NoRow, RowRecord
<1>4. \A k \in Kind : NumEvents[k] \in Nat
  BY EventAssumption
<1>5. TypeOK
  BY <1>1, <1>2, <1>3, <1>4, ConfigAssumption DEF Init, TypeOK
<1>6. EntriesTyped
  BY <1>2 DEF Init, EntriesTyped
<1>7. TicksTyped
  BY <1>1 DEF Init, TicksTyped
<1>8. HitsCounted
  <2>1. \A k \in Kind : Failing(k) = {}
    BY <1>2 DEF Init, Failing
  <2>2. \A k \in Kind : Cardinality(Failing(k)) = 0
    BY <2>1, FS_EmptySet
  <2>3. faults = 0 /\ \A k \in Kind : hits[k] = 0
    BY DEF Init
  <2>4. QED
    BY <2>2, <2>3 DEF HitsCounted
<1>9. QED
  BY <1>5, <1>6, <1>7, <1>8 DEF IInv

(* The steps of one service's tick, and of one of its jobs. *)
TickStepOf(k, t) ==
  \/ StartTick(k, t) \/ ProbeFailed(k, t) \/ AddRefetch(k, t)
  \/ ReadHead(k, t) \/ ReadLatest(k, t) \/ AddFetch(k, t)
JobStepOf(k, j) ==
  \/ FetchLogs(k, j) \/ WriteEvent(k, j) \/ SaveCheckpoint(k, j) \/ ClearFailed(k, j)
  \/ JobThrows(k, j) \/ SaveFailedCheckpoint(k, j) \/ SaveFailedThrows(k, j) \/ Stall(k, j)

(* Every step of the three services is one of these. *)
LEMMA NextCases ==
  ASSUME Next
  PROVE  \/ Grow \/ Crash
         \/ \E k \in Kind, t \in TickId : TickStepOf(k, t) \/ TickThrows(k, t)
         \/ \E k \in Kind, j \in JobId : JobStepOf(k, j)
<1>1. "staking" \in Kind /\ "unstaking" \in Kind /\ "reward" \in Kind
  BY DEF Kind
<1>2. ASSUME NEW t \in TickId, StakingTick(t) \/ UnstakingTick(t) \/ RewardTick(t)
      PROVE  \E k \in Kind : TickStepOf(k, t) \/ TickThrows(k, t)
  BY <1>1, <1>2 DEF StakingTick, UnstakingTick, RewardTick, TickStepOf,
       UnstakingQueryBlocks, UnstakingFailedCheckpoints, UnstakingRanges,
       RewardQueryBlocks, RewardFailedCheckpoints, RewardRanges
<1>3. ASSUME NEW j \in JobId, StakingJob(j) \/ UnstakingJob(j) \/ RewardJob(j)
      PROVE  \E k \in Kind : JobStepOf(k, j)
  BY <1>1, <1>3 DEF StakingJob, UnstakingJob, RewardJob, JobStepOf, RangeQuery, FailedRangeQuery,
       UnstakingRangeQuery, UnstakingFailedRangeQuery, UnstakingEvents,
       RewardRangeQuery, RewardFailedRangeQuery, RewardEvents
<1>4. \A k \in Kind, j \in JobId : Stall(k, j) => JobStepOf(k, j)
  BY DEF JobStepOf
<1>5. QED
  BY <1>2, <1>3, <1>4 DEF Next

(* Every step keeps the invariant. *)
LEMMA NextInv == IInv /\ [Next]_vars => IInv'
<1> SUFFICES ASSUME IInv, [Next]_vars PROVE IInv'
  OBVIOUS
<1>1. CASE UNCHANGED vars
  BY <1>1, StutterInv
<1>2. CASE Grow
  BY <1>2, GrowInv
<1>3. CASE Crash
  BY <1>3, CrashInv
<1>4. ASSUME NEW k \in Kind, NEW t \in TickId, TickStepOf(k, t) \/ TickThrows(k, t)
      PROVE  IInv'
  BY <1>4, StartTickInv, ProbeFailedInv, AddRefetchInv, ReadHeadInv, ReadLatestInv,
     AddFetchInv, TickThrowsInv DEF TickStepOf
<1>5. ASSUME NEW k \in Kind, NEW j \in JobId, JobStepOf(k, j)
      PROVE  IInv'
  BY <1>5, FetchLogsInv, WriteEventInv, SaveCheckpointInv, ClearFailedInv, JobThrowsInv,
     SaveFailedCheckpointInv, SaveFailedThrowsInv, StallInv DEF JobStepOf
<1>6. QED
  BY <1>1, <1>2, <1>3, <1>4, <1>5, NextCases

(* Whatever the three services, their workers, their failures and their crashes do to
   the shared table and queue, the invariant holds. *)
THEOREM Invariance == Spec => []IInv
BY InitInv, NextInv, PTL DEF Spec

(* Every variable keeps its type. *)
THEOREM TypeCorrect == Spec => []TypeOK
<1>1. IInv => TypeOK
  BY DEF IInv
<1>2. QED
  BY <1>1, Invariance, PTL

(***************************************************************************)
(* The refinement                                                          *)
(***************************************************************************)
LEMMA InitRefines ==
  ASSUME Init, NEW k \in Kind
  PROVE  One(k)!Init
<1>1. JobsOf(k) = [j \in JobId |-> One(k)!FreeJob]
  BY NobodysJob DEF Init, JobsOf, JobOf, Untyped, NoEntry, One!FreeJob
<1>2. RowsOf(k) = [c \in RowId |-> [state |-> "none", from |-> 0, to |-> 0]]
  BY TypesDistinct DEF Init, RowsOf, RowOf, NoRow
<1>3. QED
  BY <1>1, <1>2 DEF Init, One!Init, IdleTick, Ticking, One!IdleTick, One!Ticking

(* A step of any service is a step of that service's RangeFetch and of no other. *)
LEMMA StepRefines ==
  ASSUME IInv, [Next]_vars, NEW l \in Kind
  PROVE  UNCHANGED One(l)!vars \/ One(l)!Next
<1>1. CASE UNCHANGED vars
  BY <1>1 DEF vars, One!vars, RowsOf, JobsOf
<1>2. CASE Grow
  BY <1>2, GrowStep DEF One!Next
<1>3. CASE Crash
  BY <1>3, CrashStep DEF One!Next
<1>4. ASSUME NEW k \in Kind, NEW t \in TickId, TickStepOf(k, t)
      PROVE  UNCHANGED One(l)!vars \/ One(l)!Next
  <2>1. /\ One(k)!StartTick(t) \/ One(k)!TickStep(t)
        /\ \A m \in Kind \ {k} : UNCHANGED One(m)!vars
    BY <1>4, StartTickStep, ProbeFailedStep, AddRefetchStep, ReadHeadStep, ReadLatestStep,
       AddFetchStep DEF TickStepOf, One!TickStep
  <2>2. QED
    BY <2>1 DEF One!Next
<1>5. ASSUME NEW k \in Kind, NEW t \in TickId, TickThrows(k, t)
      PROVE  UNCHANGED One(l)!vars \/ One(l)!Next
  BY <1>5, TickThrowsStep DEF One!Next
<1>6. ASSUME NEW k \in Kind, NEW j \in JobId, JobStepOf(k, j)
      PROVE  UNCHANGED One(l)!vars \/ One(l)!Next
  <2>1. /\ \/ One(k)!JobStep(j) \/ One(k)!JobThrows(j)
           \/ One(k)!SaveFailedThrows(j) \/ One(k)!Stall(j)
        /\ \A m \in Kind \ {k} : UNCHANGED One(m)!vars
    BY <1>6, FetchLogsStep, WriteEventStep, SaveCheckpointStep, ClearFailedStep, JobThrowsStep,
       SaveFailedCheckpointStep, SaveFailedThrowsStep, StallStep DEF JobStepOf, One!JobStep
  <2>2. QED
    BY <2>1 DEF One!Next
<1>7. QED
  BY <1>1, <1>2, <1>3, <1>4, <1>5, <1>6, NextCases

(* The assumptions of RangeFetch about its chain and its configuration hold of each
   kind, so each indexer is an instance that the theorems of RangeFetch are about. *)
LEMMA InstanceAssumptions ==
  ASSUME NEW k \in Kind
  PROVE  One(k)!EventAssumption /\ One(k)!ConfigAssumption
<1>1. One(k)!EventAssumption
  BY EventAssumption DEF One!EventAssumption, One!Event
<1>2. One(k)!ConfigAssumption
  BY ConfigAssumption DEF One!ConfigAssumption
<1>3. QED
  BY <1>1, <1>2

(* Each of the three indexers is a RangeFetch, whatever the other two do to the table,
   the queue and the workers it shares with them. *)
THEOREM Refinement == Spec => EachIsARangeFetch
<1>1. Init => \A k \in Kind : One(k)!Init
  BY InitRefines
<1>2. IInv /\ [Next]_vars => [\A k \in Kind : UNCHANGED One(k)!vars \/ One(k)!Next]_vars
  BY StepRefines
<1>3. QED
  BY <1>1, <1>2, Invariance, PTL DEF Spec, EachIsARangeFetch

(* The same in the usual form: the specification of RangeFetch itself. *)
THEOREM ImplementsRangeFetch ==
  ASSUME NEW k \in Kind
  PROVE  Spec => One(k)!Spec
<1>1. Init => One(k)!Init
  BY InitRefines
<1>2. IInv /\ [Next]_vars => [One(k)!Next]_(One(k)!vars)
  BY StepRefines
<1>3. QED
  BY <1>1, <1>2, Invariance, PTL DEF Spec, One!Spec
=============================================================================
