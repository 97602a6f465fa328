------------------------------ MODULE Analytics ------------------------------
(***************************************************************************)
(* The movement and total reports over the three event tables.  A report   *)
(* cuts its window on the server's local days, groups the rows by UTC date *)
(* in the database, and joins the two by a date string.                    *)
(*                                                                         *)
(* Time is in the smallest unit of a recorded event, which on the chain is *)
(* a second, so 23:59:59 is the last instant of a day.  The server's zone  *)
(* is a fixed distance from UTC: changes to summer time are left out.      *)
(***************************************************************************)
EXTENDS Integers, Sequences, FiniteSetsExt

CONSTANTS
  Day,     \* instants in a day
  Zone,    \* the distances of local time from UTC, in instants
  Days,    \* bound on the UTC days events happen on
  Amount,  \* the amounts of an event
  Tables   \* the contents of the table that are tried

(* 0:00:00 and 23:59:59 are two instants of one day. *)
ASSUME AnalyticsAssumption ==
  /\ Day \in Nat /\ Day > 1 /\ Days \in Nat /\ Amount \subseteq Nat
  /\ \A z \in Zone : z \in Int /\ -Day < z /\ z < Day

VARIABLES
  zone,           \* local time is UTC plus zone
  start, end,     \* what new Date(startDate), new Date(endDate) yield
  events,         \* the table queried
  report, day,    \* finalResult of generateCompleteDateRange, and its loop counter
  reporting       \* is the loop running?

movementVars == <<zone, start, end, events, report, day, reporting>>

Event == [time : 0..(Days * Day - 1), amount : Amount]

(* A table has finitely many rows. *)
ASSUME TablesAssumption ==
  Tables \subseteq SUBSET Event /\ \A rows \in Tables : IsFiniteSet(rows)

(***************************************************************************)
(* The window                                                              *)
(***************************************************************************)
LocalDay(t, z) == (t + z) \div Day
LocalMidnight(d, z) == d * Day - z

GetFromDate(t, z) == LocalMidnight(LocalDay(t, z), z)
GetToDate_Midnight(t, z) == LocalMidnight(LocalDay(t, z), z)
GetToDate(t, z) == LocalMidnight(LocalDay(t, z), z) + Day - 1   \* 23:59:59

(* Math.ceil((toDate - fromDate) / day); no entry when it is negative. *)
DaysDiff_Floor(from, to) == IF to < from THEN 0 ELSE (to - from) \div Day
DaysDiff(from, to) == IF to < from THEN 0 ELSE (to - from + Day - 1) \div Day

(***************************************************************************)
(* The queries                                                             *)
(***************************************************************************)
Within(rows, from, to) == {e \in rows : from <= e.time /\ e.time <= to}
SumOf(rows) == MapThenSumSet(LAMBDA e : e.amount, rows)

(* COALESCE(SUM(...), 0) over the rows of the window, for the dates asked *)
TotalStakeAmount(rows, s, e, z) ==
  SumOf(Within(rows, GetFromDate(s, z), GetToDate(e, z)))
TotalUnstakeAmount(rows, s, e, z) ==
  SumOf(Within(rows, GetFromDate(s, z), GetToDate(e, z)))

(* DATE(to_timestamp(...) AT TIME ZONE 'UTC') *)
UtcDate(t) == t \div Day

(* GROUP BY the UTC date: one row per date that has events in the window. *)
SumsByDate(rows, from, to) ==
  LET found == Within(rows, from, to)
  IN  {[date |-> d, amount |-> SumOf({e \in found : UtcDate(e.time) = d})] :
         d \in {UtcDate(e.time) : e \in found}}

(* The driver returns a DATE as the local midnight of that date. *)
DriverDate(d, z) == LocalMidnight(d, z)

(* toISOString().split('T')[0] *)
DateKey(t) == UtcDate(t)

(***************************************************************************)
(* generateCompleteDateRange                                               *)
(***************************************************************************)
(* The key under which a row of date d is stored is the key looked up for time t. *)
Keyed_UtcMidnight(d, z, t) == d = DateKey(t)
Keyed(d, z, t) == DateKey(DriverDate(d, z)) = DateKey(t)

(* amountByDate[dateKey] || '0' *)
AmountAt(sums, z, t) == SumOf({row \in sums : Keyed(row.date, z, t)})

(* setDate(getDate() + i): the same local time i days later. *)
LocalDaysLater(from, i) == from + i * Day

Entry(sums, from, z, i) ==
  [date |-> LocalDaysLater(from, i), amount |-> AmountAt(sums, z, LocalDaysLater(from, i))]

(* Array.from, in the reports of stakes and of request rewards *)
CompleteDateRange(sums, from, to, z) ==
  [i \in 1..DaysDiff(from, to) |-> Entry(sums, from, z, i - 1)]

StakingMovement(rows, s, e, z) ==
  LET from == GetFromDate(s, z)
      to == GetToDate(e, z)
  IN  CompleteDateRange(SumsByDate(rows, from, to), from, to, z)
TokenEmissionMovement(rows, s, e, z) ==
  LET from == GetFromDate(s, z)
      to == GetToDate(e, z)
  IN  CompleteDateRange(SumsByDate(rows, from, to), from, to, z)

(* The loop in the report of unstakes *)
fromDate == GetFromDate(start, zone)
toDate == GetToDate(end, zone)

MovementInit ==
  /\ zone \in Zone
  /\ start \in Day..((Days - 1) * Day - 1) /\ end \in Day..((Days - 1) * Day - 1)
  /\ events \in Tables
  /\ report = <<>> /\ day = 0 /\ reporting = TRUE

DayIteration ==
  /\ reporting /\ day < DaysDiff(fromDate, toDate)
  /\ report' =
       Append(report, Entry(SumsByDate(events, fromDate, toDate), fromDate, zone, day))
  /\ day' = day + 1
  /\ UNCHANGED <<zone, start, end, events, reporting>>

DaysEnd ==
  /\ reporting /\ day >= DaysDiff(fromDate, toDate)
  /\ reporting' = FALSE
  /\ UNCHANGED <<zone, start, end, events, report, day>>

MovementNext == DayIteration \/ DaysEnd

MovementSpec == MovementInit /\ [][MovementNext]_movementVars

(***************************************************************************)
(* Properties                                                              *)
(***************************************************************************)
Reported == SumOf({[date |-> i, amount |-> report[i].amount] : i \in DOMAIN report})

(* An event inside the window is missing from the movement exactly when its UTC date
   is not the date of a local day of the window: the first hours of the window when
   local time is ahead of UTC, the last ones when it is behind. *)
Unlisted(e) ==
  \/ e.time < LocalDay(start, zone) * Day
  \/ e.time >= (LocalDay(end, zone) + 1) * Day

(* The composition of the three conversions puts each event of the window under exactly
   one entry of the movement, and under none when it is unlisted. *)
EventsCountedOnce ==
  ~reporting =>
    \A e \in Within(events, fromDate, toDate) :
      LET entries == {i \in DOMAIN report : Keyed(UtcDate(e.time), zone, report[i].date)}
      IN  IF Unlisted(e) THEN entries = {} ELSE \E i \in DOMAIN report : entries = {i}

(* The movement and the total of one window agree but for the unlisted events; on a
   server running in UTC they always agree. *)
MovementAddsUp ==
  ~reporting =>
    LET counted == Within(events, fromDate, toDate)
        unlisted == {e \in counted : Unlisted(e)}
    IN  /\ Reported + SumOf(unlisted) = TotalUnstakeAmount(events, start, end, zone)
        /\ zone = 0 => unlisted = {}

DayTotal(d) ==
  LET midnight == LocalMidnight(d, zone)
  IN  [date |-> d, amount |-> TotalStakeAmount(events, midnight, midnight, zone)]

(* Reports of consecutive days neither share an event nor drop one: the total of a
   window is the sum of the totals of its days. *)
TotalIsSumOfDays ==
  TotalStakeAmount(events, start, end, zone) =
    SumOf({DayTotal(d) : d \in LocalDay(start, zone)..LocalDay(end, zone)})

(* The loop and the two Array.from copies of generateCompleteDateRange give the same
   list: one entry for each local day from the first to the last, in order. *)
EveryDayListedOnce ==
  ~reporting =>
    /\ report = StakingMovement(events, start, end, zone)
    /\ report = TokenEmissionMovement(events, start, end, zone)
    /\ [i \in DOMAIN report |-> LocalDay(report[i].date, zone)] =
         [i \in 1..(LocalDay(end, zone) - LocalDay(start, zone) + 1) |->
            LocalDay(start, zone) + i - 1]

(***************************************************************************)
(* The inductive invariant                                                 *)
(***************************************************************************)
(* The list so far has the entries of the first days of the window, one for each. *)
MovementInv ==
  /\ zone \in Zone /\ start \in Int /\ end \in Int
  /\ events \subseteq Event /\ IsFiniteSet(events)
  /\ reporting \in BOOLEAN
  /\ day \in 0..DaysDiff(fromDate, toDate)
  /\ report = [i \in 1..day |->
                 Entry(SumsByDate(events, fromDate, toDate), fromDate, zone, i - 1)]
  /\ ~reporting => day = DaysDiff(fromDate, toDate)
=============================================================================
