# A TLA+ model of the social-lens indexer

The repository is a NestJS service that reads staking, unstaking and reward
events of two contracts over RPC, stores them in Postgres, and serves analytics
over HTTP to authenticated users.  This directory models its indexing pipeline,
its accounts and sessions, and the reports over the indexed events, checks them
with TLC, and proves every safety and action property of the passing runs with
TLAPS, for instances of any size.

## 1. Inventory

Paths are relative to `src/src/`.

| Part | State it keeps | Operations | Correct when |
|---|---|---|---|
| Staking, unstaking and request-reward indexers (`workers/staking/*`, `workers/contributor/*`) | `this.newestBlock` | `onModuleInit` / `handleCron` → `handleQueryBlocks`: reschedule failed ranges, choose the next window, split it, enqueue it; `executeRangeQuery`, `executeFailedRangeQuery` | no block with an event is passed over without a record of it; a successful checkpoint means the events are stored; progress resumes after failures |
| Worker pool (`workers/worker.service.ts`) on a BullMQ queue in Redis | queue entries, locks | `process` dispatches a delivery to an indexer; ten at a time | survives duplicate delivery and crashes |
| Checkpoints (`checkpoints/`) | rows (from, to, failed?) per query type | insert, clear the failed flag, latest successful, all failed | never claims a range that was not indexed |
| Event tables (`staking-events/`, `unstaking-events/`, `request-rewards/`) | one row per transaction hash | upsert, latest recorded block of a range, analytics queries | row of the transaction's last event; analytics agree with the rows |
| Web3 access (`web3/`) | none | block height, logs of a range, range limit | accepts every batch the indexers make |
| Reports (the three event services, `utils/helper.ts`) | none | total of a window, amount per day of a window | the reports of one window agree with each other and with the rows |
| Authentication, users, sessions (`auth/`, `users/`, `session/`, `auth-google/`) | users, sessions with a rotating hash, signed tokens | login, refresh, logout, register, confirm, reset, update, soft delete, administration, Google sign-in | an exchanged refresh token stays useless; a password change ends other sessions; e-mails are unique and confirmed; a request writes what it was asked to write |
| Mail, files, roles, statuses, configuration, home | templates, uploads, constants | input and output | out of scope, but for a mail carrying a token |

Interactions.  Cron or the boot calls an indexer; the indexer reads the
checkpoint and event tables and the chain's height and appends to the queue;
the pool takes queue entries and calls back into the indexer, which reads logs
and writes events and checkpoints; the next tick reads those.  The queue and
the tables survive a crash, `this.newestBlock` and the ticks in progress do
not.  Nothing serialises ticks with each other or with jobs.  The three indexers
share the checkpoint table, the queue and the pool and are told apart by a query
type.  HTTP requests run beside all this, interleaved at every await, over the
user and the session table; no handler opens a transaction.

Hard behaviours, each listed at its line in `PROJECT.json` under `hazards`:
overlapping ticks; a plan enqueued in part; a job, or the catch clause of a
job, that fails; duplicate delivery after a lost lock; crash and redelivery;
a refetch whose start was computed before other jobs wrote; the half-open
split loop; requests that check a row, await something else, and then write;
rows read whole and written back whole; a soft-deleted row saved again; dates
that pass through the server's zone, UTC and the database driver.

## 2. Modules

| Module | Contents |
|---|---|
| `BlockRanges` | block arithmetic: window start, split, batches, provider limit, as operators |
| `RangeLoops` | the two `for` loops run one iteration at a time, checked against `BlockRanges` and against tiling; their inductive invariant `LoopInv` |
| `Multiples`, `LoopsProofs` | lemmas on multiples and division; proofs about the two loops |
| `RangeFetch` | one indexer with its checkpoint and event tables, the queue, the pool, the chain, and faults |
| `RangeLedger` | the abstract specification of one indexer: who answers for which range, without ticks, jobs, queue or processes |
| `RangeFetchInv` | the refinement of `RangeLedger`; type invariant, safety, action and liveness properties, the inductive invariants `IInv`, `RestInv`, `CrawlInv` |
| `RangeFetchProofs` | proofs of the safety properties that hold under every fault, and that `RangeFetch` implements `RangeLedger` |
| `RestProofs` | proofs of what holds once work has drained, and of CRAWL mode |
| `Indexers` | the three indexers over one checkpoint table, one queue and one pool, in one process |
| `IndexersInv` | the view of the shared state by one indexer, and the refinement: each indexer is a `RangeFetch`; the inductive invariant that needs |
| `IndexersProofs` | the proof of the refinement |
| `EachIndexer` | the theorems about `RangeFetch`, carried over to each of the three indexers running together |
| `UserRows`, `SessionRows` | the two tables: a row, what each repository call returns or writes, as operators |
| `Auth` | the requests over them, one step per await that touches a table |
| `TokenChain` | the abstract specification of sessions: a chain of tokens each, without accounts, endpoints or the steps of a request |
| `AuthInv` | the refinement of `TokenChain`; type invariant, session and account properties, the inductive invariant `IInv` |
| `AuthProofs` | proofs of all of them, and that `Auth` implements `TokenChain` |
| `Analytics` | windows, daily sums and totals of the reports, and the loop over days |
| `AnalyticsProofs` | proofs about which days a report lists, where an event is counted, and what the reports add up to |
| `MCRangeFetch`, `MCIndexers`, `MCAuth`, `MCLoops` | the small instances TLC uses; `MCLoops` puts the block loops and the day loop side by side |

A definition with a name of the form `F_Variant` (`Refetch_AnyBlock`,
`Upsert_KeepFirst`, ...) stands just before the definition it varies and is not
part of the model.  Each is the original with a plausible slip; substituting it
must break the property that `PROJECT.json` pairs with it.

### How RangeFetch corresponds to the code

State:

| Variable | In the code |
|---|---|
| `head` | height of the chain |
| `table` | the event table: for each transaction the number of the event stored, 0 for no row |
| `row` | the checkpoint table of one query type |
| `job` | BullMQ entries and running deliveries: range, `checkpointId`, events still to write, number of stalls, and whether the delivery still holds its lock |
| `tick` | runs of `handleQueryBlocks` in progress: failed rows still to probe, ranges still to add |
| `newestBlock` | the field, shared by all ticks |
| `booted` | `onModuleInit` has run in this process |
| `abandoned`, `windowStart`, `faults` | history only; no step's effect on the real state depends on the first two |

Actions, with the step boundaries at the awaits that touch shared state:

| Action | Code |
|---|---|
| `StartTick` | `handleCron` or `onModuleInit`, up to the answer of `findFailedCheckpoints` |
| `ProbeFailed` | one turn of the loop of `processFailedCheckpoints`: the latest recorded block, then refetch all, refetch the rest, or skip |
| `AddRefetch`, `AddFetch` | one `queue.add` of `queryRanges` |
| `ReadHead` | `this.newestBlock = await getCurrentBlock()`; the answer may trail the head by `Lag` |
| `ReadLatest` | `findLatestCheckpoint`, choice of the window, `splitIntoRanges` |
| `FetchLogs` | a worker takes an entry; the batched `queryFilter` calls answer |
| `WriteEvent` | one turn of `logEvents`: skip malformed arguments or upsert |
| `SaveCheckpoint`, `ClearFailed` | the end of `executeRangeQuery` / `executeFailedRangeQuery` |
| `JobThrows`, `SaveFailedCheckpoint`, `SaveFailedThrows` | an awaited call of a job rejects; the catch clause saves the range as failed; or fails too |
| `Stall` | BullMQ takes the lock away from a running delivery and delivers the entry again, or fails it for good after `MaxStalled` times; the first delivery runs on |
| `Crash`, `TickThrows` | the process dies and restarts; a tick's await rejects (logged under cron, fatal under `onModuleInit`) |
| `Grow` | a block is mined |

The unstaking and the reward indexer have the same control, statement for
statement; `RangeFetch` reads as any one of them.

### What RangeLedger abstracts from

Its state is computed from that of `RangeFetch`: `recorded` are the blocks of the stored
events, `owed` the ranges of queued or running plain fetches and of failed checkpoints
(`Owners`), `done` those of successful checkpoints, `dropped` is `abandoned`.  `Record` is a
`WriteEvent`; `Owe` is an `AddFetch` or the failed checkpoint of a job that had lost its lock;
`Settle` is a `SaveCheckpoint` or `ClearFailed`; `Drop` is a failing catch clause or an entry
the queue gives up, several at once in a crash; `MoveStart` is a `ReadLatest` before the first
success.  Everything else stutters: refetches, redeliveries, the catch clause, ticks.

### How Indexers corresponds to the code

`rows` is the checkpoint table with its `queryType` column, `queue` the one BullMQ
queue with the type of each job, `ticks`, `newestBlock` and `booted` belong to the
three service objects, `tables` are the three event tables.  The actions are those
of `RangeFetch` with a service as parameter; `WorkerService.processFetchJob`
dispatches on the type (`Fetches`, `Refreshes`).  `Concurrency` limits the workers
of all types together.  A crash, and an error of any boot in CRAWL mode, ends all
three.  `StakingTick`, `UnstakingQueryBlocks`, `RewardEvents` and their like name
the part each file has in these steps.

`IndexersInv` maps the state to `RangeFetch` once for each kind: the rows and entries
of the other kinds read as free.  `EachIsARangeFetch` says that the mapped initial
states are initial and that every step is, for every kind, a step of `RangeFetch` or
none.  Two constants change on the way: a failing catch clause is not counted as a
fault of its own in `Indexers`, so the abstract bound on faults is twice the concrete
one.

### How Auth corresponds to the code

| Variable | In the code |
|---|---|
| `users`, `sessions` | the two tables; a row keeps its columns when it is soft-deleted |
| `req` | requests in flight: the endpoint, the await they are at, the dto or the ids they carry |
| `tokens` | refresh tokens that have reached a client, with the access token of the same answer |
| `mails` | hashes that have been mailed |
| `rand` | counter that stands for fresh salts and session hashes |
| `spent`, `lost`, `vouched`, `excused`, and `stale` in a request | history only |

| Action | Code |
|---|---|
| `Login`, `OpenSession`, `Reply` | `validateLogin`: user and password; `sessionService.create`; tokens signed and sent |
| `Refresh`, `ReadOwner`, `FindSession`, `Rotate`, `Reply` | `refreshToken`: session and hash; user; the two awaits of the repository's `update`; answer |
| `Logout`, `SoftDelete` | `deleteById`; `usersService.remove` |
| `Register`, `InsertUser`, `SendConfirmation` | `register` and `UsersService.create`: address checked; inserted under the unique index; hash mailed |
| `ConfirmEmail`, `ConfirmNewEmail` | the whole user read, changed, and passed to `update` |
| `ForgotPassword`, `ResetPassword`, `DeleteSessions` | hash mailed; the whole user read; sessions deleted; `update` |
| `UpdateMe`, `DeleteOtherSessions`, `MailNewEmail` | PATCH me: old password compared; other sessions deleted; new address checked and mailed; `update` |
| `ProbePassword`, `CheckEmail`, `FindUser`, `SaveUser` | the awaits of `UsersService.update` and of the repository's |
| `SocialLogin`, `MatchSocial`, `InsertUser`, `RereadUser` | `validateSocialLogin` |
| `AdminCreate`, `AdminUpdate`, `AdminRemove` | `UsersController` |
| `Abort` | an await rejects, or the process stops: the request ends where it is |

TypeORM's part is external and follows from how `src/` uses it: reads leave out
soft-deleted rows; `save` writes the columns that are not `undefined`, and looks its
row up by id without leaving out deleted ones, so that saving a row that was read
while alive writes its `deletedAt` back as NULL.

### What TokenChain abstracts from

A row keeps its state, its user and its hash.  `sent` are the tokens of requests that have
written the hash and not answered, `held` is `tokens`, `accepted` are the tokens of requests
on their way from the comparison of the hash to its replacement.  `Open` is an `OpenSession`,
`Accept` a `Refresh`, `Exchange` a `Rotate`, `Deliver` a `Reply`; `Lose` and `GiveUp` are an
`Abort` after and before the new hash is written, `GiveUp` also a `ReadOwner` or `FindSession`
that finds nothing; `Close` is a `Logout` or the deletion of sessions before a new password.
Everything else stutters.  It also says what is not promised: an accepted token may be
exchanged although another exchange, or a deletion, has come in between.

### How Analytics corresponds to the code

`GetFromDate` and `GetToDate` are `utils/helper.ts`; `zone` is the server's distance
from UTC.  `SumsByDate` is the grouped query (UTC dates), `DriverDate` what
node-postgres makes of a DATE (a local midnight), `DateKey` the date part of
`toISOString`.  `DayIteration` is one turn of the loop in the unstaking service,
`CompleteDateRange` the `Array.from` of the other two.  `Keyed` says when the key of a
row and the key of an entry are the same string.

### Abstractions

* An event is a number in log order with a block, a transaction and a flag
  saying whether its decoded arguments are all truthy.  Amounts and dates play
  no part in any property; the stake look-up of `findStake` only fills columns.
* The logs of a range are answered in one step.  `Promise.all` rejects when one
  batch does, which is `JobThrows` before any event is written.
* The order in which BullMQ takes waiting entries is left open, which admits
  every order its queue can produce.
* Reorganisations and providers that answer with incomplete logs are not
  modelled: no code path could notice either.
* Refusals on the first read of a request are stutters and not written down; a
  refusal later ends the request.
* `ReadLatest` is one step: the answer of `findLatestCheckpoint` and the reads of
  `this.newestBlock` that follow it.  Another tick's height or another job's checkpoint
  that came between them would at most plan a range twice, as overlapping ticks do.
* `Profile` is first and last name, which every operation treats alike.  The photo is
  left out: a write-back passes a NULL photo as `undefined` and leaves the column alone.
  A hash of a password is a record of the password and a salt; a hash of a hash is a
  hash of `Mangled`, which no one can type.
* Signed hashes and tokens do not expire: every use in time is a use in the model.
* Server zones are fixed offsets; changes to summer time are left out.
* The one-second pause of `queryRanges` is what lets ticks overlap; the model
  admits any overlap without it.

## 3. What is checked

Bounded quantities: `MaxBlock` (height), `TickId`, `JobId`, `RowId` (ticks in
progress, live queue entries, checkpoint rows), `MaxFaults`, `SplitValue` and
`MaxQueryBlockRange` (2 or 3, and 1, so that a window makes several jobs and a job
several batches; the real ones are 14400 and 10000).

| Run | Instance | Properties |
|---|---|---|
| `loops` | block loops: every window up to block 9, split 1..4, limit 0..4; day loop: days of 3 instants, zones -2..2, every window of the two middle days of four, one or two events | `TypeOK`, `SplitLosesOnlyLastBlock`, `BatchesTileEachRange`, `BatchesAcceptedByProvider`, `LoopsMatchSets`, `LoopInv`, `MovementAddsUp`, `TotalIsSumOfDays`, `EveryDayListedOnce`, `EventsCountedOnce` |
| `faults` | one tick, two jobs, three rows, height 4, split value 3, any two faults | `TypeOK`, `NoSilentGap`, `OnlyTailsLost`, `OkMeansComplete`, `ClearOnlyWhenCovered`, `KeepsLedger` |
| `overlap` | two ticks, two jobs, four rows, height 3, one fault | `WithinChain`, `IInv`, `NoEventMissingAtRest`, `LastEventWinsAtRest`, `RestInv` |
| `crawl` | CRAWL mode, one tick error or crash | `CrawlIndexesAllButNewest`, `CrawlInv` |
| `crawl_now` | CRAWL mode, no fault; **violated** | `CrawlIndexesUntilNow` |
| `live` | fair, two faults, height 4, window of 3, three events of which two share a block, a tick starts when the previous work is done | `EventuallyIndexed`, `FailedResolved`, `CheckpointsDisjoint`, no deadlock |
| `indexers` | three services with one tick each, two queue entries, two rows, one worker, height 1, one fault | `EachIsARangeFetch`, `IInv` |
| `sessions` | one user, two passwords, two sessions, two requests, four fresh values | `TypeOK`, `SpentTokenNeverMatches`, `LiveSessionContinues`, `PasswordChangeEndsSessions`, `IInv`, `KeepsChains` |
| `accounts` | two users, two addresses, one session, two requests, four fresh values | `AddressVouched`, `NothingElseWritten`, `HashedAgainOnlyWhenStale`, `IInv` |
| `people` | no user at first, two at most, one address, administrators and Google | `OneUserPerAddress`, `NothingElseWritten` |
| `refresh_race` | one user, one session, two requests; **violated** | `ExchangedOnce` |
| `password_race` | one user, two requests; **violated** | `PasswordStaysUsable` |

Why the bounds are enough.  Height 3 with `SplitValue` 2 gives two jobs per
window and a second window after the first, which is what a hole behind a
successful checkpoint needs.  Two jobs suffice for a duplicate delivery next to
its original or a refetch next to a fetch; two ticks for a stale
`newestBlock`.  Except in `faults` and `live` two of the events share a block and a
transaction, so that a job can fail inside a block and an upsert can overwrite;
in `live` two events of different transactions share the first block, so that a job can
fail between them and the second never come, and the chain outgrows the window by one
block, so that the first window moves past them when nothing has succeeded yet;
`faults` has a job of three blocks with events in the first two, so that a
refetch starts in the middle of a range, and two transactions in one block, so that it
starts after half a block.  Two faults suffice for a job error
followed by an error of its catch clause, and for a crash of a redelivered job.
Fault kinds and the number of faults are constants; the proofs cover all values.

`indexers` asks what the services can do to each other, not what one can do alone:
two rows and two entries are enough for one of each of two kinds, one worker for a
job of one kind to hold up another's, and height 1 for a window of one job.

Two requests are enough for every hazard of `Auth` listed in `PROJECT.json`: each is
one request overtaking another between a read and a write.  Earlier requests leave
their mark in the tables, the tokens and the mails, so sequences of any number of
requests are covered up to the number of fresh values.  `sessions` holds two
sessions so that one can be kept while another ends; `accounts` and `people` two
users so that they can compete for an address, `accounts` two addresses so that one
can be changed for another.  `accounts` has four fresh values, because hashing a hash
takes three beside the seeded salt (the session's hash, the new password, the old hash
taken for a password); that it happens there shows in `PasswordStaysUsable`, which is
violated on the same instance.

A day of three instants has a first, a middle and a last one (23:59:59), and two zones
on either side of UTC put every local midnight at every instant of a UTC day.

`live` checks for deadlock; the others turn it off.  The instances of the pipeline
stop when the chain has reached `MaxBlock` and rows or slots are used up, those of
`Auth` when the fresh values are, and the loops of `loops` end.

Fairness (`FairSpec`).  Weak fairness of `Grow` (blocks keep coming), of starting
a tick (cron fires every three minutes), of each tick's steps (its awaits settle)
and of each job's steps (a BullMQ worker takes waiting entries and a started
handler goes on).  No fault is ever fair.  The `live` instance starts a tick only
when earlier work has drained, because overlapping ticks duplicate whole plans
and exhaust any fixed number of rows; overlap is covered by the safety runs and
the proofs.  `EventuallyIndexed`
makes three exceptions, and the run is violated without any one of them.  A range
is given up for good with two stalls of one job (BullMQ's default `maxStalledCount` is 1)
or with a failing catch clause.  A block leaves the first window when the chain goes on
before any checkpoint has succeeded.  And when a job has failed inside a block the refetch
starts at the next one, so that the end of the block (`InTail`) may stay out for ever: the
loss `OnlyTailsLost` bounds.

### What the runs show

* `NoSilentGap` is the central result.  The next window starts after the
  *highest* successful checkpoint, so a lower range that never made it is found
  again only through a queue entry or a failed row.  The property says that each
  event block below a successful checkpoint is recorded, or owned by such an
  entry or row ending below it, or in `abandoned`.  It depends on plans being
  added upwards (a tick may die half way), on the catch clause, and on redelivery.
* `abandoned` grows in exactly two ways: the catch clause throws, and a delivery
  stalls more than `MaxStalled` times.  Both are silent losses in the code.
* `KeepsLedger` is the promise behind it, and stronger, since it speaks of every step: the
  indexer implements `RangeLedger`.  Whoever answers for a range does so until the range is
  settled or on record as given up, no success is taken back, a range is taken on, and a
  block stored, only where nothing before it is forgotten, and the window stops moving with
  the first success.
* `ClearOnlyWhenCovered`: a refetch starts after the latest recorded block of the
  range, which skips nothing only because `logEvents` writes in block order and
  every job starts at a safe block.
* Coverage is per block.  A job that fails between two events of one block
  leaves that block half stored and the refetch goes on at the next block.
  `OnlyTailsLost` bounds the damage: of a block below a successful checkpoint that nobody
  answers for, what is missing are the last transactions, later than everything stored of
  it.  (Refetching from the latest recorded block, instead of the one after, would
  bring them in.)  The same probe keeps a failed row for ever when its last block is stored, the
  exception `FailedResolved` names.
* Rolling window: until one checkpoint succeeds every tick recomputes the first
  block, so old blocks drop out; `windowStart` marks how far.

* `EachIsARangeFetch`: sharing adds nothing.  No service sees another's checkpoints as
  its own, a crash is for each of them the crash of `RangeFetch`, and waiting for a
  worker is only waiting.  `EachIndexer` draws the consequence for each of the three.
* `SpentTokenNeverMatches`: although `ExchangedOnce` fails, a token that has been
  exchanged never becomes the current one again, not even when a refresh saves a
  session row that a logout has deleted meanwhile and so brings the session back.
* `LiveSessionContinues`: of the tokens that two overlapping refreshes give out, the
  one that matches the session is among those sent, unless the answer was lost.
* `KeepsChains`: sessions behave like `TokenChain`.  A refresh begins only with the
  current token of a live session, each hash is one the session has not had, so no token is
  issued twice, a session keeps its user, and none is revived but by a refresh accepted
  while it was alive.
* `PasswordChangeEndsSessions`: the exceptions are named in `excused`: the session that
  made the change, a login that overlapped it, a refresh that saved a deleted row,
  and changes other than reset and PATCH me, which end no session.
* `AddressVouched`, `OneUserPerAddress`: the order of check and write leaves both to the
  unique index and to `delete userDto.email`; with these two they hold, removed users
  and stale write-backs included.
* `NothingElseWritten`: a request disturbs columns it was not asked to change, or
  revives a removed user, only if it had read the row before another request wrote
  it; PATCH me and an administrator's update, which pass only the columns named, not
  even then.
* `HashedAgainOnlyWhenStale` says how far the finding of `password_race` goes.  Only the
  handlers that write the whole user back (`WritesWhole`: the confirmations and a Google
  sign-in) can hash a hash, and only when another request wrote the user in between; a
  reset, PATCH me and an administrator's update store the hash of what was typed.
* `MovementAddsUp`: on a server in UTC a movement adds up to the total of the same
  window.  In another zone the window is cut on local days and the rows are grouped
  on UTC dates, and the events of the UTC date that is not the date of a local day of
  the window are left out of the movement but not out of the total.  `EventsCountedOnce`
  is the reason: the driver's conversion of a date and the key of an entry are off by the
  same amount, so the two errors cancel for every other event.

### Findings

`crawl_now`: `env-example-relational:83` says that the initial crawl goes "until
now".  `splitIntoRanges` loops while `current < toBlock`, so when the width of
the window is a multiple of the split value the newest block gets no job.  The
default window of twelve months is such a multiple (5184000 = 360 · 14400), and
CRAWL mode makes one pass per process.  `crawl` shows that this is all it loses,
and `SplitLosesOnlyLastBlock` says exactly when.

`refresh_race`: `test/user/auth.e2e-spec.ts:176` expects the second use of a refresh
token to fail, and `docs/auth.md:163` says why it should.  `refreshToken` compares
the hash, awaits the user, and only then replaces the hash: two overlapping uses
both succeed.

`password_race`: `test/user/auth.e2e-spec.ts:229` logs in with the password PATCH me
has set.  `UsersService.update` recognises an unchanged password by its being equal
to the stored hash.  A confirmation that has read the user before PATCH me wrote the
new hash passes the old one, which is then hashed as if it were a password, and the
user can log in with neither.  `HashedAgainOnlyWhenStale`, which holds, says
that it takes such an overlap.

## 4. What is proved

Every safety and action property the passing runs check is a theorem, for every value
of the constants that the assumptions allow:

| Module | Theorem | States |
|---|---|---|
| `RangeFetchProofs` | `TypeCorrect`, `Invariance` | `TypeOK`, `IInv` |
| | `NoGap`, `NoFutureBlock`, `OkIsComplete`, `ClearIsCovered` | `NoSilentGap`, `WithinChain`, `OkMeansComplete`, `ClearOnlyWhenCovered` |
| | `TailsAtMost` | `OnlyTailsLost` |
| | `LedgerIsKept`, `LedgerForgetsNothing` | `KeepsLedger`; `KeepsLedger` implies `[]NoSilentGap` |
| `RestProofs` | `RestInvariance` | `RestInv` |
| | `NothingMissing`, `LastEventWins`, `NoBlockTwice` | `NoEventMissingAtRest`, `LastEventWinsAtRest`, `CheckpointsDisjoint` |
| | `CrawlInvariance`, `CrawlIsComplete` | `CrawlInv`; `CrawlIndexesAllButNewest`, when only ticks and whole processes fail |
| `IndexersProofs` | `TypeCorrect`, `Invariance` | `TypeOK`, `IInv` of `Indexers` |
| | `Refinement`, `ImplementsRangeFetch` | `EachIsARangeFetch`, and `One(k)!Spec` for each kind `k` |
| `EachIndexer` | `EachHasNoGap`, `EachKeepsItsLedger`, `EachLosesOnlyTails`, `EachStaysInChain`, `EachOkIsComplete`, `EachClearIsCovered`, `EachMissesNothing`, `EachLastEventWins`, `EachCrawlIsComplete` | the theorems above, of each indexer among the three |
| `AuthProofs` | `TypeCorrect`, `Invariance` | `TypeOK`, `IInv` of `Auth` |
| | `SessionsAreChains`, `ChainsPromise` | `KeepsChains`; `KeepsChains` implies `[]SpentTokenNeverMatches` and `[]LiveSessionContinues` |
| | `SpentTokensStaySpent`, `SessionsContinue`, `OldPasswordsEndSessions` | `SpentTokenNeverMatches`, `LiveSessionContinues`, `PasswordChangeEndsSessions` |
| | `AddressesAreVouched`, `AddressesAreUnique` | `AddressVouched`, `OneUserPerAddress` |
| | `SavesKeepToTheirColumns`, `PasswordsAreHashedOnce` | `NothingElseWritten`, `HashedAgainOnlyWhenStale` |
| `LoopsProofs` | `LoopTypes`, `LoopInvariance` | `TypeOK`, `LoopInv` of `RangeLoops` |
| | `SplitCoversAllButLast`, `BatchesCoverJobs`, `LimitsAgree`, `LoopsComputeSets` | `SplitLosesOnlyLastBlock`, `BatchesTileEachRange`, `BatchesAcceptedByProvider`, `LoopsMatchSets` |
| `AnalyticsProofs` | `MovementInvariance`, `DaysListedOnce`, `CountedOnce` | `MovementInv`, `EveryDayListedOnce`, `EventsCountedOnce` |
| | `TotalsAddUp`, `MovementsAddUp` | `TotalIsSumOfDays`, `MovementAddsUp` |

Assumptions.  For the pipeline: events are in block order and a transaction lies in one
block (`EventAssumption`); the configuration consists of natural numbers, with a
positive split value, limit and concurrency (`ConfigAssumption`; the limit 0 is left
to `RangeLoops`, which covers it); in `Indexers` `NoType` is no job type.  For `Auth`:
`Null` and `Unset` are no values of a column, `Mangled` is no password, the seeded users are users with an
address each, and `MaxRand` is positive.  For the reports: a table has finitely many rows, an offset is shorter than a
day, and a day has more than one instant, since otherwise 0:00:00 and 23:59:59 would
be the same and rounding up would not reach the last day.  The theorems about the loops
are about `RangeLoops!Spec` and `Analytics!MovementSpec`, of which `MCLoops` runs one
at a time.

### One indexer

`NoSilentGap` alone is not inductive: a job that finishes makes a
block "the highest successful checkpoint", so it must be known that the job
itself started at a place with nothing forgotten below.  `SafeStarts` is the set
of such places, and `IInv` says that every job, every row and every planned
refetch starts in it, that a planned fetch does or comes right after another
range of its plan, and that the block of every stored event is in it (needed for
the probe).  Three lemmas carry the proof.  `SafeKept`: a step that forgets no
record and lets no owner vanish without abandoning it keeps every safe start.
`SafeExtend`: a safe start moves past a range whose event blocks are all
accounted for.  `Assemble`: what a step leaves alone keeps its part of `IInv`.
Each action then has one lemma.  The delicate one is `ClearFailedInv`, which
removes an owner: what that row owned below the refetch is safe without it,
because the row ends too late to own anything below the refetch's first block.
`OnlyTailsLost` adds one fact about the event table, `BlocksFillUpwards`: a job that
writes an event has found or written every earlier one of its block, because jobs hold
whole blocks and write in log order.
Block arithmetic is proved first: `SplitRanges` (ranges lie in the window and
follow each other) and `BatchesCover` (the batches ask for exactly the range).

`LedgerIsKept` is proved action by action: most actions leave `Fetching`, the ranges of the plain
fetches that answer for them, and both tables as they are (`LedgerStutters`); a
freed or unlocked job takes at most its own range out of it (`FetchingEnds`).  That ranges are
taken on and settled at safe places is `IInv`, before or after the step.
`LedgerForgetsNothing` shows that nothing more is needed: no entry of a ledger makes a safe
start unsafe (`EntriesKeepSafe`), and what is settled from a safe start on reaches to one
(`SettledIsSafe`), so `NoSilentGap` follows from the ledger alone.

### At rest

`SafeStarts` speaks of blocks, because a refetch skips the rest of a half-written block;
what the table holds once everything has drained is a matter of single events.
`RestInv` adds `CompleteStarts`, the same idea event by event, which only holds while no
fault has happened and every job is therefore a plain fetch (`Calm`).  Of two jobs that
write one transaction the slower one may put an older event over a newer one.
`LaterToCome` says that it then still has the newer one left, and rests on
`WritesUpwards`: what a job has left are always the last events of its range.  Without
overlapping ticks the argument for `CheckpointsDisjoint` is that a tick chooses its window
only when the queue is empty (`OneTick`), so that nothing it plans meets anything done,
queued or planned (`AllApart`).  In CRAWL mode a fault is a tick that throws or a
process that dies: neither makes a failed row, a job keeps its lock, so each job either
finishes or is given up; `CrawlInv` says that, once the single tick of a process has
chosen its window, every event below the newest block is stored, in the queue, or planned.

### Three indexers

A step of the service of kind `k` maps to the action of the same name of `One(k)`, and to
a stutter of the other two, because every row and entry carries its type and every
look-up asks for it.  What that needs of the state is `IInv` of `IndexersInv`: an entry
of a kind refetches a row of that kind, and a tick probes and plans rows of its own kind.
Free slots are free for every kind.  A crash is a crash of all three; the bound on faults
is the one place where the mapping is not the identity: a failing catch clause is a fault
of the abstract indexer but a mere consequence of the failed job in `Indexers`, so `hits`
counts both and `HitsCounted` bounds them by twice the faults, which is the bound
`One(k)` is given.

`EachIndexer` instantiates `RestProofs` (and with it `RangeFetchProofs`) under the same
mapping, shows that the two instances have the same steps, and cites each theorem.

### Accounts and sessions

None of the properties of `Auth` is inductive, because a request carries what it has read
across awaits.  `Carries` says what may still be relied on when it writes:

* `KnowsUser`, `KnowsSession`: the rows it is about exist, and a refresh carries a hash
  that was given out.  A hash drawn is new (`HashesDrawn`), so that `Rotate` never
  brings back a spent token even when it revives a deleted row.
* `AddressesApart` is stronger than `OneUserPerAddress`: it includes the removed users.
  They come back, by a stale write-back, with the address they kept; uniqueness survives
  only because the index counts them too.
* `WritesVouched`: an address in a dto is vouched for when it reaches `update`, because
  PATCH me has taken the new address out of its dto.
* `HasEnded`: between the deletion of the sessions and the save of the password every
  session of the user that is alive is one the property excuses.
* `UpToDate`: as long as nobody else has written the user, what a request has read and
  was not asked to change is what is stored; this is `NothingElseWritten` one step earlier.
* `WritesHash`: what reaches the table as a password is a hash.

`PasswordsAreHashedOnce` adds `AllHashOnce`, inductive beside `IInv`: until `ProbePassword`
hashes it, the password in the dto of a handler that sets one is as it was typed.  The
other handlers hold the stored hash, and `UpToDate` says that it still is the stored one,
so that it is left as it is, until the request is overtaken.

`SessionsAreChains` maps each step to one of `TokenChain` or to a stutter: steps that leave the
sessions, and the requests that stand for a token, alone are stutters (`ChainAside`,
`AsideStutters`); `AcceptedMoves` and `SentMoves` say what becomes of the mapped sets when
one request moves.  Delivering a token takes it off its way only because no two replies carry
the same one: `RepliesApart`, inductive beside `IInv`.  `ChainsPromise` needs nothing of
`Auth`: only tokens a client has are accepted, and each new hash exceeds all of them.

### Loops and reports

`LoopInv` says that the ranges produced so far are exactly the first iterations of their
loop and that the counter stands at the next one.  Everything else is arithmetic of
multiples: `Chained` (each range but the last is full and the next one starts right
after it), `WholeIsTiled` and `AllButLastIsTiled` (a finished loop over `<=` tiles its
range, one over `<` all but the last block, which it loses exactly when the width is a
multiple of the step), and `AllIterations` (the list has the elements of the set by which
the indexer modules model the loop).

For the reports `MidnightIsOfItsDay`, `MidnightsLater` and `DaysListed` give the days of
the list, and `KeyIsLocalDay` the entry an event is counted under.

What the reports add up to needs a theory of `SumOf`, which sums a finite set of rows by a
recursive function over its subsets that takes out a chosen row at a time.  Three facts are
shown by looking at a smallest subset without them (`Smallest`): the function exists
(`IterationExists`), functions on different sets agree on common subsets
(`IterationsAgree`), and any row may be taken out first, not only the chosen one
(`SumTakeOut`).  From these follow `SumUnion` for disjoint sets and `SumByKey`, which sums
by group and then over the groups.  `TotalsAddUp` is `SumByKey` with the local day as the
key; `MovementsAddUp` is `SumByKey` with the entry of `CountedOnce`, once `EntryAmount`
has shown that an entry of the report is the sum of the rows counted under it, though the code goes through
a row of the grouped query and a converted date.

### Only model-checked

* `EventuallyIndexed` and `FailedResolved`: liveness under fairness, about which the prover
  cannot reason.
* The three violated properties have counterexamples, not proofs.

## 5. Plan

1. (done) `BlockRanges`, `RangeLoops`, `RangeFetch` with properties and proofs; the abstract
   `RangeLedger`, shown to be implemented.
2. (done) `Indexers`: the three services over one table, queue and pool, each shown to
   refine `RangeFetch`, with the proof.
3. (done) `Auth` over `UserRows` and `SessionRows`, with proofs of all its properties; the
   abstract `TokenChain`, shown to be implemented.
4. (done) `Analytics`: windows, daily sums and totals, with proofs of all its properties.
5. Open: the relation of a report to a table that the indexers are writing at the same time.

## 6. Not modelled

* Files, roles and statuses, internationalisation and the HTTP layer hold no state
  that interacts with the above, or only do input and output.
* Of mail, only that a hash goes out or that sending fails; of Google sign-in, only
  the account and the address it vouches for.
* The top-five, velocity and token-flow reports: each is one or two aggregate queries
  over the window whose totals `Analytics` models, with nothing to go wrong between
  steps but the missing snapshot of the token flow, which `PROJECT.json` lists.
* The unused operations of the repositories (pagination, look-up by id, removal of
  events and checkpoints): no route or service calls them.
* Migrations and connection options: they run before the service does.  The unique
  index they create is in `EmailFree`, the seeded users are the initial state.
* Expiry of tokens and hashes, which only removes behaviours.

`PROJECT.json` lists each component with its reason.
