# IdleForge: TLA+ models and proofs

IdleForge is the backend of an idle game: an Express API and a worker process share PostgreSQL,
which holds the economy, and Redis, which holds a job queue (BullMQ) and a leaderboard projection.
This directory models the parts of it that are hard to test (transactions that interleave,
messages that come late or twice, clocks that jump, processes and stores that restart), checks
the models with TLC on small instances and proves their safety properties
with TLAPS for every instance. Paths below are relative to the repository.

1. [The system](#1-the-system)
2. [Modules](#2-modules)
3. [Runs](#3-runs-what-is-checked)
4. [Fairness](#4-fairness)
5. [Proofs](#5-proofs)
6. [Where code and documentation disagree](#6-where-code-and-documentation-disagree)
7. [What is not modelled](#7-what-is-not-modelled)
8. [Plan](#8-plan)

## 1. The system

| Component | State it keeps | Operations | Correct when |
| --- | --- | --- | --- |
| Catalogue (`src/buildings/catalogue.ts`) | none | `priceForLevel` | the n-th level costs n times the base price |
| Collection (`src/players/collect.ts`) | a row of `player_resources` | `collect`: one statement that locks, samples the clock, credits | no interval is paid twice, the checkpoint never moves back |
| Purchase (`src/players/purchase.ts`) | `player_resources`, `player_buildings`, `purchase_commands` | `purchase`: a transaction of up to eight statements, keyed for idempotency | executed once per key; gold is conserved; retries get the first answer |
| Bonus application (`src/world-events/service.ts`) | `world_events`, all rows of `player_resources` | `applyGoldBonus`: reserve the occurrence, lock all rows, pay | once per occurrence, for everybody or nobody, without deadlock |
| Bonus delivery (`src/world-events/queue.ts`, `worker.ts`, `src/scheduler.ts`) | BullMQ jobs in Redis | enqueue, register the schedule, process, retry | an accepted bonus is paid once or found among the failed jobs |
| Leaderboard (`src/leaderboard/*`) | sorted set, temporary sets and marker in Redis | synchronise one player, reconcile all, read a page | a served page is fresh and never shows more than was earned |
| Worker process (`src/worker.ts`) | `closing`, `refreshRequested`, `activeRefresh` | coalesced refresh, timer, shutdown | no request for a refresh is lost; shutdown ends and nothing runs after it |
| Accounts (`src/auth/*`) | `players`; access tokens are with the clients | signup, login, the checks of tokens and roles | account and resource row appear together; only admins reach the bonus queue |
| Rate limiter (`src/rate-limit.ts`) | one map of buckets per limiter | count, refuse, prune | no key gets through more often than its limit allows; the map does not grow for ever; `Retry-After` is honest |
| API process (`src/server.ts`, `src/app.ts`, `src/*/routes.ts`) | HTTP connections, running handlers, a pool of PostgreSQL clients | serve requests, synchronise after a commit, shut down | a failed synchronisation does not change a committed command; every client is answered; shutdown cuts nobody off; handlers never wait for each other |

How they interact. An API request runs a transaction and, after its commit, synchronises the
player's score to Redis (`src/server.ts:25-42`). A bonus travels from an admin request or the hourly
schedule through Redis to a worker, which applies it in PostgreSQL and then waits for a full
refresh of the leaderboard (`src/worker.ts:33`). The worker also refreshes every 60 seconds and
after each reconnect. Requests pass a limiter before a router authenticates them, take clients from
one pool of ten, and finish on their own when their client has gone. Readers see the leaderboard only while a marker, at most 90 seconds old,
vouches for it. PostgreSQL is the authority throughout; everything in Redis can be late, repeated
or lost.

What is hard: transactions under READ COMMITTED that wait for each other's locks; two stores
without a common transaction; a clock read by the database, the processes and Redis; at-least-once
delivery; Redis persistence that lags by a second; a refresh loop whose promise is awaited by
others; handlers that are cut at every await while roles change, clients give up and a signal comes. `PROJECT.json` lists the hazards one by one, at the line where each bites, with the
properties that cover it.

## 2. Modules

```
Catalogue        arithmetic: prices, credit of an interval
  Ledger         abstract specification of the economy: every command is one step
    Economy      the transactions, one action per SQL statement     MCEconomy
  Authority      what the leaderboard relies on: totals only grow
    Leaderboard  the Redis projection                               MCLeaderboard
Backend            Economy and Leaderboard in one system               MCBackend
RefreshLoop        the worker process
BonusQueue         delivery of bonuses through BullMQ               MCBonusQueue
RateLimit          one limiter of the API                           MCRateLimit
Api                the API process: connections, handlers, pool, roles, shutdown
LedgerProofs       theorems about Ledger
  EconomyProofs    theorems about Economy: refinement of Ledger, what clients are told,
                   whom a bonus pays, who waits for whom
    BackendProofs  theorems about Backend, from those of EconomyProofs and LeaderboardProofs
LeaderboardProofs, BonusQueueProofs, RateLimitProofs, ApiProofs, RefreshLoopProofs
```

The modules compose by refinement. `Economy` implements `Ledger` under the identity on the tables
(property `LedgerSpec`), and `Ledger`, hence `Economy`, implements `Authority` under the mapping
`total <- lifetime earnings of the live players` (property `EarningsReported`). `Leaderboard`
extends `Authority` with the projection, so what it assumes of the database is what the economy
was shown to provide. `Backend` puts the two together over shared state. `BonusQueue` takes
`applyGoldBonus` as one step (`Economy` shows it atomic), and `RefreshLoop` takes a pass of the reconciliation as one (`Leaderboard` has its steps). `Api`
takes the body of a transaction as one step between two awaits and does not look into Redis: what
the steps do there is the business of `Economy`, `Leaderboard` and `BonusQueue`.

Names follow the code where they can. An operator marked `mutant:` is not part of a model. It is a
plausible bug, kept next to the definition it would replace, that violates a property of a run:
the evidence that the property notices such a bug. `PROJECT.json` pairs them.

### Catalogue and Ledger

A resource row is `[gold, lifetime, rate, last]`, in millionths of a gold piece and milliseconds.
`Credit` is the arithmetic of `collect.ts:24-33`: the checkpoint is the greater of the old one and
the clock, the interval is clamped to the offline limit, and the product is truncated. `Fits` is
the width of `numeric(30, 6)`.

`Ledger` holds the committed tables (`account`, `resource`, `level`, `command`, `applied`) and two
history variables: `rewarded`, who was paid by each occurrence, and `due`, what the rates in force
would have paid. Its actions are whole commands: `Signup`, `Delete` (an operator's `DELETE` with
its cascades), `Collect`, `Buy` with its three saved outcomes, and `Grant`. Each reads an arbitrary
clock value, so a clock that is set back is part of every behaviour. `command` keeps of a saved
result the outcome and the level; the amounts in the reply are determined by the rows.

### Economy

An API connection works through a purchase one statement at a time; `pc` is the next statement:
`reserve` (`purchase.ts:80`), `replay` (65), `lock` (27), `price` (33), `pay` (38), `settle` (49),
`upgrade` (51-55), `save` (86). A worker connection works through a bonus: `select` and `acquire`
are the two halves of the `FOR UPDATE` subquery, which first finds the visible rows and then locks
them one by one in id order. Locks are explicit: `rowLock` (rows of `player_resources`), `keyLock`
(an uncommitted key of `purchase_commands`), `eventLock` (an uncommitted `world_events` row). What
a transaction has written and not committed is in its `order`, so a commit installs it and a
`Rollback` (an error, a lost connection, a crash) forgets it. A request of a deleted player, whose
token is still valid, is refused at `BeginPurchase`.

`resource_not_found` is not modelled: signup inserts the account and its resource row in one
transaction and both are deleted together. `SignupCommit` is one step because nobody can see or
lock what it inserts before it commits.

### Authority and Leaderboard

`live` is the sorted set, `marker` the `:ready` key, `staging` the temporary set of each
reconciler, `disk` what a restart of Redis would bring back. Each request process (`Syncer`) reads
a committed total (`SyncRead`) and later writes it (`SyncRemove`, `SyncRaise` with `GT`,
`SyncInvalidate`); any time may pass in between, and the write may never happen (`SyncFail`). A
`Reconciler` takes the time (`Start`), reads all rows in one `SELECT` (`Read`), stages batches
(`Stage`) and runs the publishing script (`Publish`), whose three refusals are `Expired`,
`Superseded` and `~Complete`. `Servable` is the reader's condition (`store.ts:54-59`) and `Shown` the
amount on the page. Amounts come from the database as texts of whole gold and a fraction (`Text`);
`ToLeaderboardScore`, `HasScore` (its `RangeError`) and `FromLeaderboardScore` are the conversions
of `score.ts`, with `Unit` fractions to a gold piece instead of a million. `faults` is the set of
faults that have happened (`"restart"`, `"clock"`), each at most once. The history variable `window`
remembers the totals of each of the last `MaxAge` ticks.

### Backend

The variables of `Economy` are PostgreSQL, and `Leaderboard` is instantiated over them: its `total` is the
lifetime earnings of the committed rows (`Earned`), its `deleted` the accounts that were deleted
(`Gone`), and the database steps of its own are dropped. A step is a statement of a transaction
(`TransactionStep`) or a step of the processes and Redis (`LeaderboardStep`), since no transaction
spans the two stores. A synchronisation may start at any time and for any player, which is more than
the code does (after that player's commit) and includes it. `ProjectionSound` says that the composition is
a behaviour of `OpenSpec`, the leaderboard over any database that keeps the promise of `Authority`;
`ShownAccounted` bounds a score in Redis by what `world_events`, `player_resources` and the rates in force
account for.

### RefreshLoop

One action per piece of code between two awaits of `src/worker.ts`. `loop` is the state of
`activeRefresh`: `null`, a running pass, or the moment between the loop's decision to end and the
`finally` handler. `NextPass` and `LastPass` are the two outcomes of the `while` condition,
`PassThrows` is the `catch`, `Settle` the `finally` with its restart. `earned`, `seen` and `shown`
count commits: in the database, read by the current pass, published.

### BonusQueue

`queue` maps each job id to its job. Manual jobs have the id `manual-<uuid>`, scheduled ones the id
BullMQ makes from the hour; the occurrence is a one-to-one function of the job id
(`service.ts:30-33`). `EnqueueManual` may add the job and still answer 503 (command timeout), and
adds nothing when the id exists in any state. `ProcessJob` may commit and still see an error.
`Stall` takes the job from a worker that died or lost its lock; in the second case that worker goes
on (`Owns` is then false) and its result is ignored by the queue but not by PostgreSQL. `Complete`
prunes completed jobs, `KeepFailed` keeps failed ones. `RegisterBonusSchedule` and the second half
of `Take` follow `README.md` ("BullMQ generates the next scheduled job as the preceding scheduled
job starts"). The jobs of `Foreign` are of another version, and `validatedJob` rejects them.
BullMQ is not part of the repository; its contract is taken from how it is used and configured.

### RateLimit

One instance of `rateLimiter` (`rate-limit.ts:10-45`). The middleware has no await, so a request is
one step, `RateLimiter`: prune when the map has `PruneAt` entries, start or count up a bucket, pass or
refuse with `Retry-After`. `PlayerOrIpKey` is the key function, and `Arriving` the request as the
limiter sees it: `app.ts:72-75` mounts limiters in front of the routers that authenticate, so `auth`
is not set. `clock` is `Date.now()`, `time` the real time it may fall behind. `recent` and `promise`
remember what was let through in the last 1, 2, ... ticks of real time and what refused clients were
told.

### Api

`conn` is each HTTP connection, `handler` what runs for its request: the route, the player and the
await it is at. A connection whose client gave up is `gone` while its handler goes on. The steps
follow the routes: `query` (a statement outside a transaction: login, player state, readiness, the
role of an admin), `verify` (the password), `begin`, `work` (a transaction that holds a client of the
pool), `sync` and `write` (the two halves of `syncPlayerLeaderboard`, `server.ts:25-42`), `redis` (leaderboard page, bonus queue).
Any step may fail, with the answer the code gives: 500 through `handleError`, 503, or 200 when only the
synchronisation failed. `account` is the role in the database, `token` the role in the token a player
holds; `ChangeRole` and `Remove` are operators' statements. `FirstOfKind` is the first SIGINT or
SIGTERM (`process.once`), `SecondOfKind` the same signal again, for which no handler is left.
`server.close` waits for connections (`Drained`), `pool.end` for clients (`Stopped`).

## 3. Runs: what is checked

| Run | Instance | Shows |
| --- | --- | --- |
| `economy_purchase` | 1 player, 2 keys, 2 API connections, 1 worker, 1 occurrence, 2 levels, clock 0..3 | type, column width, conservation of gold, one command per level, fair pay, current drafts, replies agree with the record, refinement of `Ledger`, monotone rows, permanent records |
| `economy_bonus` | 2 players, 2 workers, 2 occurrences, 1 API connection | lock protection, nobody waits in a circle, everybody eligible is paid, every transaction ends without a crash |
| `backend` | 1 player, 1 API connection, 1 worker, 1 key, 1 occurrence, 1 request, 1 reconciler, both clocks 0..1 | scores accounted for by rates and events; the transactions provide what the leaderboard relies on |
| `leaderboard_fresh` | 1 player, 1 request, 2 reconcilers, `MaxAge` 2, clock 0..3, totals to 3 of which 2 has a score, 1 deletion | type, fresh pages, no inflation |
| `leaderboard_faults` | 2 players, 1 request, 1 reconciler, batches of 1, a restart of Redis or a clock set back, failing refreshes | fresh pages when staged batches are lost; the projection catches up and stays so |
| `leaderboard_detection` | 1 player | violated, see section 6 |
| `refresh_loop` | 3 commits | waits, shutdown and publication of the refresh loop |
| `bonus_queue` | 1 manual and 1 hourly job, 2 workers, 2 attempts, 1 stall, 1 completed job kept | accepted jobs are kept, retry budget, every job is completed or failed in the end |
| `bonus_queue_restart` | 1 manual job and 1 of another version, 2 workers, 1 attempt, a crash of Redis | paid once and completed means paid although writes are lost |
| `bonus_queue_reenqueue` | 1 manual job, 2 workers | violated, see section 6 |
| `rate_limit` | 3 addresses, windows of 3 ticks, limit 2, pruning at 2, 2 ticks to a second, time to 7, clock set back by 1 | the window's limit, bounded memory, honest `Retry-After` |
| `api` | 2 connections, 1 player, a pool of 1 | admins only, commits reported, nobody cut off, the pool never stuck, every client answered, shutdown ends |

Properties, by what could go wrong:

- Lost or doubled effects: `Conservation` (gold = earned - spent, rate = levels owned),
  `OneCommandPerLevel`, `NeverOverpaid`, `WithinNumeric`, `DraftsCurrent`, `LedgerSpec`, `PaidOnce`.
- Answers: `ReplyMatchesRecord`, `Permanent`, `CompletedPaid`, `AcceptedKept`, `CommitReported`,
  `RetryHonored`.
- Locks and pools: `LocksProtect`, `NoCircularWait`, `EveryEligiblePaid`, `TransactionsEnd`,
  `PoolNeverStuck`. `NoCircularWait` is the absence of deadlock: in every group of transactions
  there is one whose next statement waits for no lock of the group (`WaitsFor`). `TransactionsEnd`
  adds that nobody starves behind others who take the same lock again and again.
- Two stores: `ProjectionSound`, `ShownAccounted`, `NoInflation`, `FreshPage`, `CatchesUp`.
- The worker: `JobReflected`, `QuietStop`, `ShownAtLast`, `JobFinishes`, `ShutdownEnds`,
  `RetryBudget`, `JobsSettle`.
- The API: `EnqueueByAdmin`, `ServedWhileOpen`, `RequestsEnd`, `ShutdownEnds`, `WindowLimit`,
  `MemoryBound`.

Bounds and why they are enough.

- Two API connections are enough for every race between two purchases: a transaction only ever
  waits for one holder. Two workers with two occurrences, and two players to lock, are the least
  with which a cycle of waiters could form. The proofs of section 5 have no such bounds.
- In `economy_purchase` `MaxAmount` is 5 units, small enough that collections and bonuses overflow
  the column, `OfflineTicks` is smaller than the clock's range so that the clamp applies, prices are 1
  and 2 so that the player sometimes can and sometimes cannot pay, and levels stop at 2, so the
  cap is reached.
- In `economy_bonus` `MaxLevel` is 0: a purchase takes the same locks and is refused at the cap,
  which is what the bonuses have to get along with, and two bonuses of 1 fit the column. What
  purchases do to amounts is the other run's question.
- `backend` has one of everything, with amounts up to 2 and a clock of one tick: a purchase, a bonus, a
  synchronisation and a refresh are under way together, and the player earns from a rate, from a bonus
  and loses the row. Races within one store are the business of the other runs.
- `MaxClock` lets a marker expire and a snapshot of the previous age be published late. Readings
  of the database clock are arbitrary in `Economy`; in `Leaderboard` time passes by `Tick` and
  is set back only by the fault `"clock"`, because freshness assumes synchronised clocks
  (`README.md`, Leaderboard). Time stops at `MaxClock`: `CatchesUp` is about faults and ordering,
  not about whether a pass takes less than the 30 seconds that are left of the marker's age.
- In `leaderboard_fresh` totals reach 3 and scores only 2, so there is a total without a score,
  and with `Unit` 2 there are scores with and without a fraction. `MaxScore` and `MaxTotal` 0 in
  `leaderboard_faults` leave the members themselves as the only data, which is what a lost batch
  loses; one fault is enough for that, and for a marker from the future.
- `Attempts` 2 instead of 5, `KeepCompleted` 1 instead of 1000 and `MaxStalls` 1: the last retry,
  the pruning and the last stall all happen. `bonus_queue_restart` has one attempt, since retries
  do not depend on what Redis forgot.
- `RefreshLoop`: three commits are one before, one during and one after a pass.
- `rate_limit`: a window is longer than a second, so `Retry-After` rounds; three keys and pruning at
  two, so there are prunings that free something and prunings that do not; two windows of time and a clock set back
  once. `api`: two handlers and one client of the pool are the least with which a handler can
  wait for another's client; the proofs have no such bound.
- Symmetry is used for API connections, workers, keys, occurrences, requests, reconcilers and
  addresses, in runs without liveness properties only. Players of `Economy` are ordered and not symmetric.
- `RefreshLoop.cfg` and `Api.cfg` allow deadlock: the process has exited.

## 4. Fairness

- `Economy`: strong fairness of each connection's next statement. PostgreSQL queues the waiters
  of a lock in order, so a statement whose lock becomes free again and again gets it. Rollbacks
  and new requests are not fair: a transaction ends without the help of a crash.
- `Leaderboard`: weak fairness of a reconciler's steps (the timer starts a refresh every minute)
  and `OutagesEnd`: from some time on no refresh fails. Nothing is assumed of requests.
- `RefreshLoop`: weak fairness of the timer, of the loop, of the job and of the shutdown's steps;
  strong fairness of `Published` (not every pass fails) and `LastPass` (passes are shorter than the
  timer's interval, so some end without another request). Without the last assumption `JobFinishes`
  fails: requests that always arrive during a pass keep a waiting job waiting.
- `BonusQueue`: weak fairness of a worker that runs and of the check for stalled jobs; strong
  fairness of taking a particular job, since BullMQ serves jobs in order. Crashes, errors and
  stalls are unrestricted; the attempts and stalls of a job bound them.
- `Api`: weak fairness of each handler, since every await ends with a result or an error: the pool,
  Redis and the queue have timeouts (`src/db/client.ts:8`, `src/leaderboard/client.ts:7-12`,
  `src/world-events/queue.ts:22`), and the statements of a transaction end (`TransactionsEnd`).
  Strong fairness of `CloseIdle`: a client does not send requests over one connection for ever, and
  Node closes an idle one. Weak fairness of the two steps of the shutdown that follow the signal.
  Without the assumption about connections `ShutdownEnds` fails, because `server.close` waits for
  them without a limit.
- `RateLimit` has no liveness property: a middleware ends by itself.

## 5. Proofs

All proofs are checked by TLAPS. They hold for every value of the constants (sets of players, keys,
workers, addresses and connections, prices, rates, limits, attempts, windows, sizes) under the named
assumptions of the modules (`CatalogueAssumption`, `LedgerAssumption`, `NoCommandAssumption`,
`EconomyAssumption`, `LeaderboardAssumption`, `BackendAssumption`, `QueueAssumption`, `NoneAssumption`, `RateLimitAssumption`, `ApiAssumption`,
`RefreshAssumption`), which say that the constants are naturals, positive where the code divides or
counts by them, that the sets whose sizes are taken are finite, that different kinds of processes
differ and that the null values are none of the real ones.

The ledger. `LedgerInv` is inductive (`LedgerInvariant`). `Conservation` and `OneCommandPerLevel`
need nothing but types. `NeverOverpaid` needs `due[p].since <= resource[p].last`
(otherwise raising the rate could shorten the interval that is due), that an occurrence without a
row has paid nobody, and that accounts which do not exist were not paid; these are
`PaidWhenApplied` and `NothingLeftOver`. The arithmetic is in lemmas about `Credit`, `Collected`
and `DueAt`. `LedgerMonotone`, `LedgerPermanent` and `LedgerEarnings` (`Ledger` implements
`Authority`) follow from the invariant, one step per action.

The transactions. `EconomyInv` adds `TxTypeOK`, `LocksProtect` and `DraftsCurrent`.
`DraftsCurrent` is the heart: between its lock and its commit, what a purchase has read, decided
and written is still exactly right for the *committed* row. It is inductive only together with
`LocksProtect`, which says that nobody else can change that row, and it makes the refinement easy:
a commit installs a draft that equals the serial outcome on the current row. The proof is cut along
two predicates, so that not every action has to be compared with every transaction: `Only(d)`, a
step touches the control state of no transaction but `d`, and `Spares(d)`, it changes no row that
another transaction has locked. The lemmas `PurchaseKept` and the like show once that such a step
preserves what the invariant says of the others; each action then has to be shown to satisfy
`Only` and `Spares` and to establish the invariant for its own transaction.

The answers. `AnswerInv` remembers on top of that what a finished request was told (`AnswerRecorded`; it stays true
because saved commands are permanent while the account lives) and what an award has done so far
(`AwardComplete`): whoever is eligible is still on its list, locked by it, or deleted. At the commit the list is
empty, so the rows locked are the eligible ones that are left (`LockedAreEligible`), and only the owner of an occurrence
can commit it (`AppliedByCommit`).

Who waits for whom. `OrderInv` says what the order of the statements makes of the locks: who holds a row
has the key and waits for nothing more, who holds a key waits for a row at most (`LocksInUse`), and a
bonus that waits for a row holds only rows of smaller player ids (`Ascending`). So along two steps of
a chain of waiters the lock that is waited for moves up, from keys to rows and from row to row
(`Later`, `HolderIsLater`). A closed group, in which everybody waits for a member, would contain a
smaller closed group: those later than one of them (`NoCircle`). Among finite groups there is a
smallest (`SmallestMember`), so there is no closed one. That is an induction over the size of a group
that the provers can do, because it is stated as a least element of a well-founded order
(`WFMin` over strict inclusion) and not with an induction theorem that takes a predicate.

The projection. `LeaderboardInv` says two things of every set of scores there is: the one readers
see, the one on disk, the snapshot of each reconciler, and (the first thing) the total in the hands of each
request. It is `Below` the rows, so that installing it cannot inflate anybody; and it `Covers` the
moment its start time names: it shows at least what the rows were at the ticks that began since. Both survive
whatever the database does, because rows only grow and the deleted do not come back (`Grows`), and both survive a restart of Redis, because the copy on disk has them
too. A tick shifts the window and the distance to the start alike (`CoversTick`). That a published set
is the whole snapshot needs a count: the temporary set is part of the snapshot and as large
(`CompleteFacts`). After the clock was set back a start time means nothing, and `Dated` claims nothing;
`Below` still holds. Amounts enter by two facts: a text and its score are the same number
(`TextFacts`) and the order of texts is the order of numbers (`TextMonotone`).

The projection is proved over its own simple database and over any other that keeps the promise of
`Authority`: in `OpenSpec` PostgreSQL takes any step that `AuthorityNext` allows, many rows at once and by
any amounts. The same invariant holds there (`OpenNothingInflated`, `OpenPagesFresh`), and `LeaderboardAuthority` shows
that the steps TLC uses keep the promise too.

The whole. In `Backend` the promise is kept by the real transactions. `TransactionAuthority` shows, from
`EconomyInv`, that whatever a statement, a commit or a rollback does is a step of `AuthorityNext` through `Earned` and
`Gone`; so `BackendSpec` implements `OpenSpec` (`BackendRefines`) and the theorems about the projection, cited
through an instance of `LeaderboardProofs`, hold of the backend. The constants' assumptions of that
instance are themselves proved (`ConstantsFit`). `EverythingAccounted` uses both invariants at once: a score
is at most the committed earnings (`LeaderboardInv`), and those are accounted for (`NeverOverpaid`).

The delivery. `QueueInv` says of every job what its state implies (an unsettled job has an attempt and
a stall left, a completed one was paid, a failed one has used them up), and says it of the job's
copy on disk as well: a crash of Redis installs that copy, so the invariant would not be inductive
for `queue` alone. The copy stays good because payments are never taken back. A worker that has
applied a bonus knows it paid, whether it still holds the job's lock or not (`GoodWorkers`); that is
why a late completion cannot be wrong.

The limiter. `RetryHonored` follows from `PromisesCover` (no bucket ends later than its refused client was
told) and rounding up. `MemoryBound` needs `AllStarted`: while the clock is not behind, every
live bucket began with a request that passed, and `recent` still remembers it. `WindowLimit` needs to know
what passed before a bucket as well, `HistoryInv`: of any last `i` ticks at most `Limit` requests precede
the current bucket of a key, the others are in its count (`Rationed`, `Covers`), and as soon as the
bucket is `i` ticks old its count is all there is. A bucket that is replaced or pruned has lasted a window,
so its key has room for a whole limit again (`FreshRoom`); a clock that is set back only makes
buckets last longer. `recent` keeps sums instead of single ticks, so that no step has to add up
a window.

The API. `ApiInv` reads what a handler holds off the await it is at: a client of the pool during a
transaction and only then (`ClientsHeld`), a commit that is not yet reported between the COMMIT and the
answer (`CommittedSteps`), and the routes only visit the awaits of their kind (`RouteSteps`).
`PoolNeverStuck` is a consequence: who holds a client is not about to ask for another. `NobodyWaits`
says that after the drain there are no connections with a client behind them. Two lemmas, for
a step that answers and one that does not (`AnswerStep`, `MoveStep`), carry the seventeen actions.

The worker. `JobReflected` needs `WaitCovered`: while a job waits and the worker is not closing, a loop
is running that either has read the job's commit or has been asked for another pass.

| Theorem | States |
| --- | --- |
| `EconomyInvariant` | `Spec => []EconomyInv` |
| `TypeCorrect` | `TypeOK` |
| `LockSafety`, `NoLostUpdate` | `LocksProtect`, `DraftsCurrent` |
| `Serializable` | `Spec => LedgerSpec`: interleaved statements and rollbacks have only serial effects |
| `GoldConserved`, `ExactlyOnce`, `FairPay`, `NoOverflow` | the four invariants of the ledger, for the transactions |
| `EconomyMonotone`, `EconomyPermanent`, `EconomyEarnings` | the action properties and `EarningsReported` (the economy implements `Authority`), by way of `Serializable` |
| `AnswerInvariant` | `AnswerInv` |
| `RepliesHonest`, `NobodyForgotten` | `ReplyMatchesRecord`, `EveryEligiblePaid` |
| `OrderInvariant`, `NoDeadlock` | `OrderInv`, `NoCircularWait` |
| `LeaderboardInvariant`, `LeaderboardTypeCorrect` | `LeaderboardInv`, `TypeOK` of `Leaderboard` |
| `NothingInflated`, `PagesFresh` | `NoInflation`, `FreshPage` |
| `OpenNothingInflated`, `OpenPagesFresh` | the same of `OpenSpec`, over any `Authority` |
| `LeaderboardAuthority` | `Spec => AuthoritySpec` of `Leaderboard` |
| `BackendRefines` | `BackendSpec => ProjectionSound` |
| `BackendNothingInflated`, `BackendPagesFresh` | `NoInflation`, `FreshPage` of the leaderboard in `Backend` |
| `EverythingAccounted` | `ShownAccounted` |
| `QueueInvariant`, `QueueTypeCorrect` | `QueueInv`, `TypeOK` of `BonusQueue` |
| `BonusPaidOnce`, `CompletionMeansPaid`, `AcceptedNotLost`, `NoEarlyFailure` | `PaidOnce`, `CompletedPaid`, `AcceptedKept`, `RetryBudget` |
| `LimiterInvariant`, `LimiterTypeCorrect` | `LimiterInv`, `TypeOK` of `RateLimit` |
| `RetryAfterSuffices`, `BucketsBounded` | `RetryHonored`, `MemoryBound` |
| `HistoryInvariant`, `WindowRespected` | `HistoryInv`, `WindowLimit` |
| `ApiInvariant`, `ApiTypeCorrect` | `ApiInv`, `TypeOK` of `Api` |
| `AdminsOnly`, `CommitsReported`, `NobodyCutOff`, `NoPoolDeadlock` | `EnqueueByAdmin`, `CommitReported`, `ServedWhileOpen`, `PoolNeverStuck` |
| `RefreshInvariant`, `RefreshTypeCorrect` | `RefreshInv`, `TypeOK` of `RefreshLoop` |
| `NothingAfterStop`, `JobsReflected` | `QuietStop`, `JobReflected` |

Every invariant and every action property that a passing run checks is a theorem. Liveness
(`TransactionsEnd`, `CatchesUp`, `ShownAtLast`, `JobFinishes`, `ShutdownEnds`, `JobsSettle`,
`RequestsEnd`) rests on fairness, which is out of the prover's reach, and stays with TLC.

## 6. Where code and documentation disagree

- `leaderboard_detection`. `docs/invariants.md:40` says that scores above the largest exact one
  "invalidate the projection by design". The synchronisation that meets such a total deletes the
  marker, but a refresh that read the rows before the total was reached may publish afterwards: the
  script sees no marker and sets a new one. Until the next refresh reads the large total the
  projection is served, with the player's earlier score. `FreshPage` still holds: the page is no
  older than its marker says.
- `bonus_queue_reenqueue`. `docs/failures.md:31` advises to "Re-enqueue with the same occurrence ID"
  a job that has used up its attempts. The id of the job is the occurrence's
  (`src/world-events/queue.ts:33`), failed jobs stay in Redis (`queue.ts:9`), and BullMQ ignores an
  addition under an id it has: the admin gets 202 and the bonus is never paid.

One more divergence shows without a run. `docs/architecture.md:29-31` and `README.md:84-85` give the
limits of `/player` and `/leaderboard` per player. The limiters are mounted in front of the routers
(`src/app.ts:73-75`) and the routers authenticate, so `req.auth` is not set when `playerOrIpKey` runs (`Arriving`
in `RateLimit`): all players behind one address share one bucket.

No disagreement, but worth knowing: `server.close` waits for connections, not for handlers. The handler
of a client that has gone may still run when the pool and Redis close, and then fails with nobody to
tell. The model contains it (`conn[s] = "gone"`), and no document promises otherwise.

## 7. What is not modelled

- The ranks within a page of the leaderboard and the order of ties. The digits of amounts in the
  economy are integers of the smallest unit.
- Password hashes: a verification has either result. Signatures of tokens: a token is valid or
  expired.
- The limiter's memory across restarts and between several API processes: each process starts with
  empty buckets and counts for itself. A clock that gains time.
- The wait of the rebuild command for its connection to Redis; its reconciliation is one of the
  `Reconciler`s.
- HTTP validation beyond "400", logging and request ids, configuration, migrations, scripts,
  containers: no state, or none that a property tells apart.
- PostgreSQL, Redis and BullMQ beyond the contract stated in the modules: PostgreSQL loses no
  commit, Redis executes commands one at a time and may restart from a stale file, BullMQ hands a
  job to one lock holder at a time.

## 8. Plan

Done, in this order: `Catalogue`, `Ledger`, `Economy` (the money), `LedgerProofs`, `EconomyProofs`,
`Authority`, `Leaderboard` (with the score conversions), `RefreshLoop`, `BonusQueue`, `RateLimit`,
`Api`, the proofs of the last five, what clients are told and whom a bonus pays, the proofs of
`WindowLimit` and `NoCircularWait`, the projection over any `Authority`, `Backend` with its proofs.

Left: `BonusQueue` and `RefreshLoop` over the same shared state (a bonus from its acceptance to the page that
shows it).
