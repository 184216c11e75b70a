# Baskfy: formal models of the trading desk and its worker

Baskfy is a portfolio and trading platform: a nightly worker computes rankings,
regimes and plans, a public API and a web front end show them, and a *desk*
process turns approved plans into orders at a broker (Zerodha Kite). The Rust
crates under `src/rust/crates` are the program; the Python tree under
`src/decile-blueprint` is the original they port. What can lose money lives in
`baskfy-desk/src/lanes`: the risk ledger, the order gateway and the stops
(`exec_core`), and the lanes that keep a sleeve's book, of which TWT is modelled.
What can lose work lives in `baskfy-worker`: the message queue and the nightly
chain. This project models these.

- [1. Inventory](#1-inventory)
- [2. Plan](#2-plan)
- [3. The modules and the code](#3-the-modules-and-the-code)
- [4. Runs](#4-runs)
- [5. Proofs](#5-proofs)
- [6. Where the code and its documentation disagree](#6-where-the-code-and-its-documentation-disagree)
- [7. What is left out](#7-what-is-left-out)

To check: `tlc -config RiskDay.cfg MCRiskLedger` (and so on for each row of
section 4) and `tlapm RiskLedgerProofs.tla` (and so on for each `...Proofs` module of
section 3).

## 1. Inventory

### The parts of the execution core

| Component | State it keeps | Operations | What makes it correct |
|---|---|---|---|
| Risk ledger (`risk.rs`) | one `risk_ledger` row per IST day in the database; in each process an in-memory copy `{day, orders_today, killed, positions}` | `new`, `pre_order`, `kill`, `on_pnl`, `release`, `seed_positions`, `refresh`, `kill_switch_reason` | however many processes run, one day's headroom is spent once; a halt reaches everybody and lasts the day |
| Order gateway (`order_gateway.rs`, `journal.rs`) | `sent`: client id → PENDING, DRY, order id; an append-only journal file | `place`, `cancel_order`, replay at construction | one order per client id, over twins, retries, lost replies and restarts |
| Stops (`order_gateway.rs`, `gtt.rs`) | `gtt_sent`, the tick sizes, the same journal; the broker's triggers | `place_gtt_stop`, `modify_gtt_quantity`, `delete_gtt` | one trigger per client id; what rests is a stop; a trail is never lowered; no stop is removed during a halt |
| Gateway construction (`desk.rs`, `exec_core.rs`, `twt.rs`, `swing/gateway.rs`) | the process's gateway and risk manager; a cache of sleeve gateways | build, derive a sibling, look up | everybody who trades one book shares one idempotency map and one ledger |
| Guards (`guards.rs`, `exec_guards.rs`) | none | untouchables, products, overnight options, tenants | pure |
| Rate limits (`ratelimit.rs`, `kite_limits.rs`) | timestamps per bucket | `order_slot`, `api_slot` | the account's limits hold, and everybody is served |
| Kite client, token store | session token | HTTP requests with a timeout | bounded waits; an outcome is a success, a definitive refusal or unknown |
| Lifecycle (`lifecycle.rs`, `exit_rules.rs`) | positions adopted and closed | adopt, arm, exit | a held position has a stop |
| TWT lane (`twt/execute.rs`, `twt/store.rs`) | plan lines, orders, positions, fills, a session row per day in the database; orders and triggers at the broker | confirm a line (buy, sell, arm, raise), `on_order_update`, `rearm_gtt`, `sweep_naked`, `reconcile_gtts` | every share is booked once; what rests at the broker is what the book names; a stop never falls |
| Task queue (`runtime/consumer.rs`, `celery.rs`, `beat_daemon.rs`) | Redis: lists, the `unacked` hash and index, a mutex, results | pop, record, run, answer, acknowledge, retry, restore, sweep, shut down | a message is in one place, is kept until it was settled, and is settled |
| Nightly chain (`nightly.rs`, `ops.rs`, `orchestrator.rs`, `steps*`, `catch_up.rs`, `tasks/pipeline.rs`, `checks.rs`) | `pipeline_run` rows, an advisory lock, the calendar, the screen cache | begin, abort, gate, publish, purge, warm, fail, probe and demote, catch up, reap | one data_version per publication, never taken back; the cache shows what was published; every session is decided |
| Other sleeve lanes (weekly, TWT's scan, VBT, swing, F&O, options) | plans, lines, orders, positions, fills in the database | execute a line, monitor fills, arm / resize / move stops, exits | a line is executed once; fills are booked once; every open position is protected |
| Session supervisor, service loop | token mtime seen, last reconcile, last drain | `tick`, `on_login`, `reconcile`, `drain` | a login seeds the ledger before orders; loops keep running |

Around it: the providers (circuit breaker, retry, rate limiter, token cache), the
public API (idempotency keys, sessions, rate limits), the analytics pages, the core
numerical library, storage and test kit. `PROJECT.json` lists all of them with
their sources and whether they are modelled.

### How they interact

A lane calls the gateway. `place` runs the guards, asks the risk layer
(`pre_order`), looks the client id up and reserves it, waits for a rate slot, and
then either simulates (DRY_RUN) or sends and journals the outcome. A stop runs
the guards, reads the kill switch, reserves its own client id, waits for a slot,
fetches the tick size, rounds, checks again, sends, journals. Several
*processes* (the desk, the swing monitor, twt-auto, the session supervisor) each
hold a `RiskManager`; they meet only in the database row, which each operation
takes `FOR UPDATE`. Within a process requests run concurrently on a
multi-threaded runtime, sharing the gateway's maps under async mutexes. The
journal is private to a gateway and is replayed when one is built.

The TWT lane runs in two places: the owner's confirm (and the chores that re-arm a
stop) in the desk's web process, and the reports of orders in the session
supervisor's pass. They meet in the database, where each holds a `tw_session` row
`FOR UPDATE NOWAIT` for its whole transaction, and at the broker, which no
transaction rolls back.

The worker's processes meet in Redis, one command or script at a time, and in
PostgreSQL under READ COMMITTED. Beat and the API publish messages; a consumer pops
one, records it, runs its body (among them the nightly chain and the catch-up),
stores the result and acknowledges. The chain runs in one transaction under an
advisory lock that is tried and never waited for; it publishes by writing a
data_version into its `pipeline_run` row, and fills the cache the API reads before it
commits.

### What is hard

* **Interleaving.** Twins with one client id; several processes on one row; a
  cache that is looked up and filled under two separate locks.
* **Dropped calls.** A client that hangs up drops its handler at an await: a
  reservation stays, a transaction stays open on a pooled connection.
* **Unknown outcomes.** A COMMIT or an order whose answer never arrives.
* **Crashes and restarts** between the exchange's acceptance and the journal
  line, in the middle of a line, in the middle of a day.
* **Midnight.** The row is named by one reading of the clock and the day is
  rolled by another; the first operation of a day sees yesterday's memory.
* **Values read before a wait and used after it**: the kill switch, the floor of
  a trail.
* **Rounding** a checked price to a coarse tick.
* **Two commands where one was meant**: pop and record, look and acknowledge, read a
  status and update it, cancel a stop and arm another.
* **Effects a rollback does not undo**: orders, triggers and cache entries.

Each of these is a hazard in `PROJECT.json`, at its line, with the properties
that would catch it.

## 2. Plan

Done, in this order: `AccountRisk`, `RiskLedger`, `OrderGateway`, `GttGateway` with
their proofs; `TaskQueue`, `NightlyPipeline`, `TwtBook`, and then theirs.

Next:

1. **`SessionSupervisor`**: `tick`, `on_login`, `seed_positions`, `reconcile`,
   `drain`, with a token that changes and calls that fail. Properties: a session
   that authenticates is eventually seeded; no drain before a login. Composed with
   `AccountRisk`.
2. **VBT and F&O stops**, as `TwtBook` does it: VBT arms without a client id and
   moves a stop by deleting first; F&O records a paper handle for a pending id.
3. **`KiteLimits`**: the buckets and the spacing, one limiter per gateway, against
   an abstract account-wide limit.
4. **`OrderGuards`**: the covered-overnight-option and product rules as operators,
   against a reference definition.
5. **`Circuit`** (breaker and retry), **`ApiIdempotency`**.

Abstract specifications worth stating: `AccountRisk` (done); *one order per client
id* for a lane composed with `OrderGateway`. Every safety property of a passing run is
now a theorem; further theorems come with the modules above.

## 3. The modules and the code

```
AccountRisk  <--refines--  RiskLedger     MCRiskLedger     RiskLedgerProofs
     ^
     | INSTANCE (the risk layer)
OrderGateway               MCOrderGateway                  OrderGatewayProofs
GttGateway                 MCGttGateway                    GttGatewayProofs
TwtBook                    MCTwtBook                       TwtBookProofs, TwtStopProofs
TaskQueue                  MCTaskQueue                     TaskQueueProofs
NightlyPipeline            MCNightlyPipeline               NightlyPipelineProofs
```

### AccountRisk

What the risk layer promises: one account, orders spent per day against a cap,
notional per symbol against a cap, and a halt. Five lines of behaviour: an order
is allowed (`AllowBuy`, `AllowSell`), headroom comes back (`GiveBack`), the day is
halted (`Halt`).

### RiskLedger

`RiskManager` over `PgRiskStateStore`. Each process is `down`, `idle`, waiting for
the row (`wait`) or inside the locked section (`held`). An operation is three
steps: `Begin` (connect, BEGIN, read the date that names the row), `Acquire`
(INSERT ... ON CONFLICT, SELECT ... FOR UPDATE, reload over memory) and the
operation's own action, which rolls the day, runs its body, saves and commits.

| Model | Code |
|---|---|
| `row[d]` | the `risk_ledger` row of day `d`; `written` is false while the row carries only its day |
| `inner[p]` | `RiskManager.inner`; a failed or unheard-of COMMIT does not undo it |
| `out` | COMMIT answered (`ok`), failed, done but unanswered (`unacked`), or the caller dropped before or after it |
| `stuck` | days whose row is locked by a transaction nobody owns any more |
| `Reload` | `PgTxn::load` answers None for an unwritten row, and `reload` then keeps what memory held |
| `Refresh` | commits first, then rolls outside the lock, where the shared store refuses to save |
| `Kill` | does not roll |
| `accepted`, `exposure`, `lossHalted`, `killHalted` | history: what callers were told |

Left out: `reasons` and `day_pnl` (nothing decides on them); per-process caps (each
process computes its caps from NAV once; the model gives all the same); the file
and in-memory backings, which serve one process.

### OrderGateway

`OrderGateway::place`, cut at its awaits: `Submit` (guards pass), `RiskAccepts` /
`RiskRefuses` / `RiskFails`, `Reserve`, `DryRun` or `Send`, then the reply
(`Placed`, `Rejected`, `Error`). `Drop` abandons a call at an await, `Crash` and
`Boot` restart the process. The fate of a request is fixed when it is sent
(`accepted`, `refused`, `lost`) and `Error` may follow any of them: a lost reply.
A journal append succeeds, fails, or leaves half a line (`torn`), after which
`replay` fails and no gateway is built. `Prebuilt` chooses between the desk's own
gateway, built with the process, and a sleeve's, which the first call that finds
none builds (`Build`): the look-up and the push hold the cache's mutex
separately, so two calls can build one each.

DRY_RUN is fixed for the life of a process (the settings store refuses to change
it at run time), so `live` is chosen at `Boot`. The risk layer is `AccountRisk`,
which `RiskLedger` is shown to implement.

### GttGateway

`place_gtt_stop`, `modify_gtt_value` and `delete_gtt_value` for one instrument, with
prices in paise. It differs from `place()` where the code does: the kill switch is
noted and not obeyed (a note that cannot be written ends the call), `delete` does
obey it, nothing is spent, a dry run journals before it settles, and *every*
failure (tick lookup, second check, broker) keeps the client id reserved. `ToTick`
is the code's rounding, ties to even; `IsStop` is `refuse_stop` for a positive
quantity. `book` is the broker's triggers, with the last price each was checked
against. The broker may accept without naming a trigger id; the `gtt_placed` line
that follows is then one that `replay` recovers nothing from.

### TwtBook

The TWT sleeve's book of one position: a plan with a buy, a sell, an `ARM_GTT` and two
`RAISE_GTT_STOP` lines.

| Model | Code |
|---|---|
| `line`, `row`, `pos` | `tw_plan_line.state`; `tw_order` and the exit order; `tw_position` (`entered`, `open`, `closed`, the trigger's id and level, the recorded stop) |
| `lock` | the `tw_session` rows; `PlanRow` is the row the plan's date names, a report always takes today's |
| `op[p]` | the handler of process `p` between two calls of the broker: its report, the order as it was read, its copy of the position with the columns it wrote |
| `key` | client ids of stops: reserved for the life of the process, or journalled |
| `ord`, `gtt` | the broker: orders that fill a share at a time or die, triggers that rest |
| `stray` | history: triggers a failed call, a lost reply or a death has left unaccounted for |

`Confirm` and `Refuse` are `execute_line` up to its first call; `Place`, `CancelOld`, `Arm`
are the calls; `ReadReport` is the pass reading the order book, `ApplyBuy` and
`ApplySell` are `on_order_update` under the row, `CancelClosed` and `Resize` its calls;
`Commit` is the end of the transaction (`Merged` writes only the columns the handler
named); `Rearm` and `Attach` are the chores; `Die` rolls one process back.

### TaskQueue

A step is one Redis command or script. `Pop`, `Append`, `Refuse`, `AwaitEta`, `EndEta`,
`Expire`, `Begin`, `EarlyAck`, `StoreGet`, `StoreSet`, `Dispatch` are `process`; `Returned`,
`Failed`, `Raised`, `Retry`, `Lost`, `Ack` are `finish`; `RestoreGet`, `RestoreRun`,
`RestoreAck` are `restore_by_tag`, started by a sweep (`Sweep`), by a lost body or by a
warm shutdown. `queue` is a bag of copies (which list or priority a copy is in
decides nothing here); a copy is `again` when it was restored, because the script
compares what is stored with what was read. A record's age is a choice: old when no
process has the delivery any more, or, as a fault, when a body or an ETA outlived the
visibility timeout. Each command may fail, and what the code then does is the other
disjunct of the action. `exposed` and `doubled` name the windows the properties
except; both are filled only at the step that opens the window.

### NightlyPipeline

A step is a SQL statement others see, a commit, or a cache command. A process is
started by Beat (`Beat`), by hand with a date (`Ask`) or by the catch-up (`CatchUp`,
`NextDay`), takes over or inserts a row (`BeginRun`, `InsertRun`), tries the lock
(`StartChain`, `Abort`), refuses or passes the gate, publishes (`Publish`, `Purge`, `Warm`,
`Commit`) or is rolled back (`Raise`, `FailRead`, `FailRun`, `Die`), and a sweep probes a day
that did not publish (`Probe`). `ReapList` / `Reap` are the reaper, `ScreenBegin` /
`ScreenEnd` an API request. `run[i].version` is what is committed; a chain that has
published and not committed keeps its version in `proc[p].version`. The cache entry of
a version is `own` when its figures are those of the chain that publishes the
version, `other` when they are anybody else's: a chain's that was rolled back, or a
request's that read the version before a publication and the data after it.

## 4. Runs

| Run | Config | Checks | States | Result |
|---|---|---|---|---|
| `risk_day` | `RiskDay.cfg` | `TypeOK`, `OrderCapRespected`, `PositionCapRespected`, `EveryoneIsAnswered` | 83,000 | hold |
| `risk_roll` | `RiskRoll.cfg` | `OrderCapRespected`, `LossHaltHolds`, `ActsAsOneAccount` | 1,313,379 | hold |
| `risk_kill_first` | `RiskKill.cfg` | `KillHolds` | | violated |
| `gw_desk` | `GatewayDesk.cfg` | `TypeOK`, `NoDoubleSend`, `PlacedIsReal`, `WireWithinCap`, `JournaledNeverResent` | 69,842 | hold |
| `gw_sleeve` | `GatewaySleeve.cfg` | `WireWithinCap`, `EveryCallIsAnswered` | 14,298 | hold |
| `gw_restart` | `GatewayRestart.cfg` | `RestartNeverResends` | | violated |
| `gtt_stops` | `GttStops.cfg` | `TypeOK`, `OneTriggerPerId`, `RestingIsAStop`, `FloorKept`, `JournaledNeverRearmed` | 856,902 | hold |
| `queue_races` | `QueueRaces.cfg` | `OneToken`, `KeptUntilDone` | 659,907 | hold |
| `queue_live` | `QueueLive.cfg` | `TypeOK`, `EarlyRunsOnce`, `EverythingSettles` | 210,678 | hold |
| `nightly` | `Nightly.cfg` | `TypeOK`, `VersionsUnique`, `ServedIsPublished`, `PublishedForGood`, `EverySessionDecided`, `EveryRunEnds` | 352,000 | hold |
| `twt_day` | `TwtDay.cfg` | `TypeOK`, `SharesAddUp`, `StopsMatchBook`, `NamedStopRests`, `StopNeverFalls`, `EveryFillBooked` | 521,426 | hold |
| `twt_rows` | `TwtRows.cfg` | `StopsMatchBook` | | violated |

What they show, beyond the one-line descriptions in `PROJECT.json`:

* **The row is a real lock.** No crash, failed commit, unanswered commit or dropped
  caller lets two processes spend the same headroom, and the whole of them acts
  as the one account of `AccountRisk` (within a day, and over a midnight that no
  operation straddles).
* **A reservation is enough within a life.** Twins, retries and lost replies never
  put two orders, or two triggers, of one client id at the exchange while one
  gateway lives; the journal carries what it has recorded into the next life.
* **The queue is safe where it is atomic.** The restore script, run by any number of
  sweeps, shutdowns and lost bodies at once, neither loses nor copies a message. The
  windows that remain are the two of `exposed`, and the run shows there are no others.
* **A publication is for good.** Whoever aborts, fails or reaps the row of a chain that
  publishes changes its status and never its version; two chains cannot take one
  version, since the lock is released only with the commit; and because every chain
  purges before it warms, figures of a rolled back chain are gone before its number
  is published again.
* **The TWT book adds up** through partial fills, repeated reports and deaths, as long as
  confirm and report take the same row; when the plan is dated an earlier day they
  do not (`twt_rows`).
* **Rounding is safe.** The second check after rounding is needed (its mutant is
  caught); the floor needs no second comparison, because rounding is monotone.

### Bounds

Two processes, one symbol, and limits of one or two are enough for a second
claimant of the last unit of headroom. In `risk_roll` `LastDay = 1` is one midnight; in `risk_day` `Values = {1}` against
`PosCap = 1` lets one order fill the cap and a second exceed it; `LastDay = 1` is one midnight. A gateway run has two calls: a call and its twin,
and as many instances as they can build. `MaxLives = 2` is one restart, `MaxOrders` is small enough to be used up by calls that return and
are made again, `MaxTriggers` leaves room for the trigger that
must not be created. `Tick = 2` with the
requests of `MCRequests` has a trigger that stays (2 below 4), one that rounds up to
the last price and is refused (3 below 4), and one that rounds up and still is a
stop (3 below 5).
`queue_races` has two processes, a late task and an unregistered one, and three faults:
enough for a sweep that outlives its mutex against a second sweep and a delivery.
`queue_live` has one process whose single permit two deliveries compete for, and one
retry. `nightly` has two days, one a session only the calendar believed in, two
processes, and two faults, so that a chain can be rolled back or overlapped and then
overlapped or rolled back again; two faults can use all six rows, but no
process is ever left before an insert without one (checked as an invariant of the same
instance). `twt_day` buys three
shares and sells two, so that the buy grows, the sale is partial and a stop is
resized both ways; two raises give a stop to replace and one to fail; `BuyQty` 2 with
two faults (1,462,000 states) has been checked as well. `MaxFaults` bounds what goes
wrong, never what the code does.
The proofs of section 5 remove these bounds for the properties they cover.
Processes and calls are interchangeable, so the safety runs use symmetry; the
liveness runs do not.

`CHECK_DEADLOCK FALSE` is set where the system may really stop: the bounded clock
has run out, or the process is down for good.

### Fairness

* `SF(Acquire(p))`: the database queues waiters for a row lock and grants it in
  turn.
* `WF(Operation(p))`: a transaction that has the row runs to its end; nothing in it
  waits for another process.
* `WF(Unstick(d))`: the connection pool closes an abandoned connection after its
  idle time or its maximum lifetime.
* `WF(Progress(r))` in the gateway: the risk store, the rate limiter (first come,
  first served) and the HTTP client (which has a request timeout) all answer, if
  only with an error.

* `TaskQueue`: `WF(Deliver(j))` and `WF(Restore(j))`, every command returns and a body
  ends (its time limit sees to it; that it raises and is retried is not forced);
  `WF` of some `Pop` and some `Sweep`: the loop polls and sweeps every tenth poll;
  `WF(MutexExpires)`: the key has a time to live; `WF(Restart)`: the worker is run by a
  supervisor.
* `NightlyPipeline`: `WF(Work(p))`, statements and lock waits end; `SF` of some `CatchUp`
  and `WF` of the reaper: Beat fires both again and again, and a catch-up that finds
  another process at work comes back (a strong fairness: it is offered whenever the
  others are idle).
* `TwtBook`: `WF` of a handler's own steps, of the pass (every tick) and of the broker
  filling or ending a market order.

No owner is obliged to confirm a line, no process to start an operation and no client to call.

## 5. Proofs

All theorems hold for every value of the constants that satisfies the named
assumptions in the modules.

**RiskLedgerProofs.** `TypeCorrect`: `Spec => []TypeOK`. Under `~MidnightRace` (no
operation straddles midnight; without it the properties are false, see
section 6): `OrderCap`, `PositionCap`, `LossHalt`, and `OneAccount`, the
refinement `Spec => Account!Spec`. `OrderCapRespected` is not inductive: what was
accepted has to be related to what the *next* decision will read. The inductive
invariant `LedgerInv` has two parts. `Serial`: every open transaction is about
today's row, at most one process is inside the locked section, and if the row is
written, what that process holds in memory is what the row says. `Covers(d)`: once
the row of day `d` is written under its own day, it counts at least every
accepted order, carries at least the acknowledged exposure and is killed if a
loss halt was acknowledged; until then nothing at all has been acknowledged on
`d`. The second half is what the subtle cases need: a row that carries only its
day, over which `reload` keeps whatever memory held, and a row that `kill()` wrote
under yesterday's date. Both are safe for the caps and the loss halt because
nobody has been promised anything yet.

**OrderGatewayProofs.** `TypeCorrect`; `WireCapped`: `Spec => []WireWithinCap`, for any
number of instances, by counting: requests sent plus calls that have paid and not
yet sent never exceed the orders spent (`PaidFor`). Under `Prebuilt`: `NeverTwice`
(`NoDoubleSend`) and `JournalHolds` (`JournaledNeverResent`). Their invariant
`DeskInv` says that all calls use the one instance (`OneInstance`), a pending id has
exactly one owner (`OneOwner`), an id that is free, or reserved by a request that
was not accepted, has nothing at the exchange from this life (`NotYetPlaced`), and
what the journal has settled the map remembers (`Remembered`). Without `Prebuilt` the
first of these, and the theorem, fail (section 6). `DuplicateTellsTruth`
(`PlacedIsReal`) needs no `Prebuilt`: its invariant `TruthInv` follows the claim "this
order was accepted" through every place that holds it, a call at the wire that will
learn it, the journal, and each instance's map, and rests on what the exchange
accepted staying accepted (`AcceptedStays`).

**GttGatewayProofs.** `TypeCorrect`; `AlwaysAStop` (`RestingIsAStop`); `TrailKept`
(`FloorKept`), from `ToTickMonotone`, which is proved for every tick size from
division with remainder; `OneTrigger` (`OneTriggerPerId`) and `LinesHold`
(`JournaledNeverRearmed`) from `IdInv`, the counterpart of `DeskInv` for stops.

**TwtBookProofs.** For any plan and any number of faults, whichever session row the
plan's date names: `TypeCorrect`, `SharesCounted` (`SharesAddUp`) and `StopKept`
(`StopNeverFalls`). `SharesAddUp` speaks of what is committed; the inductive
invariant `BookInv` has to speak of what each handler is about to commit. `Merged`
(the position if the handler committed now) must add up with the order row that is
committed with it (`PassAddsUp`), which needs that the report and the row the pass
read are still current (`PassSound`: nobody else writes the row of an order that is
SENT or PARTIAL), that a confirm writes only columns of the stop (`Shapes`), that
a proposed line has no order row yet (`LinesFirst`), that the broker never fills more
than was asked and a sale was confirmed against shares that were there
(`OrdersSound`). `StopInv` adds `Levelled`: a naked position has no level; a confirm
that will raise the stop raises it above where the pass may leave it meanwhile; a
report that arms a stop arms it where it was, and one that takes it away closes the
position. This one has to hold although, with an earlier `PlanRow`, both
processes hold a copy of one position at the same time.

**TwtStopProofs.** `StopsMatched` (`StopsMatchBook`) and `NamedStopsRest`
(`NamedStopRests`), under `PlanRow = "today"`; with an earlier row the first is false
(`twt_rows`). Both speak of a quiet book. `StopsInv` says what happens while somebody
works: a confirm or chore and a report that is being applied exclude each other
(`Alone`), so the copy of the position a handler holds is the committed one
(`WebHolds`, `PassHolds`); and of the one at work (`Matched`) nothing unaccounted for
rests when it arms, what rests when it commits is what it commits, and at *every*
point, if it died now, what rests would be what was committed, but for the triggers
it armed and moved, the ones `Die` puts into `stray`.

**TaskQueueProofs.** For any number of processes, slots, tasks, retries and faults:
`TypeCorrect`, `OnePlace` (`OneToken`), `NothingLost` (`KeptUntilDone`) and `StartedOnce`
(`EarlyRunsOnce`). The first three need `QueueInv`: what is past the last tag has
neither a copy nor a record (`Fresh`; else a publication could meet a leftover), a
restore that reached the script has read a record (`SeenReal`), a retry is left
where one is asked for (`RetryLeft`). `OneToken` and `KeptUntilDone` are inductive only
together. `StartedOnce` needs more (`StartInv`): a message nothing went wrong with is
in at most one pair of hands, and in none while it is in the lists (`HeldOnce`), and
the record of a task without acks_late is gone before its body is started and never
comes back (`AckedFirst`).

**NightlyPipelineProofs.** For any number of processes, days, rows, versions and
faults: `TypeCorrect`, `NeverSameVersion` (`VersionsUnique`), `NeverTakenBack`
(`PublishedForGood`) and `ServedFigures` (`ServedIsPublished`). A version that is
taken and not committed is in no row, so `VersionsUnique` is not inductive:
`ChainInv` adds that the lock excludes every other chain until its commit (`Holder`) and
that a chain that took a version took the one after the current one and still has it
to itself (`Pending`). `ServedFigures` adds that a request computes its screen under a
version that was current (`ReaderOld`), so its late store never meets a pending
version, and that what a chain finds under its own version after its purge is its own
(`Warmed`).

Two assumptions were made explicit for these proofs, `Tasks # {}` and `Days # {}`: the
queue and the calendar of the code are never empty, and the type of an unused slot
names a member of each. Proving `TypeCorrect` for `TwtBook` also showed that the `CASE`
of `ApplySell` had two arms that could both hold, in which case TLA+ does not say which is
taken; the code's order of tests is now in the guards.

Only model-checked: liveness under fairness (`EveryoneIsAnswered`,
`EveryCallIsAnswered`, `EverythingSettles`, `EverySessionDecided`, `EveryRunEnds`,
`EveryFillBooked`), which is outside the prover's reach; and, of course, the violated
properties. The strengthened invariants were checked by TLC on instances like those of
section 4 before they were proved.

## 6. Where the code and its documentation disagree

Three are runs that TLC refutes; `PROJECT.json` quotes the sentences.

1. `risk_kill_first`: `kill()` as the first operation of a day, in a process that was
   up the day before, is saved under yesterday's date; the next operation rolls
   it away and trading goes on.
2. `gw_restart`: nothing is journalled before a request goes out, so an order accepted
   just before a crash is sent again by the next life.
3. `twt_rows`: a confirm takes the session row of the plan's date and a report the row
   of today. A raise and the report of a closing sale then run at once, and a live
   trigger stays on a closed position.

More follow from the same models with other constants:

* `MidnightRace = TRUE` in `RiskRoll.cfg` violates `OrderCapRespected`: an operation that
  waits for the row over midnight counts the new day's order in the old day's row.
* `Prebuilt = FALSE` in `GatewayDesk.cfg` violates `NoDoubleSend`: two racing calls build
  two gateways for one sleeve, with an idempotency map each (`twt.rs:185`).
* `Refresh` rolls outside the lock, where the shared store refuses to save: the first
  kill-switch reading of a day is an error although the store works, and a protective
  stop asked for at that moment is not placed (`risk.rs:905`).
* `SendDelete` after a `Halt`: a delete that read the kill switch before it waited for its
  rate slot removes the stop after the halt (`order_gateway.rs:957`).
* `KeptUntilDone` without `exposed`: a pop that was not recorded is lost with its process
  (`consumer.rs:846`), although a dead step "must be re-delivered, not lost".
* `Reap`, `FailRun` and `Abort` may mark the row of a published version `failed` or
  `aborted` (`checks.rs:80`, `ops.rs:70`); the version stays.
* ERROR is listed among the statuses that mean "the order did not reach the exchange"
  (`gateway.rs`, `FAILED_STATUSES`), yet it is also the answer when an accepted order's
  reply is lost.
* A stop whose trigger the broker did not name is armed again after a restart, since
  `replay` skips a `gtt_placed` line without a trigger id.
* A buy that fills in one report leaves its plan line SENT (`execute.rs:2011`: the fill
  is applied without its line).
* A stop whose cancel failed when the position closed rests for ever: what judges
  protection looks at open positions only.

## 7. What is left out

* The supervisor, the lanes other than TWT, the providers and the API: section 2.
* In `TwtBook`: dry runs (their fill is applied at once), a second confirm of a line that
  is being confirmed, a chore at the same time as a confirm or a report, stops that
  fire, several positions and the money they share, the release of headroom.
* In `TaskQueue`: messages that cannot be decoded, routing, priorities, the arithmetic of
  schedules and countdowns, the GET of a result that another delivery overwrites
  (modelled, with no property about it).
* In `NightlyPipeline`: what the data steps compute, the alerts, the swing plan a
  catch-up asks for after a publication, `run_single_step`.
* `cancel_order`, which keeps no state and reserves nothing.
* The guards, as data: a call that passes them is `Submit`, one that does not is
  `GuardBlocks`.
* A stop's quantity, limit price and band, and the F&O plan checks other than the
  floor.
* Rate limiters: a slot is granted eventually; that each gateway has a limiter of its
  own is a hazard for `KiteLimits`.
* The size of the connection pool.
* The numerical library (floats and decimals, out of TLC's reach), page rendering,
  and pure I/O.
* The broker, the operating system, the HTTP server and the connection pool are
  external: they are modelled only by what the code sees of them.
