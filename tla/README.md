# A verification project for the trading bot

TLA+ models of the trading bot under `src/` (C++20 coroutines on Boost.Asio, trading
Binance USD-M futures), TLC configurations that check them on small instances, and
theorems about them with proofs that TLAPS checks. Paths below are relative to `src/src/`
unless they start with `src/`.

- [1 The system](#1-the-system): its parts, their state, what is hard about them
- [2 The modules](#2-the-modules): which module models what, and how it corresponds to the code
- [3 The runs](#3-the-runs): what each shows, its bounds, its fairness
- [4 The proofs](#4-the-proofs): what is proved, from what, along which argument
- [5 Disagreements](#5-where-the-code-and-its-documents-disagree) between the code and its documents
- [6 What is not covered](#6-what-is-not-covered)
- [7 Plan](#7-plan)

To repeat a run: `tlc -config engine_safety.cfg MCSignalEngine.tla`; a proof:
`tlapm OrderServices_proofs.tla`. `PROJECT.json` lists the runs, for every definition the lines
it models, for every property a plausible bug that breaks it, and the hazards.

## 1 The system

The bot is a process. `context.cpp` runs one `io_context` on a pool of threads (two in the
trading bot, `main.cpp:836`); everything that waits is a coroutine on it. Some
controllers have threads of their own. State is in memory, apart from the order journal's
file, two SQLite databases (risk, qlib state) and published model manifests. Beside it run
Python programs: one process per Gemini evaluation, started and killed by the bot, and the
qlib bridge's watchers and strategy runs, which it shares the qlib database with.

| component | state | operations | talks to |
|---|---|---|---|
| `engine/signal_engine` | tracker, cooldowns, budget, settings | `run` (scan, open), `monitorTimeExit` (reconcile, expire), `monitorTrailingStops`, `onUserDataEvent` | orders, account, strategies, gates |
| `engine/position_tracker` | map symbol → position, mutex | reserve, commit, remove, removeIfOpenedAt, stop/take-profit updates, exit fills, refresh, recovery | called by all of the engine's coroutines |
| `engine/loss_manager`, `engine/take_profit_reconciler` | state by symbol (DCA count and pending, break-even set); none | move the take-profit to break-even, add to a losing position and move its stop; re-place missing take-profits | tracker, orders, caps |
| `engine/gemini_filter`, `src/tools/gemini_filter` | result cache by chart; in files: sentiment cache, quota, locks | evaluate; in the process two threads, each along its route of models | process, kline cache, Gemini |
| scan cycle (`runScanCycle`), `engine/work_queue` | evaluations of the cycle, gate | pass over, evaluate, open | filter, other gates, execution |
| `engine/qlib_execution_planner` | rows of the qlib database | executeMarket: request a plan, await it, send its slices, mark them | database, orders |
| `src/tools/qlib_bridge/run_execution_plan_watcher.py`, `run_strategy.py` | the same rows | plan a request; decide, which may revoke a plan | database |
| other entry gates (`engine/*filter*`, `*controller*`) | caches | may this opening go ahead, and how large | account, REST |
| `orders/normal_order_service`, `orders/algo_order_service` | one journal and one id counter each, a once flag | market, limit, closeByMarket, batch; stopEntry, protection; reconcilePendingJournalOnce | journal, REST |
| `orders/order_journal` | append-only file, map by correlation id | recordIntent, updateState, pendingReconcile, load | file |
| `rest/rest_client` | – | public, signed and keyed calls; retry, timestamp synchronisation | limiter, session, signer |
| `rest/rate_limiter` | reserved and reported weights, windows, penalty | acquire, updateFromHeaders, release, penalize | clock |
| `transport/http_session` | connection, request gate (a mutex of coroutines), last headers | execute, lock, unlock | venue |
| `ws/` | streams, subscriptions, listen key | connect, reconnect, keepalive, dispatch | venue, engine |
| `account/` | short-lived cache | snapshot, income, brackets | REST |
| `risk/` | breach state, equity curve, database | recompute, block, load | account, database |
| `orchestration/` | job ledger, model versions, child process | candle and batch schedules, publish, promote, roll back, health check | Python daemon, SQLite, files |
| `backtest/`, `scanner/`, `catalog/`, `strategy/` | caches, tables | simulate, filter, load plugins | REST |

`src/tests` holds the unit tests, `src/docs` designs and reviews. Plugins, the remaining Python
tools, infrastructure scripts and vendored material (`src/.agents`) are not part of the running
system.

What is hard about it, and which properties it should have:

- **The engine's strand does not serialise it.** Each handler starts with a dispatch to
  `m_strand`, but after any later `co_await` it resumes on the pool. Opener, monitor,
  trailer and event handler therefore interleave at every await, each with copies of entries
  that are several requests old. Wanted: a reservation is its opening's alone; nothing is
  recorded for, or removed from, a position other than the one that was looked at.
- **Requests fail ambiguously.** An order whose answer is lost may be live. Wanted: a live
  position the engine does not track is found again; a position does not lose its last stop.
- **Orders must be neither lost nor repeated** across retries and restarts. Wanted: a call
  that changes something is carried out once; an order that may be live is on record.
- **One connection, many coroutines, two threads.** Wanted: mutual exclusion and order at
  the request gate, no lost wake-up, reservations that end, a budget that holds.
- **A signal becomes an order through several processes.** The chart changes while Gemini looks
  at it; one of the analyzer's threads fails or hangs while the other has its score; a file
  serves as a lock and outlives its holder. Wanted: no order without an Allow that was meant for
  it, a quota that is kept, a cycle that comes to its end.
- **A market order in slices, by rows that others write.** Plans come from other programs,
  watchers mark requests late, UPDATEs fail silently, a new decision revokes what is half
  executed. Wanted: never more than was approved, nothing after the answer, rows and answer that
  tell what happened.
- **Files and databases that disagree after a crash** (manifest and database, risk state), a
  breach or promotion checked in one critical section and used in another, daemon jobs that
  retry while the next is due. Wanted: see the plan.

## 2 The modules

```
PositionTracker <- Exchange <- SignalEngine <- MCSignalEngine
      ^ PositionTracker_proofs     ^ SignalEngine_proofs

FifoLine (abstract)  <- RequestGate <- RestClient <- MCRestClient
                          ^ RequestGate_proofs <- RestClient_proofs

OrderJournal <-----------+-- OrderServices <- MCOrderServices
OrderLedger (abstract) <-+       ^ OrderServices_proofs

MarketExecution (abstract) <- ExecutionPlans <-+- EntryPipeline <- MCEntryPipeline
QuotaManager <- GeminiFilter <-----------------+
      ^ QuotaManager_proofs     ^ ExecutionPlans_proofs <- EntryPipeline_proofs
```

`MC*` modules hold the instances for TLC and the properties the repository states and the
code does not keep. Operators named "...Unchecked", "...Leaks" and the like, each introduced by
"the mistake of", are plausible bugs: no specification uses them, they show that a property
notices.

### PositionTracker, Exchange, SignalEngine: the life of a position

`PositionTracker` has one operator per method of the class, from map to map. A tracked
position keeps what the properties tell apart: quantity, the stamp `openedAt`, the ids of its
two exits, whether it is a reservation (`inFlight`), held too long (`aged`), or
trailed. An exit's client id is a leg and a stamp (`makeExitClientOrderId`). Stamps come
from one counter, which grows at each reading: two openings are assumed not to be
stamped in the same tick of the system clock. Prices are left out.

`Exchange` is external: positions, resting exits, the user data stream and one request
per coroutine. A request is sent, then served at any later time, then answered; it may fail
without or (`Ambiguous`) with effect, whatever the journal then says of it. An answer tells the
venue's state at the time it was served (section 6). Exits rest until filled or cancelled. The venue may
fill exits in part, a hand may close a position, the stream may lose its events.

`SignalEngine` has three coroutines, `opener`, `monitor` and `trailer`, and the event
handler. `pc[p]` names the await coroutine `p` stands at; `op`, `mon`, `trl` are the locals
that live across it. One action is the code between two awaits, with everything it does to
the tracker:

| code | actions |
|---|---|
| `run` | `Boot`, `BootSnapshot` |
| `processItem`, preflight | `Signal`, `PreflightBlocks` |
| `openPositionFromPreflight` | `ReserveSymbol`, `LeverageSet`, `MarketDone`, `FillPolled`, `TakeProfitPlaced`, `StopLossPlaced`, `TakeProfitUndone`, `OpenerCloseReturns`, `EmergencyVerified` |
| `reconcileTrackedPositions` | `MonitorWakes`, `MonitorSnapshot`, `ReconcileSymbol`, `ForcedCloseReturns` |
| `processExpiredPositions` | `ExpireNext`, `ExpirePolled`, `ExpireCloseReturns`, `ExpireTpCancelled`, `ExpireSlCancelled` |
| `processTrailingStops` | `TrailerWakes`, `TrailSkips`, `TrailPlaces`, `TrailPlaced`, `TrailCancelled`, `TrailRolledBack` |
| `onUserDataEvent`, cooldowns | `OnUserDataEvent`, `CooldownEnds` |
| restart | `Crash`: nothing of the engine is persisted |

The preflight gates, sizing, and when a trailing stop moves are free choices.

### RequestGate, FifoLine, RestClient: a call to the venue

`RequestGate` follows `HttpSession::RequestGate` to the line. `m_mutex` is free between
queueing a waiter and starting its wait (`parking`) and between granting the gate and
cancelling the timer (`ringing`); both are states of their own. `FifoLine` is what the
gate promises: a line whose first caller is served, from which others step out only by
giving up. `InOrder` says that the gate implements it, with the holder followed by
`waiters` for its line.

`RestClient` adds the calls: `acquire`, the gate, the request and response, reading the
session's headers (which may by then be another call's), `updateFromHeaders`, `release`,
and then retry (`publicGet`), synchronisation and a second sending (`signed*`), or neither
(`apiKey*`). `threads` is the size of the pool: on one thread a coroutine
that is parking or ringing is not interrupted (`ThreadFree`). The three windows of the
limiter are admitted by one rule; there is one here. `klinesWithTimeout` may cancel a
public call wherever it waits.

### OrderJournal, OrderServices: placements and their record

`OrderJournal` is the file and the map each service keeps of it. A record's text counts by how
much of it reached the file: `whole`; `early`, too little to mean anything; `mid`, readable
unless another record follows on its line; `late`, readable in any case. Loading
(`Loaded`) reads a line by its first record and passes over updates without intent. An
append that fails may leave nothing, a part or (`fsync` failing) everything.

`OrderServices` has a coroutine per placement: the first placement of the normal service
after a start reconciles (`CopyPending`, `QueryPending`, `SearchHistory`, `Reconciled`), the
others go on; then `WriteIntent`, the request, `Answered` or `NotAnswered`, `WriteAnswer`, whose
failure is ignored as in the code. A request that was sent arrives at any later time or never,
after a restart too. What a placement is told is one of four `Replies`: the venue's acceptance, its
refusal, `silence` (what `isAmbiguousPlacementError` recognises: no answer, an unreadable one, -1007,
-1008, a 5xx without a code) and `error`, a 5xx with another code, of which `fromHttp` leaves the
code only. The last two say nothing of the order; the code writes in doubt for the one and
`Rejected` for the other (`StateFor`, finding 5). `Finds` gives the algo service's orders to none of the reconciler's queries:
it asks the normal endpoints. `OrderLedger` is what a start may rely on: an entry of every order,
made before it was sent, which becomes `Accepted` only when the venue has the order and `Rejected` only
when it never will, the latter for good. Orders that a server's error was the answer to are
`unclear`: of them it promises `Accepted` only. `JournalIsLedger` says that the file, read as a start
would read it, implements that, until a record follows a cut-off one. An order in a batch is a placement of its own; between its
intent and the sending the model allows more than the code does.

Durable journals are used by `binance_api.cpp:18-24`; the trading bot itself accepts an
in-memory journal (`main.cpp:923`), for which only what does not concern restarts applies.

### MarketExecution, ExecutionPlans: a market order in slices

`MarketExecution` is what the engine relies on: an open call may send orders, in as many pieces
as it likes, for at most the approved quantity, and nothing once it has returned. `ExecutionPlans`
has `executeMarket` with one action per visit to the database's thread and per call of the order
service, since others write between two of them; the watchers' transactions; the strategy
runs, as far as the planner asks about their latest decision; and the rows they share, one
variable for each status column.

| code | actions |
|---|---|
| `executeMarket`, up to a plan | `Execute`, `CannotExecute`, `Fetch`, `Expire`, `PlaceWhole` (fallback), `ExecuteNatively` (no planner) |
| its loop over the slices | `RejectSlice`, `RejectExcess`, `AwaitDue`, `AskDecision`, `Revoke`, `MarkSubmitted`, `PlaceSlice`, `Accepted`, `NotAccepted`, `FailSlice`, `RecordFilled`, `Finish` |
| `process_once`, `create_twap_plan` | `WatcherPlans`, `WatcherFails`, `WatcherMarksFailed` |
| `run_strategy.py` | `StartRun`, `CompleteRun`, `FailRun` |
| time | `DeadlinePasses`, `PlanExpires` |

`Write` is every UPDATE the planner sends: one that fails is logged and the call goes on, so each
may leave its row as it was; `lost` counts them. A watcher stores plans as "running" and the
planner takes only "succeeded" ones (section 5), and nothing in the repository lies between.
`PublishPlan` and `StoreOwnPlan` stand for whoever writes executable plans, as the planner's
tests do themselves; without them no slice would ever be sent.

### QuotaManager, GeminiFilter: may this opening go ahead?

`QuotaManager` is the quota file under its lock file, with the steps of `file_lock` apart: create
exclusively, find an old lock, remove what is there by then, read, write all, remove. A process
that is killed leaves its lock. `GeminiFilter` is `evaluate`: `LookUp` in the result cache, `Start`
of the process with the klines as they are then, its two threads, and `Join` or `Kill`. A thread
goes along its route: `Reserve`, `Reserved`, `Ask`, `Cooled`, the next candidate; `Exhausted` or
`LockFails` end it, for the sentiment in a stale entry if there is one. The vision may escalate to
the pro tier, the sentiment may take two steps. `KeyForResult` is the key the verdict is cached
under: that of the chart as it is by then.

### EntryPipeline: a scan cycle

`EntryPipeline` extends both. `opener` is the item the cycle is at, `gate` the evaluations it has
spent and whether it has closed. `PassOver`, `OverBudget`, `Evaluate` or `NoFilter` take an item
to the filter, `TakeAnswer` to the other gates (`Stopped` is their no), `Open` to the planner or
the order service, `Opened` to the next item. Item *i* is call *i* of `executeMarket`. The steps of
the parts are taken over as they are, so that what is proved of a part holds of the whole.

## 3 The runs

Runs that pass are exhaustive. "states" are distinct states.

| run | properties | bounds | states |
|---|---|---|---|
| `engine_safety` | `TypeOK`, `IInv`, `JInv`, `ReservationOwned`, `PollRemovesOnlyFlat` | 1 symbol, 2 openings, 1 failure (ambiguous), 1 hand close, lost events, acknowledged-only answers, 1 restart | 1.4 M |
| `engine_trailing` | `JInv`, `ReplacementOutlivesOpening`, `TrackedStopKept` | 1 symbol, 2 openings, 2 replacements, 1 failure (without effect) | 1.1 M |
| `engine_liveness` | `UntrackedIsResolved`, `ExpiredLeaves`, `ReservationEnds` | 1 symbol of 2 lots, 1 opening, 2 failures (ambiguous), stops required or not, 1 restart | 0.13 M |
| `rest_calls` | `TypeOK`, `GateInv`, `MutualExclusion`, `AtMostOnce`, `ReservationsHeld`, `GrantIsHeard`, `InOrder`, `CallsDrain` | a public, a signed and a keyed caller, 3 calls, 1 or 2 threads, budget 2, 1 failure, 1 cancellation | 0.46 M |
| `orders_journal` | `TypeOK`, `LiveIsKnownUnlessTorn`, `AcceptedIsLive`, `WriteAhead`, `JournalIsLedger` | 2 normal placements (symmetric), 1 protective, 1 failing append, 1 lost answer or error of a server, 1 restart, torn writes | 2.3 M |
| `entry_pipeline` | `PipelineTypeOK`, `RevokedWasNotSent`, `RequestRowIsAnswer`, `AnswerTellsFill`, `QuotaKeptUntilLockAges`, `Implements`, `OrdersAreAllowed`, `ItemsAreDealtWith` | the filter over 2 items (one arbitrated), budget 1, 2 charts, 2 models of 1 request a day, 1 mishap; or the planner over 1 item of 3 lots, at most 3 slices, with or without fallback, 2 watchers, 1 strategy run, 1 fault, 2 lost UPDATEs | 0.68 M |

Expected violations, explained in section 5: `engine_stale_snapshot`, `engine_time_exit_naked`,
`rest_lost_wakeup`, `rest_burst`, `orders_server_error`, `entry_stale_verdict`.

What the properties say:

- `ReservationOwned`: a symbol is reserved exactly while the opening that reserved it is
  under way. The time exit, the reconciler, exit fills and trailing all write the map during the
  opening's awaits, and there are a dozen early returns.
- `PollRemovesOnlyFlat`: an entry given up because a poll showed no position (time exit,
  emergency close) belongs to no live position at that moment, though the answer is old. It must have been
right when it was given (section 6).
- `ReplacementOutlivesOpening`: a trailing stop is not recorded for the successor of the position
  it was made for.
- `TrackedStopKept`: while failing requests have no effect, no step takes the last stop from a
  tracked live position whose tracked stop covers it, until its holding time ends (then the time
  exit may: finding 2). In the run a cancel that fails without a trace really has not happened;
  what becomes of one that has is noted in section 5.
- `JInv`: what the two rest on (section 4): what a coroutine holds across its awaits, an answer, a
  copy, the id of a stop, is still about what it was about.
- `UntrackedIsResolved`, `ExpiredLeaves`, `ReservationEnds`: what must happen in the end.
- `MutualExclusion`, `GateInv`, `InOrder`: the gate, on any number of threads.
- `AtMostOnce`: a signed or keyed call is carried out once however it is retried.
- `ReservationsHeld`: reserved weight belongs to calls under way, unless one was cancelled.
- `GrantIsHeard`: on a pool of one thread, nobody sleeps with the gate granted to it and no
  `cancel()` to come (on two, somebody may: finding 3); `CallsDrain`: on one thread every call
  returns once no more are made.
- `LiveIsKnownUnlessTorn`: an order that is, or may yet be, at the venue is accepted or in doubt
  in its service's map and for the next start, unless a record follows a cut-off one. It may be
  rejected there if a server's error was the answer (finding 5), and only then.
- `AcceptedIsLive`, `WriteAhead`: the file calls nothing accepted that is not; a map says
  nothing the file does not.
- `JournalIsLedger`: over all steps, restarts included, the file is written before an order is sent,
  loses no entry, and never turns from accepted to rejected or back, nor rejects what may still be
  live, except for an order a server's error was the answer to.
- `Implements`: planned execution is one market order, whatever the plan's slices add up to, and
  no native order follows slices.
- `RevokedWasNotSent`: a slice the database shows as pending or revoked after the call was not
  handed to the order service, unless two UPDATEs of the call failed; `RequestRowIsAnswer`: with no
  lost UPDATE the request's row tells how the call ended, although watchers mark it in
  transactions of their own ("expired" may be the watcher's word); `AnswerTellsFill`: the executed
  quantity, from which the protection is sized, is what was filled, less what was merely
  acknowledged.
- `QuotaKeptUntilLockAges`: no model is granted more than its day's limit until a lock file has
  become old.
- `OrdersAreAllowed`: with errors blocked, an order is only sent for the item that was evaluated,
  after an Allow, fresh or cached, for which both threads had scores of their own.
- `ItemsAreDealtWith`: the cycle reaches its end, though Gemini, a lock or the watchers never answer.

**Why the bounds are enough.** The tracker never relates two symbols, so one symbol has
all of the engine's interleavings; two openings are what it takes to confuse a position with
its successor, two replacements a stop with its successor. One fault per run separates
causes, and each property's mutant shows that its run gets to where it could fail. At the gate
three callers are the least with a holder, a first and a second waiter. Three placements are
the least with one that reconciles, one that runs beside it, and one of the other service. In the
pipeline the filter asks for two items (a cached answer, a spent budget, a candidate the gate is
not asked about), the planner for one (calls do not overlap; that a watcher takes the oldest of
several requests is left to the proofs, which have any number); three slices are the least of
which one is behind, one at and one before the call, and two lost UPDATEs are what it takes to
hide a slice.

**Fairness.** `SignalEngine!FairSpec`: `io_context` resumes a coroutine whose request was answered
(`OpenerContinues`, `MonitorStep`), every request is answered or times out (`Serve`,
`m_requestIoTimeout`), holding time passes. No fairness for signals, the trailer, the market, the
event stream or restarts. Faults are bounded, so that in the end requests succeed: that is the
meaning of "in the end" here. `RestClient!FairSpec`: every caller that can take a step gets a
thread; minutes and penalties end. `Begin` and the cancellations are not fair. The specification
of the orders has no fairness and no liveness property. `PipelineSpec` has weak fairness of
`Progress`: the cycle's own steps, the start and the timeout of the process (`runPythonModule`
polls a deadline and kills), the planner's deadline and the venue's answers; nothing is asked of
the analyzer's threads, the watchers or the strategy runs. Deadlock is checked in the engine's
runs; calls, placements and a cycle's items do come to an end, so it is switched off in theirs.

## 4 The proofs

TLAPS proves, for any symbols, callers, placements and bounds:

| theorem | states |
|---|---|
| `SignalEngine_proofs!TypeCorrect`, `Invariance`, `ReservationsAreOwned`, `CommitSucceeds`, `StopsAreOfTheirPosition`, `PollsAndStopsStand`, `PollsRemoveOnlyFlat`, `StopsAreKept` | `[]TypeOK`, `[]IInv`, `[]ReservationOwned`, `[]CommitNeverFails`, `ReplacementOutlivesOpening`, `[]JInv`, `PollRemovesOnlyFlat`, `PlacedForAll => TrackedStopKept` |
| `RequestGate_proofs!GateKept`, `GateExcludes`, `GateServesInOrder` | `[]GateInv`, `[]MutualExclusion`, and that the gate implements `FifoLine` |
| `RestClient_proofs!CallsUseGate`, `CallsTyped`, `CallsExclude`, `CallsInOrder`, `OrdersAtMostOnce`, `ReservationsGivenBack`, `GrantsAreHeard` | that the client refines the gate, so that its theorems hold of it; `[]TypeOK`, `[]AtMostOnce`, `[]ReservationsHeld`, `[]GrantIsHeard` |
| `OrderServices_proofs!TypeCorrect`, `JournalIsAhead`, `AcceptedOrdersAreLive`, `LiveOrdersAreKnown`, `ServicesKeepLedger` | `[]TypeOK`, `[]WriteAhead`, `[]AcceptedIsLive`, `[]LiveIsKnownUnlessTorn`, and that the services' journal implements `OrderLedger` |
| `ExecutionPlans_proofs!PlansInvariant`, `PlansTyped`, `RevokedWasNeverSent`, `RowsTellTheAnswer`, `AnswersTellTheFill`, `PlansImplementMarket` | `[]PlansTypeOK`, `[]RevokedWasNotSent`, `[]RequestRowIsAnswer`, `[]AnswerTellsFill`, and that planned execution implements `MarketExecution` |
| `QuotaManager_proofs!QuotaInvariant`, `QuotaIsKept` | `[]QuotaKeptUntilLockAges` |
| `EntryPipeline_proofs!PipelineExecutesPlans`, `PipelineUsesQuota`, `PipelineTyped`, `OrdersStandBehindAllow`, `PipelineImplementsMarket`, `PipelineKeepsQuota` | that the composition implements `ExecutionPlans` and `QuotaManager`, so that their theorems hold of it; `[]PipelineTypeOK`, `OrdersAreAllowed` |

Assumed are only the constants' types: `SignalEngineAssumption`, `ExchangeAssumption`,
`RestAssumption`, `JournalAssumption`, `ServicesAssumption`, `PlansAssumption`, `QuotaAssumption`,
`FilterAssumption` (which also says that the pro route is that of the vision's candidates in the
pro tier), `PipelineAssumption`; TLC evaluates each in a run.

**The engine.** `ReservationOwned` is not inductive: a reservation could be removed by a time
exit that holds a copy with the same stamp, or be shrunk by a fill of an exit it names. `IInv`
adds that no copy and no entry is stamped later than the last reading of the clock
(`NoneFromTheFuture`); that hence a fresh reservation differs from every copy the time exit
holds, and names no exits (`ReservationIsApart`); and that a replacement stop is later than the
opening it was made for (`ReplacementIsLater`). `PositionTracker_proofs` shows which operations of
the tracker leave reservations alone ("quiet") and which may change a stop. Then
there is one lemma per way a coroutine may step, and one per action.

**Polls and stops.** `PollRemovesOnlyFlat` compares an answer that may be old with the venue as it is
now, so the invariant must say why the answer cannot have aged: `PollsHold`, an answer that
shows no position and can still be acted on is true. While the opener polls after an emergency
close, the symbol is its reservation and nobody else opens; while the time exit polls, the entry it would
remove is that of the opening it polled for (`SameOpening`), and a later opening has another
stamp. For this the requests under way must be about what the coroutine holds (`OpenerAsksOwn`,
`MonitorAsksOwn`, `TrailerAsksOwn`), what is to be closed must be over or tracked still
(`ExpiredIsOver`), and start-up must be alone (`BootsAlone`). `StopTellsOpening` does the same for stops: an entry that
names the stop of a copy is the opening of that copy, and a stop being placed is known to nobody
else; `ExitsOfTheirLeg` keeps take-profits from being taken for stops. `JInv` is all of this, and is
inductive on top of `IInv`. All this rests on polls that tell the truth when they are served (section 6).
Its proof has two halves: what a step of the engine may do
(`EngineStep`: one coroutine goes on, the venue stays) and what a step of the venue may do
(`ExchangeStep`), each of which keeps `JInv`, and that every action is one of the two.

For `TrackedStopKept` the proof adds `ReplacementRests`: from the moment a replacement is placed until
the old stop has gone, it rests at the venue for the quantity of the copy it was made from. That it covers
the position is another matter, since the quantity was copied several awaits ago. It need not when
more is held by then: an opening on top of lots the engine does not know of (their entry was
removed by an old snapshot, or they outlived a failing close), or a refresh from the
account after the copy was taken. With several lots (`MaxHold = TRUE` in `engine_trailing.cfg`) TLC finds the
position without a stop that way. So the theorem `StopsAreKept` relies on `PlacedForAll`: whenever the trailer
places a replacement, what is held is at most what its copy says. Under it the property is proved for
other coroutines, any number of symbols, openings and lots, and ambiguous failures (of the rollback
after a cancel that took effect it says nothing: the tracked stop is gone by then; section 5); the
run checks it with one lot, without the rely. `ReplacementRests` holds under the
rely only, so it is an invariant of the proof and not of a run.

**The gate.** `GateInv` says that the books are in order: locked exactly when there is a
holder, at most one of them, waiters queued once and asleep, nobody queued at an open
gate. For the refinement each step is shown to be a join, a service, a giving up or a stutter of
`FifoLine`. For `AtMostOnce` the invariant is that a call that may still be sent has not
been carried out: only a call the venue refused for its timestamp goes round again.

For `ReservationsHeld` the invariant is about a sum, what the calls that are admitted have cost
(`ReserveInv`: `reserved` is at most that, and the admitted are finitely many). What a sum becomes
when a call joins or leaves cannot be had from the library's induction theorems (they
take an operator as a parameter); it is proved by smallest counterexamples instead: were there a set
whose sum is not what it should be, there would be a least one in the order of strict
inclusion, which is well founded on finite sets. `acquire` then adds a call and its cost, `release`
takes both away, and a window that ends in between only forgets.

For `GrantIsHeard` the invariant (`HeardInv`) says that a caller whose wait is about to start is on
its way to the session, hence has the thread; `unlock()` needs that thread, so the waiter it takes is asleep
or awake already. That a free thread means that nobody runs is counting, for which the callers that
are out must be finitely many: each was sent out by a step.

**The orders.** `IInv` has `Placed` (what a stage says of the venue; an answer is what the venue
did or is in doubt), `OneReconciler`, `RecordsRight` (no record is wrong about the venue, nor
can become so), `IntentWritten` (a placement that was sent has a whole intent in the file),
`WriteAhead` and `Remembered`. One lemma says that a step adds at most one record, and a
right one (`JournalStep`). The intent of a sent order is then read back as long as no record
follows a cut-off one. `AnswerIsRight` shows that a record of an answer says "Rejected" of an order that
may be live only when the answer was a server's error (`Rejectable`), so what is loaded is
otherwise "Accepted" or in doubt. For the refinement the invariant also has `RejectedIsDone` (what is
on record as rejected is over, or was answered by a server's error: only its own answer says so, and
says it last); such an answer is itself a step of the ledger (`BlurStep`); and `ReadWhole` says
what one more record changes in what is read: nothing, or the entry of its order. Each kind of
record (`Sourced`: an intent, an answer, the reconciler's find) is then one way an entry may move,
and `PlaceStep` shows the same of where the orders are.

**Planned execution.** The four invariants each say something of the end of a call; `PlansInv` says
what leads there, request by request (`Good`): `PlanHeld` (past the polling there is a plan and
the call is at one of its slices), `SentSummed` (what was sent is what the call has counted, less
the slice it is about to send), `FillTold` (what was filled is what will be told, up to silent
acknowledgements), `SentIsMarked` (a slice that was handed over and is not marked has cost one UPDATE when it was
submitted and one when its answer came) and `RowTold` (with no UPDATE lost the slices behind the
call are filled, and the row has the call's answer once it returned). There is one lemma per
action, which shows that the call stays `Good`, that nothing changes `Elsewhere`, and that it moves
`Onward`: it never returns twice and sends only while it is open. The last is the refinement;
that at most the quantity is sent comes from `SentSummed` and the check before each slice.

**The quota.** Until a lock is old at most one thread is inside, and only while the file is there
(`LockExcludes`); what it has read is what is stored (`StateIsCurrent`), so no increment is lost and
the grants are at most what the file says. A process that is killed inside leaves its lock: nobody
gets in until it is old, which is where the promise ends.

**The composition.** `StepsAreSteps`: each of its steps is one of the planner's and of the quota's, or
leaves them alone; so `PipelineSpec => PlansSpec` and `PipelineSpec => QuotaSpec`, and nothing is
proved twice. For this the threads' candidates must be models (`OnRoute`). `OrdersAreAllowed`
adds `AllowIsScored` (a verdict of Allow, cached ones included, has both threads' scores) and
`OneCall` (only the call of the item at hand is open, in the cycle's order stage; and past the
filter, if it is on and errors are blocked, the result at hand is an Allow).

**Only model-checked** are the properties that something happens in the end, `UntrackedIsResolved`, `ExpiredLeaves`,
`ReservationEnds`, `CallsDrain` and `ItemsAreDealtWith`: under fairness they need `ENABLED`, which the
provers do not handle. Every invariant and action property of the passing runs is proved.

## 5 Where the code and its documents disagree

Each is a run TLC finds a counterexample for; `PROJECT.json` quotes the documents.

1. `engine_stale_snapshot`: `reconcileTrackedPositions` reads the tracker after the await and the
   account before it. A position opened in between is in one and not in the other, and its entry is
   removed (`signal_engine.cpp:2333`). No failure is needed.
2. `engine_time_exit_naked`: `closeByMarket` returns a rejected order as a value; the time exit takes
   it for a close and cancels both exits (`signal_engine.cpp:2459`).
3. `rest_lost_wakeup`: with two threads, `unlock()` may cancel the timer of a waiter whose wait
   has not started; it then sleeps for ever with the gate granted to it
   (`transport/http_session.cpp:55`).
4. `rest_burst`: since `release()` gives reservations back, the larger of reported and reserved weight
   leaves the other out, and three calls pass a budget of two (`rest/rate_limiter.cpp:81`).
5. `orders_server_error`: `fromHttp` drops the status of a 5xx answer for the code in its body, so
   that `isAmbiguousPlacementError` takes most errors of the venue's servers (-1000, -1001, -1006) for
   rejections: the order is journalled as rejected, never asked for again, and may be live
   (`types/error.cpp:83`, `orders/order_service_utils.h:99`).
6. `entry_stale_verdict`: `putCachedResult` makes its key from the klines as they are after the
   evaluation, which took as long as Gemini took; a verdict on one chart is stored for another and
   served for it (`engine/gemini_filter.cpp:395`).

Noted while reading, without a run of its own:

- Loading survives a cut-off line (`docs/comprehensive-reviews/2026-05-29-src-v1.1.md:139`, "exactly
  the post-crash scenario a durable journal must survive"), but the next record is written on to
  it: `appendDurably` does not look whether the last line was finished
  (`orders/order_journal.cpp:151`; `docs/spec/orders-command-reference.agent.md:707` has "one record
  per line"). When that record is an intent, a later start does not know of an order that was
  sent. `LiveIsKnownUnlessTorn` and `legible` in `OrderLedger` make the exemption; with
  `LiveIsKnown` for an invariant of `orders_journal` TLC shows why.

- The trailing rollback cancels the new stop when the cancel of the old one is reported failed; if
  that one took effect, the position has none (`signal_engine.cpp:2592`).
- `src/docs/spec/orders-command-reference.agent.md:695` says the algo service "continues without
  journal", the code refuses with -90006 (`algo_order_service.cpp:128`);
  `orders-command-reference.md:109` says its records are reconciled, but the reconciler asks the
  normal endpoints only.
- The watcher stores plans as "running" (`run_execution_plan_watcher.py:159`, expected by its test),
  the planner takes "succeeded" ones only (`qlib_execution_planner.cpp:177`): as the repository
  stands every planned order ends at its deadline. `setExecutionPlanner` has no caller in
  `src/src`, either.
- An order the reconciler has just found goes back to in doubt when its own answer is lost after
  that: `updateJournal` (`normal_order_service.cpp:384`) writes over whatever the map says. It stays
  so until the next start, as the reconciler runs once. `OrderLedger!Doubt` allows it; without that
  action TLC refutes `JournalIsLedger`.
- When a slice fails after others were filled the call is an error, the engine drops its
  reservation (`signal_engine.cpp:1762`), and the filled quantity is tracked by nobody until
  the reconciler finds it. A slice of the wrong side leaves the remaining ones "pending".
- The executed quantity of an aggregate answer leaves out slices acknowledged without a fill.
- A plan's expiry is looked at when it is fetched, not before each slice
  (`docs/design/2026-05-21-qlib-strategy-adapters-v1.1.md:774`); a decision may change between
  the check and the submission, which no transaction can span.
- The schema allows `long` and `buy` decisions only, so a sell order of a symbol with any decision
  is always contradicted (`run_strategy.py:170`).
- The candidates of qlib strategies are evaluated although the Gemini gate has closed
  (`signal_engine.cpp:778`); the gate's design speaks of all further candidates
  (`docs/archives/design/2026-05-16-gemini-filter-quota-cache-v1.0.md:62`).
- A route whose candidates all failed for other reasons than quota is reported as
  `quota_exhausted` and closes the gate (`analyzer.py:142`); a lock of the metrics file that
  times out throws away a good answer (`analyzer.py:131`).
- One reservation covers a request that may be sent with every key in turn
  (`gemini_key_manager.py:75`). A stale lock is removed without looking whether it is still the
  stale one (`cache_store.py:42`).
- `docs/design/2026-05-18-loss-manager-v1.0.md:18` says that stop-loss orders "are not modified by
  this module"; after an addition the code places a new stop and cancels the old one
  (`loss_manager.cpp:490`). When that fails it is not tried again, and the old stop covers the
  quantity before the addition. The record of the new stop (520), like that of a moved take-profit
  (257, 310), is written after the answer without looking whether the position is still the same;
  it was looked at before the request only (434, 240, 283).
- The loss manager's state goes by symbol and is dropped only when a round finds the symbol
  untracked or flat (103, 112). A position that is closed and reopened between two rounds takes
  over its predecessor's count, pending addition and `originalQuantity`, where the design (15) says
  "the original entry quantity"; while the addition is pending, nothing else is done.
- The reconciler knows the take-profits named `gtp_` and the opener's as its own, not the loss
  manager's `lm_tp_`: it counts them as somebody else's and never cancels them as stale
  (`take_profit_reconciler.cpp:447`).

## 6 What is not covered

- Prices, quantities beyond lots, sizing, indicators, backtests, planning: floating-point series,
  out of TLC's reach. Where they decide something they are a free choice.
- The entry gates other than the Gemini filter: each says yes or no to one opening; nothing they
  keep is read across awaits by another component modelled here.
- Of the Gemini filter: autotune, the model resolver, prompts and parsing, metrics (only that they
  may fail), requests per minute (a reservation may be rejected for them), the change of the day, a
  disabled quota or cache, the temporary file two writers share. The flags that close the gate
  are taken as on, as they are by default. `TwoStep` is on in the violation run only.
- Of the qlib bridge: how runs score and select, training, prediction and export; the profiles of
  promotion; creation and migration of tables. A crash of the bot in the middle of a plan: it
  leaves the rows as they are and nobody takes the plan up again.
- Source that is counted but not part of the system: most Python files are vendored skills under
  `src/.agents`, so the modelled share of all lines says little.
- Order drafts, validation, mapping, the signer, header and JSON parsing: pure
  conversions of single values.
- Data races on a timer or a session used from two threads, beyond the interleavings above.
- Generation of ids: correlation and client ids are taken as distinct, though two counters
  could yield the same correlation id in the same millisecond.
- A venue that lags behind itself: an answer of `Exchange` is the venue's state at the moment it was
  served. `signal_engine.cpp:1915-1920` says that the position endpoint may lag a just-filled order;
  `PollRemovesOnlyFlat`, `JInv`, and the theorems `PollsRemoveOnlyFlat` and `PollsAndStopsStand` do not
  hold of such answers.
- `RecordStop` is one step for two critical sections of the tracker, the update and the comparison
  before it (`signal_engine.cpp:2606`, 2611): what another thread does between them is left out.
- An exception in `executeMarket` after its INSERT (`qlib_execution_planner.cpp:553-566`), which would
  leave the row pending: only a failure before or in the INSERT is modelled. Likewise a failing call
  for the metrics of a stale hit (`analyzer.py:286`), which would turn that score into an error.
- Text of journal lines: a cut in the middle of a field that changes its meaning after joining with
  the next record (a number that continues, say) is covered by `mid` and `late` only as far
  as the placement's state is concerned.
- Windows of the limiter other than the one modelled; HTTP/TLS/proxy connections; WebSockets, risk,
  schedulers, the publisher and the process manager: planned or out of scope, see
  `PROJECT.json`.

## 7 Plan

Done: the position's life, the calls, the orders' journal, the entry pipeline with its planner,
filter and quota, each with its theorems.

Next, in order of importance:

1. `LossManager` and `TakeProfitReconciler` as two further actors on the tracker and the
   venue of `Exchange`. Both write after awaits on copies, without comparing `openedAt`
   (`loss_manager.cpp:429`, `take_profit_reconciler.cpp:327`). Properties: no stop of another
   opening is recorded; two actors do not take each other's exits for strays. As a module beside
   `SignalEngine` that extends `Exchange`, with the opener reduced to commit and remove, so that
   its states stay apart from those of the engine.
2. `ModelStore`: manifest, database and daemon of `model_publisher`, `promotion_checker`,
   `qlib_state_store`, with crashes between rename and commit. Abstract specification: one current
   version, which changes atomically; the detailed one implements it up to recovery. Theorem:
   at most one active version.
3. `Schedulers`: candle and batch jobs with retries, health checks and daemon restarts
   (`process_manager`). Liveness: a due job is run or given up.
4. `UserStream`: subscriptions, reconnects, listen-key keepalive.
5. `RiskBreach`: recompute and restart of the breach state.

Runs: one passing run for each, small (two symbols or versions, one failure, one restart).
Theorems: type and safety invariants of each.
