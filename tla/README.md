# OrcaAlgo: a TLA+ model of the trading core

OrcaAlgo is a prop-trading platform: Go services (`cmd/`, `internal/`), Python
research code (`orca/`) and a React dashboard (`web/`). This directory holds TLA+
modules for the parts whose mistakes cost money and are hard to test: the risk
controls, the prop-firm gates and the backtest loop that runs through them, and
the concurrent machinery around them: the path of a market tick, matrix backtests
from submission to the dashboard, the WebSocket hub and the circuit breaker. Names
follow the Go code; `PROJECT.json` maps every definition to the lines it
translates, and lists the components, the hazards, the runs and the theorems.

## 1. The system

### Components

| part | state it keeps | operations | talks to | what is hard |
|---|---|---|---|---|
| kill switch, `internal/risk/kill_switch.go` | `halted`, `isLocked`, `killSwitchReady` (atomics), `reason`, callbacks, the reject window | `Trigger`, `Resume`, `OnTrigger`, `SetAccountCanceller`, `MonitorRejectRate` | broker adapter or account manager; callbacks mark the pools violated | lock-free code entered by several goroutines; `Resume` races it; fills arrive while it flattens; a callback may panic |
| capital pool, `internal/risk/capital_pool.go`, `internal/propfirm/pool_base.go` | balance, peak, profile, violated flag; per strategy: allocation, PnL, peak, suspension, open entries | `RequestCapital`, `RecordFill`, `ResetDaily`, `ResumeStrategy`, `SetProfile`, `UpdateState` | called by the pipeline and the live engine | the order of the checks, entries and allocation that must stay in step, clamping |
| multi-account pool, `internal/risk/multi_account_capital_pool.go` | account -> pool | lookups, `MarkAllViolated` | the pools | a read and a write of one pool under two separate locks |
| prop-firm manager, `internal/propfirm/profile.go` | profiles, active profile, one `State` record | `LoadProfile`, `ActivateProfile`, `RecordFill`, `CheckDailyLimits`, `DailyReset`, `AdvancePhase`, `MarkViolated` | HTTP handlers; `ReconcileFill` of the pipeline | five calls per fill, each its own critical section; balances that are stale when reported |
| prop-firm enforcer, `internal/backtest/propfirm_enforcer.go` | one record of balances, peaks, flags, breaches | `OnFill`, `OnNewDay`, `AdvancePhase`, `CheckDailyLimits`, `MarkViolated`, report | the backtest engine | fills, days and phases each reset a different subset |
| risk pipeline, `internal/risk/pipeline.go`, with the signal gate and the exposure tracker | `symbolNotional`, exposure per symbol and side, equity | `ProcessSignal`, `ReconcileFill`, `SetEquity` | pool, prop-firm gate, regime matrix, volatility halt | a long chain of gates; books charged early, released at another price |
| backtest engine, `internal/backtest/engine.go` | per `Run`: capital, open trades, pending entries, candle; per engine: enforcer, pipeline, counters | `Run`: skip or process a candle, fill, exit, signal, flush, close out | enforcer, pipeline, fill simulator | deferred entries, interleaved symbols, state that outlives a `Run` |
| tick ring buffer, `internal/ingest/ring_buffer.go` | `head`, `tail` (atomics), the slots, `overflowCount` | `Push`, `Pop` | one producer, one consumer, no lock | `Pop` gives the slot back before its tick is read; full and empty differ by one slot |
| market-data client and data pipeline, `internal/ingest/ws_client.go`, `internal/monitor/datapipeline.go` | the connection; the drain timer | `Connect`, `ReadLoop`; `Run`, `drainAndBroadcast` | the exchange, the ring buffer, the hub | failed reads, reconnects, a subscription that cannot be sent, a drain that ends at its limit |
| batch and matrix runner, `internal/backtest/batch_runner.go`, with its handlers in `internal/api/router.go` | workers, collected results, database rows | submit, `RunMatrixConcurrent`, the inserts afterwards | backtest engine, progress store, database | a bounded number of workers, panics, skipped combinations, failed inserts |
| matrix progress store, `internal/api/progress_store.go` | per batch: a state per combination, counters, results, status | `Create`, `UpdateCombo`, `GetSince`, `GetSummary`, `Cancel` | runner, handlers | a combination is reported twice, may fail, be cancelled while it runs |
| dashboard matrix stream, `web/src/hooks/useMatrixStream.ts`, `web/src/stores/matrixStore.ts` | cursor, known results, failures in a row | poll, apply a delta, stop | the two reads of the stream handler | lost answers, an answer mixed from two states |
| WebSocket hub, `internal/monitor/ws_hub.go` | broadcast channel, clients, a channel per client | `Broadcast`, `run`, `ServeWS`, `readPump`, `writePump` | producers, browsers | slow and dead clients, a channel that two parties may close |
| circuit breaker, `internal/breaker/circuit_breaker.go` | state, counters, time of the last failure | `Allow`, `RecordSuccess`, `RecordFailure`, `notify` | the clients of VIX, sentiment, LLM and Telegram; the audit log | a report arrives when the breaker is in another state than at the request |
| live engine, `internal/engine/live_engine.go` | per account halt, day, warm-up, positions | ticks, outcomes | pipeline, pools | one goroutine feeds it; not modelled |
| orchestrator and pool simulator, light optimizer | simulated pool | | engines | sequential; not modelled |
| broker registry, paper broker, account manager | adapters, health flags, accounts | orders, closes, health checks | order handlers, kill switch | fallback; not modelled |
| metrics, persistence, scheduler, routing, authentication, database, notifications, strategies, ML, Python | | | | I/O or numerics; not modelled |

### How they interact

A strategy's signal goes through the pipeline: early refusals, the per-position
and per-symbol caps, the exposure check, the pool's authorisation, the drawdown
gate, the prop-firm cap. An approval books notional and exposure. A fill is
reconciled with the same pipeline: it releases the books, and, where a capital gate
is wired, records the PnL in the pool and asks the prop-firm gate to check its
limits. The kill switch stands aside: an HTTP handler or the reject monitor triggers
it, it halts, flattens at the broker and marks every pool violated. A backtest
`Run` drives the same pipeline candle by candle with an enforcer of its own.

Around this core, the market-data client pushes ticks into the ring buffer and the
data pipeline drains it on a timer; what it computes is broadcast by
the hub. A matrix backtest is submitted to a handler, which creates a progress
record and starts a goroutine; its workers run one backtest each and report to the
record, the goroutine then writes the rows and reports each result once more with
its database id. The dashboard polls the record with a cursor. Clients of remote
services ask a circuit breaker before each call and report to it afterwards.

### What makes each part correct

* kill switch: one stop at a time; the ready flag tells who is executing; a stop
  leaves the account flat; every request to stop ends in a halt; a halt explains
  itself.
* pool: what is booked is what was approved and within the cap; limits stop new
  positions; a suspended strategy opens none until a resume; the peak is a high-water mark.
* gates: the backtest gate never forgives a breach and its profit target is earned;
  the live gate measures the drawdown from a peak that has seen the pool's money.
* pipeline: no size escapes the limits that were checked; what is free is free.
* backtest: every approved signal becomes one trade, on a later bar and at its own
  symbol's price (the code breaks both at the end of the data, section 5), and what
  is open is booked.
* tick path: the buffer is a bounded FIFO queue; what it loses it counts; what it
  stores is delivered.
* matrix run: counters, results and ids agree with what ran; each combination
  and the batch end; the client has every result up to its cursor and stops when the
  batch is over.
* hub: no send on a closed channel, no gap in a client's stream, no client that can
  stop it, and a dead client leaves.
* breaker: it can always recover, it follows the service, and its audit trail adds
  up.

## 2. Modules

| module | models | state and actions |
|---|---|---|
| `KillSwitch` | the kill switch | each goroutine is a process with a program counter; every load, store and CAS of `Trigger` and `Resume` is an action. `Monitor` is the reject goroutine. The broker (orders and positions of each account) is external. `undisturbed` is a history variable: no order placed and no broker call failed since the latest halt; `panicked`: a callback has panicked |
| `CapitalPool` | one account's pool, the exposure cap of the position sizer, `MarkAllViolated` as it acts on this pool | a method is one action because it holds the mutex; `RequestCapital` is one action per outcome; `MarkAllViolated` is two. `Fill` is a fill of this account, `ForeignFill` one that the live engine records in every account's pool. `held` is a history variable: the exposure approved and not yet closed |
| `PropFirmManager` | the live gate | a method is one action; a reconciler is a process of five steps: book in the pool, read its balance, give both to the gate, check, mark. `restarted` is a history variable: a profile or a phase began after the last booking |
| `PropFirmEnforcer` | the backtest gate | functions on the enforcer's record, one action per method; percentages are exact fractions |
| `RiskPipeline` | the pipeline, the signal gate's exposure calls, the exposure tracker | functions on the pipeline's record (`ProcessSignal`, `AddPosition`, `Release`, ...) and the actions `Refuse`, `Approve`, `ReconcileFill`, `SetEquity`; the gates outside the module answer nondeterministically (`Gates`) |
| `BacktestEngine` | `Engine.Run`, composed of `PropFirmEnforcer` (`Firm`) and `RiskPipeline` (`Books`) through INSTANCE | a `Run` is a process; its locals are the record `run[r]`; enforcer, pipeline and counters are shared, as in the engine |
| `BoundedFIFO` | nothing: it is what the ring buffer promises | `Put`, `Lose` (only when full), `Take` |
| `TickFeed` | ring buffer, market-data client, data pipeline | two processes (read loop and drain), one action per load and store of `Push` and `Pop`; a tick is its number in the stream; `delivered` is a history variable. `Queue` is the refinement mapping to `BoundedFIFO`: the arrival takes place where the outcome of a push is decided, the taking where `head` is stored |
| `MatrixRun` | handlers, runner, progress store, stream handler and polling client of one batch | the store's methods are functions on its record (`UpdateCombo`, `CloseBatch`), each call under the store's lock is one action; the batch's goroutine and every worker are processes; a combination is its number in the full product, and an `Engine.Run` is one step that succeeds, fails or panics. The goroutine itself may panic anywhere in its optimisation, its loop and its inserts; `run.orphaned` is a history variable: it left workers behind |
| `WSHub` | the hub and its clients' two goroutines | the hub copies one message to one client per action; a message is its number among those accepted |
| `CircuitBreaker` | the breaker and the goroutines that share it | a caller asks, calls, reports and notifies in separate actions; a clock tick ages the last failure; `up` is the remote service (external); `net` is the audit trail, as a balance per state |
| `*Proofs` | the theorems of a module; `HaltProofs` those of `KillSwitch` and `PropFirmManager`, `StreamProofs` those of `MatrixRun` and `WSHub` | definitions of `PropFirmManager` and `WSHub` carry the prefixes `Firm` and `Hub` so that one module can extend both |
| `MC*` | the instances TLC checks | |

Definitions introduced by a comment "Mutant", or named after another with an
underscore and a suffix (`CompareAndSwap_Store`), take the form a plausible bug would
take and are used by no specification. `PROJECT.json` pairs each checked property
with one that violates it.

Abstractions. Money and sizes are whole units, percentages are compared by cross
multiplication, so the boundary cases (inclusive, exclusive, zero denominators)
are the code's. Indicators, strategies, models, the volatility statistics and the
multipliers of the position sizer are nondeterministic: any signal, any size up to
the base. Slippage moves a fill within the symbol's prices; a fill may be partial.
Wall-clock time is "the window is over" and "the date changed". Logging,
formatting, metrics and the profile files are left out.

## 3. Runs

`tlc -config X.cfg M` for each entry of `runs` in `PROJECT.json`. Ten pass; two
end in a violation of what a comment of the code says. The type invariant of a
module with proofs is proved by TLAPS and repeated in a run only for `RiskPipeline`,
`BacktestEngine` and `MatrixRun`, where non-negative books, a bounded capital and
bounded counters are claims of their own.

| run | checks | shows |
|---|---|---|
| `kill_switch` | `SingleFlight`, `HonestFlightFlag`, `FlattenIsComplete`, `EveryTriggerHalts`, `RejectSpikeHalts` | a handler, the reject monitor and a resumer, two accounts, one callback that may panic: the guard is exclusive, the ready flag is honest until a panic, a stop whose calls succeed leaves its account flat even if orders fill while it runs; while nobody resumes, a refused trigger means another one halts, and reject batches that reach the threshold only together halt |
| `capital_pool_safety` | `AllocationWithinCap`, `BooksNeverOverstate`, `OpenPositionsLimited`, `SuspensionHolds`, `PeakIsHighWater` | two strategies, both sides of a symbol, profits that raise the peak and losses large enough to suspend, fills of other accounts, resumes, a profile that is exchanged while positions are open, and a mark between two fills |
| `propfirm_manager_safety` | `PeakCoversPool` | two reconcilers, profiles loaded and activated, phases and days: once every booked fill has reached the gate, its peak is not below the pool's balance, although the balances read between two locks arrive late and out of order |
| `propfirm_enforcer_safety` | `WithinLimitsUnlessHalted`, `TargetNeedsDays`, `BreachIsFinal` | three days, two phases and all methods in any order |
| `risk_pipeline_safety` | `TypeOK`, `ApprovalWithinLimits` | every answer of every gate, two open positions, exits above and below the entry, equity that falls between: an approval is inside the four limits that are checked on its way |
| `backtest_safety` | `TypeOK`, `PassedAreOpened`, `OneTradePerSymbol`, `BooksCoverOpen` | a run over two symbols of different price scale that are open at the same time, warm-up, partial fills, exits at other prices, with and without the enforcer |
| `tick_feed` | `EveryTickAccounted`, `IsFIFO`, `StoredIsDelivered` | a buffer of four slots that wraps around and overflows while the connection fails and is replaced: it refines `BoundedFIFO`, loses only what it counts, and a stored tick is delivered although a drain may end at its limit |
| `matrix_run` | `TypeOK`, `CountsAreExact`, `ResultsMatchRows`, `CursorIsExact`, `EveryComboEnds`, `BatchEnds`, `ClientStops` | a batch of three combinations on two workers, all three ways to submit it, with skipped and failing combinations, a panic of a worker or of the batch's goroutine (before, in or after its loop), failed batch and single inserts, a cancellation, and a client whose polls fail |
| `ws_hub` | `MembersAreOpen`, `NoMessageSkipped`, `HubNeverStalls`, `FailedLeaves` | two clients that stall, fail, are cut off and leave in every order |
| `circuit_breaker` | `NeverWedged`, `AuditTrailBalances`, `FollowsRemote` | three callers whose answers arrive in any state of the breaker, a service that fails and recovers at any time |
| `backtest_price` | violates `ClosedAtOwnPrice` | at the end of the data every trade closes at the last candle of whichever symbol comes last |
| `backtest_lookahead` | violates `NoLookAhead` | a signal decided on the last bar is filled at the close of that bar |

### Bounds

Bounds are guards on counters and are named constants (`MaxRejects`,
`MaxCallbacks`, `MaxBalance`, `MaxHeld`, `MaxDays`, `MaxBars`, ...).

* A handler, the monitor and a resumer are enough for the kill switch: the guard
  admits one caller, the other is the one it refuses or that passes on a stale read
  of `halted`, and each may call again. The proofs are for any number of callers.
* The pool runs with a base size of 7 and a cap of 30% (2 units), so one strategy
  fills its cap with one position and overfills it if the cap forgets the other; a
  fill of 6 units either way crosses the 5% at which a strategy is suspended. The
  balance moves between 100 and 106: a profit raises the peak, and the fall back to
  the start suspends. `MaxHeld` lets one strategy be approved one unit more than its cap.
* The manager's fills are 5% of the balance: one reaches FTMO's daily limit exactly,
  two pass the consistency threshold or, one day after the other, the drawdown. Two
  reconcilers are two balances in hand, one of them stale.
* The enforcer's fills are -5%, -2.5% and +2.5%: one step to the limit, or two with
  the soft halt between.
* A pipeline with room for two or three units, positions of one or two, prices 1
  and 2 and an equity that falls to 1 meets every cap from both sides.
* Four candles hold a warm-up, a signal, its fill and its exit, or the entries of
  both symbols and the end of the data with both open. Runs that follow each other or
  overlap are the subject of the proofs, not of a run of TLC.
* Six ticks through four slots (three of which can be full) wrap both indices and
  overflow; a drain of at most two ends with ticks left over.
* Three combinations on two workers: one waits for a worker. Batches of two rows
  leave a short last batch. One combination can be skipped and one filtered out.
* Two hub clients with channels of two messages and four messages: each client can
  fall behind until it is cut off while the other keeps up.
* Three callers and a threshold of three: a streak needs all of them, or one of them
  repeatedly, and one may be late while the others open, probe and close.
  `failureCount` is counted up to the threshold and the age of the last failure up
  to the timeout; the code compares neither beyond.

Symmetry is used only for interchangeable ids (strategies, symbols, profiles,
reconcilers) and never in a run with a liveness property. Deadlock checking is off
in the backtest runs (an engine that has run its last `Run` stops), in `tick_feed`
(a server that is shut down, or whose exchange sends nothing more) and in `ws_hub`
(the messages are finite and the clients may all be gone). In `matrix_run` and
`circuit_breaker` it is on.

### Fairness

`KillSwitch!FairSpec`: a goroutine inside `Trigger` or `Resume` takes its next
step. Go's scheduler runs every runnable goroutine, the broker calls carry a 30 s
context, and nothing inside waits for another goroutine. Nobody is obliged to call
`Trigger`, to place an order or to send a reject. The two liveness properties are
stated for behaviours in which nobody resumes: a resume is meant to lift a halt.

`TickFeed!FairSpec`: a push or a drain that has begun goes on, and the timer fires.
Both are goroutines that wait for nobody. Nothing is assumed of the exchange, the
connection or its reconnects.

`MatrixRun!FairSpec`: the batch's goroutine and its workers run (a worker's backtest
ends, since its data is finite), and the client's timer fires. Which polls fail is
open, and so are cancellation and panics. `BatchEnds` is stated for a batch of
`submitBacktest` with something to run: its record counts what its runner is given.
A cancelled combination has ended for `EveryComboEnds`, whatever its worker does
later.

`WSHub!HubFairSpec`: the hub's goroutine runs; a failed read returns; a client that
waits to unregister is eventually selected (strong fairness: Go's `select` picks
among the ready cases at random). Nothing is assumed of a write, which has no
deadline: the hub must not depend on it.

`CircuitBreaker!FairSpec`: time passes, a caller that was let through reports and
notifies, callers come back, and a request ends. The last one holds for the clients
with an HTTP timeout; Telegram's `http.Post` has none. It is strong fairness,
because a request that cannot be built ends without a report: not every request
does.

## 4. Proofs

`tlapm` checks eight modules; each theorem holds for every value of the constants
that satisfies the module's assumptions.

* `HaltProofs`, kill switch: type correctness, `SingleFlight`, `HonestFlightFlag`,
  `FlattenIsComplete`, `HaltHasReason`. The inductive
  invariant `IInv` joins them, because each leans on another: who is in flight
  holds the guard (`SingleFlight`), so the ready flag has one writer
  (`FlightInv`); after the cancel call no order rests (`CancelledInv`), so closing
  the positions is final (`FlattenIsComplete`); the reason is stored before the
  flag by the only caller inside (`ReasonInv`).
* `HaltProofs`, prop-firm manager: type correctness and `PeakCoversPool`, for any
  number of reconcilers. `PeakInv` carries the step from the booking to the report:
  unless the peak already covers the pool, some reconciler has yet to read the balance
  or holds one that is not below it.
* `CapitalPoolProofs`: type correctness (no allocation below zero),
  `AllocationWithinCap`, `BooksNeverOverstate`, `PeakIsHighWater`, `SuspensionHolds`,
  `OpenPositionsLimited`. `IInv` is the cap, the coverage of entries and
  `peak >= balance`. The sum of a strategy's entries is the number of their units
  (`Units`), a set that a step changes by an interval of one position's units;
  so `CoveredStep` needs no induction over the entries, and finiteness of the units
  is part of what is carried from step to step. The limits on
  positions rest on the lemmas that only `RequestNew` opens one and that only requests
  raise the approved exposure (`OnlyRequestsExpose`), neither of them a fill of any
  account; the count of open positions rises by at most one, by the finite-set
  theorems.
* `PropFirmEnforcerProofs`: type correctness, `WithinLimitsUnlessHalted`,
  `TargetNeedsDays`, `BreachIsFinal`. One lemma per method says what it does to a
  record that is inside its limits. The daily limit is a quotient of a denominator
  that falls back to the starting balance when the day began at zero or below;
  the lemma `SolventUntilBreached` excludes this case: with a hard limit of at most
  100% a record inside it has a positive balance, so the next day has a
  denominator of its own. The assumption is what every profile in the repository
  satisfies.
* `RiskPipelineProofs`: type correctness and `ApprovalWithinLimits`, for every limit,
  price and size. The type invariant suffices; the work is in the operators: what
  passes `CheckOrder` fits, and so does anything smaller (`CheckOrderIs`); the steps
  after it only shrink a size (`AuthoriseIs`); the size that is charged is inside
  both caps (`ProcessSignalIs`, with quotients rounded down); only an approval opens
  a position. A limit of zero is switched off, as in the code.
* `TickFeedProofs`: type correctness, `PoppedTickIsStable`, `EveryTickAccounted` and
  the refinement `IsFIFO`, for every capacity. `IInv` says that the loaded copy of
  `head` is at most as fresh as `head` itself, so the buffer looks fuller to the
  producer than it is and never emptier; hence the slot it writes is neither one
  that waits nor the one just popped. The refinement is proved as a step
  simulation: each step is a `Put`, `Lose` or `Take` of the queue, or leaves it
  unchanged. Lemmas on `Contents` (append at the tail, take at the head, unchanged
  by a write to a free slot) carry the modular arithmetic.
* `BacktestEngineProofs`: `TypeOK`, `PassedAreOpened` and `OneTradePerSymbol`, for any
  number of handlers whose runs interleave in any way, any symbols, prices and bars;
  `BooksCoverOpen` for runs that do not overlap. `IInv` says of each run which candle
  it holds (`Candles`: the
  candle's symbol has nothing waiting, since its open filled it), when nothing may be
  waiting or open (`Flats`), and that a waiting entry was decided on a candle already
  read (`Single`); of the shared fields that the enforcer is halted or inside its
  limits and the books are well typed. One lemma per action shows that it is a step
  of one run that is `Good`: it keeps the invariant, moves `passed`, `opened` and the
  set of waiting entries together, and keeps the books in line with what is open. What the
  enforcer and the pipeline do comes from the lemmas of `PropFirmEnforcerProofs` and
  `RiskPipelineProofs`, instantiated with every PnL, price and size; `SameFirm` and
  `SameBooks` identify the operators of the instances. Assumed of the constants:
  finitely many handlers and symbols, positive prices and capital, limits that are
  natural numbers, and a hard daily limit of at most 100%.
  `BooksCoverOpen` has the hypothesis `Solo`: at most one handler is inside `Run`. The
  server does not enforce it; section 5 says what overlapping runs do to the shared
  enforcer and books.
* `StreamProofs`, matrix run: `TypeOK`, `CountsAreExact`,
  `ResultsMatchRows`, `CursorIsExact`, for any product of symbols, strategies and
  timeframes and any number of workers. `StoreBase` is what each call under
  the store's lock keeps of a record in every case: its results and the number of
  combinations that ended. `StoreInv` adds that every other counter is the
  cardinality of a set of combinations, which an update moves by one (`CountUpdate`);
  it holds until a panic of the goroutine leaves workers behind (`run.orphaned`),
  whose later reports the recovery has anticipated (`OrphanStep`). `Position`,
  `Workers` and `Collected` say where the batch's goroutine and its workers are, so
  that a combination is never reported as ended twice; `Stream` is what the client
  holds between its two reads.
* `StreamProofs`, hub: type correctness (channels within their capacities),
  `MembersAreOpen`, `NoMessageSkipped`, for any number of clients. They are
  inductive together with `HubInv` (the broadcast channel is contiguous and the
  message in hand is the latest taken) and `ClientInv` (a client that the hub knows
  has a running reader; one that has not registered has an empty, open channel).
* `CircuitBreakerProofs`: type correctness, `NeverWedged`, `AuditTrailBalances`, for
  any number of callers and any thresholds. The audit trail counts callers that owe
  a notification, so each report changes one of two cardinalities by one, by the
  finite-set theorems; `AuditInv` adds that a caller that owes nothing holds the
  empty event.

Only model-checked: liveness under fairness, which the prover cannot express
(`EveryTriggerHalts`, `RejectSpikeHalts`, `StoredIsDelivered`, `EveryComboEnds`,
`BatchEnds`, `ClientStops`, `HubNeverStalls`, `FailedLeaves`, `FollowsRemote`).
Every invariant and action property of a passing run is the subject of a theorem.

## 5. Divergences met while modelling

Two findings have runs. `backtest_price`: the close-out takes another symbol's price
(`engine.go:1157` against `engine.go:881`). `backtest_lookahead`: the flush at the end
of the data fills a signal of the last bar at the close it was decided on
(`engine.go:1139` against `engine.go:1610` and `engine.go:765`). Besides them the code
departs from what its comments and documents say in these places. No run is kept for them.

Risk core and backtest; TLC produced a counterexample of each in the models:

* `kill_switch.go:61`: `halted` is not read again after the CAS, so of two
  concurrent calls both may run the stop and return nil (`kill_switch_test.go:162`:
  "exactly 1 goroutine should succeed").
* `kill_switch.go:103`: a callback that panics skips the store that restores
  `killSwitchReady`, which stays 0 with nobody executing
  (`kill_switch.go:21`: "1=ready to fire, 0=already executing"). If the panic is
  recovered above, as `net/http` does, the switch never fires again.
* `kill_switch.go:64`: `Resume` does not wait for a `Trigger` in flight; a stop that
  is requested after the resume and before that call has ended is refused, and
  nothing halts.
* `profile.go:147`: the drawdown check rebuilds the balance from the day's PnL,
  which a day's end zeroes; a drawdown spread over days is never reported
  (`README.md:240`: "10% max DD (HWM)").
* `pipeline.go:182`, `pipeline.go:308`: notional charged for a signal that a later
  gate refuses, or released at a lower price than it was charged, stays booked
  (`pipeline.go:61`: "cumulative open notional per symbol").
* `capital_pool.go:121`: a request for a position that is already open is answered
  before the suspension and limit checks, so a suspended strategy keeps adding
  (`README.md:237`: "Strategy suspended ... requires manual resume").
* `capital_pool.go:127`: such an addition is not booked, so each one is measured
  against the same stale allocation (`position_sizer.go:86`).
* `capital_pool.go:151`: the daily-loss check reads `poolState.DailyPnL`, which
  nothing writes; it never refuses (`capital_pool.go:147`).
* `multi_account_capital_pool.go:156`: a fill between `MarkAllViolated`'s read and
  write is lost from the balance (`interfaces.go:16`).
* `profile.go:98`: activating or editing a profile clears its violation
  (`interfaces.go:59`: "permanently").
* `profile.go:188`: the phase has no upper bound (`interfaces.go:63`: "1 or 2").
* `pipeline.go:299`: a second fill between the first one's `OnFill` and
  `CheckDailyLimits` can lift the day above its limit before anybody looks
  (`README.md:84`); the verdict is used after the lock it was reached under, so it may
  mark a profile that was activated meanwhile.
* `propfirm_enforcer.go:175`: a soft halt outlives its day (`pipeline.go:137`).
* `propfirm_enforcer.go:292`: `CheckDailyLimits` has the sense of its checks
  inverted (`propfirm_enforcer.go:289`).
* `propfirm_enforcer.go:280`: the report looks for a breach code nobody records, so
  `MaxDailyLossPct` is always 0.
* `pipeline.go:308`: an exit above the entry price releases what other positions
  booked, and the aggregate cap admits more than its limit (`pipeline.go:164`).
* `engine.go:1063`: hedge legs, warm-up bars and the drawdown guard count an
  attempt and no disposition (`funnel_invariant_test.go:10`).
* `engine.go:1132`: entries that wait are opened after a hard halt
  (`README.md:239`).
* `engine.go:560`: the pipeline is wired before `Run` makes the enforcer and never
  asks it, so a soft halt does not halve positions (`README.md:239`).
* `engine.go:1201`: the close-out at the end of the data does not reach the
  enforcer (`interfaces.go:36`).
* `engine.go:744`, `engine.go:746`: the engine's books and counters outlive a
  `Run`, and two concurrent `Run`s share one enforcer (`slippage.go:58`).

Matrix backtests; all of these are visible in the steps of `MatrixRun`:

* `progress_store.go:182`: a failure is counted in `Failed` and in `Completed` and
  their sum closes the batch, so it is reported completed while combinations still
  run, and the client stops polling. Line 175 asks for `Running == 0` first, line 182
  does the same without asking.
* `router.go`, `submitMatrix`: the record counts the full product, the runner the
  combinations that `strategyTimeframeAllowed` keeps; skipped combinations are never
  reported either. Such a batch never completes, and its indices are those of other
  combinations. A batch with nothing to run stays "running".
* `progress_store.go`, `Cancel`: the workers do not look at it. They go on
  and report, the remaining combinations are started, their reports overwrite
  "cancelled" and may set the status back to completed, and `Running`, which the
  cancellation leaves as it is, goes wrong both ways: it is not lowered for a
  combination cancelled while it ran, and lowered but never raised for one that was
  cancelled before it started (`CancelButton.tsx:6`: "stops a running matrix batch";
  `router.go:2808`: "Mark remaining combos as cancelled").
* `router.go:1323`: when the goroutine panics inside the runner's loop, the recovery
  fails every combination that has not ended, those that run included; their workers
  report once more, so `Failed` may count one twice and a combination that the
  recovery failed may end without a result in the record.
* `router.go:2793`: results and summary of one answer come from two separate locks;
  a result that is replaced by the one with its database id is not sent again. A client
  whose results were read before the last one and whose summary after it sees
  "completed" and stops without the last result.
* batch ids have a resolution of one second; `SetRepo`, `RecoverFromDB` and
  `StartCleanupJob` have no caller, so no batch survives a restart.

Market data, hub and breaker:

* `cmd/orca-server/main.go:238`: the first connection of the market-data client is
  not retried; only a loop that has begun reconnects.
* `ws_client.go`: after a reconnect whose subscription failed the client reads from
  a connection that sends nothing; after a failed reconnect it reads from the failed
  one again.
* `ring_buffer.go`, `OverflowCount` reports the free slots and not the drops.
* `ws_hub.go`: neither reads nor writes have a deadline, so a client whose peer is
  silent keeps its goroutines.
* `circuit_breaker.go:121`: a half-open breaker admits every caller until one of
  them reports (lines 46-48: "limited number of trial requests"); a late failure
  restarts the cooling period of an open breaker and is audited as open to open; the
  audit log may hold the events in another order than they happened.

Read in the source of parts that are not modelled:

* the server never calls `SetAccountCanceller`, accounts register under one manifest
  ID and replace each other in the registry (`account_manager.go:135`), and the
  order handler does not ask the kill switch (`router.go:1931`): a stop reaches the
  adapter registered last and does not prevent further orders.
* `live_engine.go`: stops of all symbols are checked against the current symbol's
  candle; a halt by the adversarial guard keeps the positions that `Halt` clears. A
  fill is recorded in every account's pool (line 610), which the comment above it
  (line 608: "the running engine's first account") does not say; `CapitalPool` models
  the effect on a pool that holds nothing of it (`ForeignFill`). The live pipeline is built
  without a capital gate (`router.go:379`).
* `orchestrator.go:369`: a signal the pipeline rejected is entered at its full base
  size.

## 6. Not modelled

Numerics (HMM, volatility z-scores, slippage distributions, indicators, ML, the
light optimizer) are out of TLC's reach and enter as nondeterminism. Database,
notifications, metrics, authentication, routing and the Python code are I/O or share
no state with the modelled parts; of the dashboard only the matrix stream is
modelled. In the backtest engine, the inline sizing path of an engine without a
pipeline, the metrics and the loading of data are left out, and a panic that `Run`
recovers is not an action.

The live engine is a deterministic loop over ticks in one goroutine: `cmd/orca-engine`
feeds it and the server never constructs one. Its decisions are those of the
pipeline and the pool. The orchestrator opens and closes a position within one
candle. The broker registry's fallback depends on whether an operation that failed
had taken effect, which only the broker knows. The paper broker fills at once under
one lock. `RunBatchOptimize` and the walk-forward pass of the matrix runner are
sequential. Much of the repository besides (`.research/`, generated protocol code)
is other programs. `PROJECT.json` gives the reason for each component.

## 7. Plan

1. Proofs: how far overlapping runs may drift from the shared enforcer, without
   `Solo`.
2. `PaperBroker` with the account manager's fan-out and the order handler, composed
   with `KillSwitch` in place of its external broker.
3. `LiveEngine` composed with `RiskPipeline` and `CapitalPool`, should the server
   come to run one per account in goroutines of their own.
