--------------------------- MODULE BacktestEngine ---------------------------
(***************************************************************************)
(* The event loop of a backtest, Engine.Run and the functions it calls in  *)
(* internal/backtest/engine.go, over the engine's enforcer                 *)
(* (PropFirmEnforcer) and risk pipeline (RiskPipeline).                    *)
(*                                                                         *)
(* The API server keeps one engine: its enforcer, pipeline and signal      *)
(* diagnostics are fields of the engine, while capital, trades and pending *)
(* entries are locals of Run.  A handler is a process that calls Run; the  *)
(* shared fields carry over from one Run to the next.                      *)
(*                                                                         *)
(* A bar is read, a pending entry is filled at its open, an open trade may *)
(* exit, a signal may be generated.  Indicators, strategies and ML models  *)
(* are the nondeterminism of the signal and of the exit price; slippage    *)
(* moves a fill within the symbol's prices and may fill a part.            *)
(***************************************************************************)
EXTENDS Integers, FiniteSets

CONSTANTS Runs,             \* handlers that may call Run
          Symbols, PricesOf, \* symbol -> its prices
          Secondary,        \* hedge legs: config.SecondarySymbols
          PropFirm,         \* values of config.PropFirmEnabled
          InitialCapital, WarmUpBars, Sizes, Fee,
          DrawdownGuardPct, \* new entries stop beyond this drawdown
          DailyLossLimitPct, SoftHaltThresholdPct, HardHaltThresholdPct,
          MaxDrawdownPct, ConsistencyThreshold, ProfitTargetPct, MinTradingDays,
          MaxPositionPct, MaxTotalNotionalPct, MaxLeverage, MaxSymbolGrossPct,
          MaxBars,          \* bound on the candles of a run
          MaxRuns,          \* bound on the runs started
          None

VARIABLES run,    \* handler -> locals of its Run
          ftmo,   \* e.ftmo
          pipe,   \* e.pipeline
          diag,   \* e.signalDiag
          started

vars == <<run, ftmo, pipe, diag, started>>

Firm == INSTANCE PropFirmEnforcer
            WITH StartingBalance <- InitialCapital, PnLs <- {}, MaxMove <- 0,
                 MaxDays <- MaxBars, MaxPhase <- 1, verdict <- "none"

Books == INSTANCE RiskPipeline
            WITH Prices <- {}, Capitals <- {}, Equities <- {}, MaxOpen <- 0,
                 MaxBooked <- 0, positions <- <<>>

ASSUME FiniteAssumption == IsFiniteSet(Runs) /\ IsFiniteSet(Symbols)
ASSUME MoneyAssumption ==
    /\ PricesOf \in [Symbols -> SUBSET (Nat \ {0})] /\ Sizes \subseteq Nat
    /\ InitialCapital \in Nat \ {0} /\ Fee \in Nat
ASSUME FirmAssumption ==
    /\ PropFirm \subseteq BOOLEAN /\ Firm!HardLimit \in 1 .. 1000 /\ Firm!SoftLimit \in Nat
    /\ MaxDrawdownPct \in Nat /\ ConsistencyThreshold \in Nat /\ ProfitTargetPct \in Nat
    /\ MinTradingDays \in Nat
ASSUME PipelineAssumption ==
    /\ MaxPositionPct \in Nat /\ MaxTotalNotionalPct \in Nat
    /\ MaxLeverage \in Nat /\ MaxSymbolGrossPct \in Nat
ASSUME BarsAssumption == MaxBars \in Nat

Flat == [s \in Symbols |-> None]

Idle == [pc |-> "idle", bars |-> 0, day |-> FALSE, enabled |-> FALSE,
         capital |-> 0, peak |-> 0, pending |-> Flat, open |-> Flat,
         bar |-> None,    \* symbol and close of the candle in hand
         last |-> None,   \* symbol and close of the last candle read
         closed |-> None] \* the trade appended last: symbol and exit price

Init ==
    /\ run = [r \in Runs |-> Idle]
    /\ ftmo = None
    /\ pipe = Books!NewPipeline
    /\ diag = [attempts |-> 0, disposed |-> 0, passed |-> 0, opened |-> 0]
    /\ started = 0

-----------------------------------------------------------------------------
(* Run begins: the enforcer is new, pipeline and diagnostics are kept.     *)
(* Loading the data touches neither; a Run whose candles cannot be loaded  *)
(* returns before this step and changes nothing.                           *)

Start(r) ==
    /\ run[r].pc = "idle" /\ started < MaxRuns
    /\ started' = started + 1
    /\ \E enabled \in PropFirm :
          /\ run' = [run EXCEPT ![r] = [Idle EXCEPT !.pc = "loop", !.enabled = enabled,
                                            !.capital = InitialCapital, !.peak = InitialCapital]]
          /\ ftmo' = IF enabled THEN Firm!NewPropFirmEnforcer ELSE None
    /\ UNCHANGED <<pipe, diag>>

-----------------------------------------------------------------------------
(* The bar loop.                                                           *)

Bars == [sym : Symbols, close : UNION {PricesOf[s] : s \in Symbols}]
BarsOf(s) == {b \in Bars : b.sym = s /\ b.close \in PricesOf[s]}

\* OnNewDay, when the candle's date is not the last one seen.
DayTurned(f, d) == IF d /\ f # None THEN Firm!AfterNewDay(f) ELSE f

\* A universe snapshot drops the candle before its date is looked at.
SkipUniverse(r) ==
    /\ run[r].pc = "loop" /\ run[r].bars < MaxBars
    /\ \E s \in Symbols : \E b \in BarsOf(s) :
          run' = [run EXCEPT ![r] = [run[r] EXCEPT !.bars = run[r].bars + 1, !.last = b]]
    /\ UNCHANGED <<ftmo, pipe, diag, started>>

\* The news window, the earnings filter, the regime filter and a hard halt
\* drop the candle after the new day was announced.
SkipBar(r) ==
    LET me == run[r]
    IN  /\ me.pc = "loop" /\ me.bars < MaxBars
        /\ \E s \in Symbols, d \in BOOLEAN : \E b \in BarsOf(s) :
              /\ me.day \/ d
              /\ ftmo' = DayTurned(ftmo, d)
              /\ run' = [run EXCEPT ![r] = [me EXCEPT !.bars = me.bars + 1, !.last = b,
                                                      !.day = (ftmo # None) \/ me.day]]
        /\ UNCHANGED <<pipe, diag, started>>

\* A fill may be partial.
Filled(qty) == {qty, (qty + 1) \div 2}

\* executeEntry: the trade a signal becomes at a price.
Entry(sig, price, qty, bar) ==
    [side |-> sig.side, qty |-> qty, entry |-> price, booked |-> sig.booked,
     decided |-> sig.decided, filled |-> bar]

\* The candle is processed: a pending entry of its symbol fills at the open.
OpenBar(r) ==
    LET me == run[r]
    IN  /\ me.pc = "loop" /\ me.bars < MaxBars
        /\ \E s \in Symbols, d \in BOOLEAN : \E b \in BarsOf(s), o \in PricesOf[s] :
              /\ me.day \/ d
              /\ ftmo' = DayTurned(ftmo, d)
              /\ ftmo' # None => ~ftmo'.halted
              /\ LET in == [me EXCEPT !.pc = "exit", !.bars = me.bars + 1, !.bar = b, !.last = b,
                                      !.day = (ftmo # None) \/ me.day]
                 IN  IF me.pending[s] = None
                     THEN run' = [run EXCEPT ![r] = in] /\ UNCHANGED diag
                     ELSE \E qty \in Filled(me.pending[s].size) :
                            /\ run' = [run EXCEPT ![r] =
                                 [in EXCEPT !.pending[s] = None,
                                            !.open[s] = Entry(me.pending[s], o, qty, in.bars)]]
                            /\ diag' = [diag EXCEPT !.opened = diag.opened + 1]
        /\ UNCHANGED <<pipe, started>>

PnL(t, price, qty) ==
    LET raw == (IF t.side = "BUY" THEN price - t.entry ELSE t.entry - price) * qty - Fee
    IN  Books!SanitizeTradePnL(raw, qty, t.entry, InitialCapital)

\* capital += pnl, kept between 0 and a hundred times the initial capital.
AddToCapital(c, pnl) ==
    LET n == c + pnl
    IN  IF n > 100 * InitialCapital THEN 100 * InitialCapital ELSE Books!Floor0(n)

\* A stop, a target or a reverse signal closes the symbol's trade.  The part
\* an exit does not fill is dropped with the trade.
ExitTrade(r) ==
    LET me == run[r]  s == me.bar.sym  t == me.open[s]
    IN  /\ me.pc = "exit" /\ t # None
        /\ \E price \in PricesOf[s], qty \in Filled(t.qty) :
              /\ run' = [run EXCEPT ![r] =
                    [me EXCEPT !.pc = "signal", !.open[s] = None,
                               !.capital = AddToCapital(me.capital, PnL(t, price, qty)),
                               !.closed = [sym |-> s, price |-> price]]]
              /\ ftmo' = IF ftmo = None THEN None ELSE Firm!AfterFill(ftmo, PnL(t, price, qty))
              /\ pipe' = Books!Release(pipe, s, t.side, qty, price)
        /\ UNCHANGED <<diag, started>>

NoExit(r) ==
    /\ run[r].pc = "exit"
    /\ run' = [run EXCEPT ![r].pc = "signal"]
    /\ UNCHANGED <<ftmo, pipe, diag, started>>

\* The tail of the loop body raises the peak; `continue' skips it.
EndBar(me) ==
    [me EXCEPT !.pc = "loop", !.peak = IF me.capital > me.peak THEN me.capital ELSE me.peak]

StillOpen(r) ==
    /\ run[r].pc = "signal" /\ run[r].open[run[r].bar.sym] # None
    /\ run' = [run EXCEPT ![r] = EndBar(run[r])]
    /\ UNCHANGED <<ftmo, pipe, diag, started>>

GuardTrips(me) == me.peak > 0 /\ (me.peak - me.capital) * 100 > DrawdownGuardPct * me.peak

\* The drawdown guard, a hedge leg and the warm-up bars count an attempt and
\* leave the bar.
AttemptOnly(r) ==
    LET me == run[r]
    IN  /\ me.pc = "signal" /\ me.open[me.bar.sym] = None
        /\ GuardTrips(me) \/ me.bar.sym \in Secondary \/ me.bars <= WarmUpBars
        /\ run' = [run EXCEPT ![r].pc = "loop"]
        /\ diag' = [diag EXCEPT !.attempts = diag.attempts + 1]
        /\ UNCHANGED <<ftmo, pipe, started>>

\* Mutant: the check for an open trade is dropped.
MaySignal_WhileOpen(me) ==
    /\ me.pc = "signal"
    /\ ~GuardTrips(me) /\ me.bar.sym \notin Secondary /\ me.bars > WarmUpBars

MaySignal(me) ==
    /\ me.pc = "signal" /\ me.open[me.bar.sym] = None
    /\ ~GuardTrips(me) /\ me.bar.sym \notin Secondary /\ me.bars > WarmUpBars

\* generateSignal stops before the pipeline: the regime blocks, the strategy
\* panics, returns nothing or an exit, or the meta-labeler declines.
NoSignal(r) ==
    /\ MaySignal(run[r])
    /\ run' = [run EXCEPT ![r] = EndBar(run[r])]
    /\ diag' = [diag EXCEPT !.attempts = diag.attempts + 1, !.disposed = diag.disposed + 1]
    /\ UNCHANGED <<ftmo, pipe, started>>

\* The gates of the engine's pipeline.  WirePipeline ran before Run made the
\* enforcer, so the pipeline has neither a prop-firm gate nor a pool.
Gates(vol, size) == [Books!AllOpen(size) EXCEPT !.volHalted = vol]

\* generateSignal through the pipeline: an approved signal waits for the next
\* bar of its symbol.
PipelineSignal(r) ==
    LET me == run[r]  s == me.bar.sym
    IN  /\ MaySignal(me)
        /\ \E side \in Books!Sides, size \in Sizes, vol \in BOOLEAN :
            LET q   == [sym |-> s, side |-> side, price |-> me.bar.close, size |-> size,
                        capital |-> me.capital]
                res == Books!ProcessSignal(Books!SetEquityOf(pipe, me.capital), q, Gates(vol, size))
            IN  /\ pipe' = res.pipe
                /\ IF res.approved
                   THEN /\ diag' = [diag EXCEPT !.attempts = diag.attempts + 1,
                                                !.passed = diag.passed + 1]
                        /\ run' = [run EXCEPT ![r] = [EndBar(me) EXCEPT !.pending[s] =
                              [side |-> side, size |-> res.size, asked |-> size,
                               booked |-> res.size * me.bar.close, decided |-> me.bars]]]
                   ELSE /\ diag' = [diag EXCEPT !.attempts = diag.attempts + 1,
                                                !.disposed = diag.disposed + 1]
                        /\ run' = [run EXCEPT ![r] = EndBar(me)]
        /\ UNCHANGED <<ftmo, started>>

-----------------------------------------------------------------------------
(* End of data.                                                            *)

EndOfData(r) ==
    /\ run[r].pc = "loop"
    /\ run' = [run EXCEPT ![r].pc = IF run[r].bars = 0 THEN "idle" ELSE "flush"]
    /\ UNCHANGED <<ftmo, pipe, diag, started>>

\* Mutant: pending entries are dropped at the end of the data.
Flush_Drop(r) ==
    LET me == run[r]
    IN  /\ me.pc = "flush"
        /\ run' = [run EXCEPT ![r] = [me EXCEPT !.pc = "close", !.pending = Flat]]
        /\ UNCHANGED <<ftmo, pipe, diag, started>>

\* A pending entry, of whichever symbol, fills at the last candle's close.
Flush(r) ==
    LET me == run[r]
    IN  /\ me.pc = "flush"
        /\ \/ /\ me.pending = Flat
              /\ run' = [run EXCEPT ![r].pc = "close"] /\ UNCHANGED diag
           \/ \E s \in Symbols :
                /\ me.pending[s] # None
                /\ \E qty \in Filled(me.pending[s].size) :
                      run' = [run EXCEPT ![r] = [me EXCEPT !.pending[s] = None,
                          !.open[s] = Entry(me.pending[s], me.last.close, qty, me.bars)]]
                /\ diag' = [diag EXCEPT !.opened = diag.opened + 1]
        /\ UNCHANGED <<ftmo, pipe, started>>

\* Mutant: the books are released under the symbol of the last candle.
ClosedBooks_LastSymbol(me, s, price) ==
    Books!Release(pipe, me.last.sym, me.open[s].side, me.open[s].qty, price)

ClosedBooks(me, s, price) == Books!Release(pipe, s, me.open[s].side, me.open[s].qty, price)

\* An open trade closes at its stop, if the last candle hits it, and else at
\* the last candle's close.  The enforcer is not told.
CloseOut(r) ==
    LET me == run[r]
    IN  /\ me.pc = "close"
        /\ \E s \in Symbols :
              LET t == me.open[s]
              IN  /\ t # None
                  /\ \E price \in PricesOf[s] \cup {me.last.close} :
                        /\ run' = [run EXCEPT ![r] =
                              [me EXCEPT !.open[s] = None,
                                         !.capital = AddToCapital(me.capital, PnL(t, price, t.qty)),
                                         !.closed = [sym |-> s, price |-> price]]]
                        /\ pipe' = ClosedBooks(me, s, price)
        /\ UNCHANGED <<ftmo, diag, started>>

Finish(r) ==
    /\ run[r].pc = "close" /\ run[r].open = Flat
    /\ run' = [run EXCEPT ![r].pc = "idle"]
    /\ UNCHANGED <<ftmo, pipe, diag, started>>

Step(r) ==
    \/ SkipUniverse(r) \/ SkipBar(r) \/ OpenBar(r) \/ ExitTrade(r) \/ NoExit(r)
    \/ StillOpen(r) \/ AttemptOnly(r) \/ NoSignal(r) \/ PipelineSignal(r)
    \/ EndOfData(r) \/ Flush(r) \/ CloseOut(r) \/ Finish(r)

\* The server may stay idle; all the runs it will start may have ended.
Next == \E r \in Runs : Start(r) \/ Step(r)

Spec == Init /\ [][Next]_vars

-----------------------------------------------------------------------------
SignalType == [side : Books!Sides, size : Nat, asked : Nat, booked : Nat, decided : Nat]
TradeType == [side : Books!Sides, qty : Nat, entry : Nat, booked : Nat,
              decided : Nat, filled : Nat]

\* None stands for a nil pointer: it is no signal and no enforcer.
ASSUME NoneAssumption == None \notin SignalType /\ None \notin Firm!EnforcerType

\* Type correctness.
TypeOK ==
    /\ \A r \in Runs :
          /\ run[r].pc \in {"idle", "loop", "exit", "signal", "flush", "close"}
          /\ run[r].bars \in 0 .. MaxBars
          /\ run[r].capital \in 0 .. 100 * InitialCapital
          /\ run[r].pending \in [Symbols -> SignalType \cup {None}]
          /\ run[r].open \in [Symbols -> TradeType \cup {None}]
    /\ ftmo = None \/ ftmo \in Firm!EnforcerType
    /\ pipe \in Books!PipelineType
    /\ diag \in [attempts : Nat, disposed : Nat, passed : Nat, opened : Nat]

\* Every signal the pipeline passed has opened its trade or is still waiting:
\* none is lost or opened twice by skipped bars, halts or the end of the data
\* (signalDiag.SignalsPassed against TradesOpened).
PassedAreOpened ==
    diag.passed = diag.opened
        + Cardinality({rs \in Runs \X Symbols : run[rs[1]].pending[rs[2]] # None})

\* A symbol with a trade has no entry waiting behind it, so executeEntry never
\* overwrites an open trade.
OneTradePerSymbol ==
    \A r \in Runs, s \in Symbols : run[r].open[s] = None \/ run[r].pending[s] = None

\* What a signal was charged stays booked, in symbolNotional and in the
\* exposure tracker, until its trade closes: no other trade's release takes it
\* (one Run at a time).
BooksCoverOpen ==
    \A r \in Runs, s \in Symbols : \A t \in {run[r].pending[s], run[r].open[s]} \ {None} :
        pipe.notional[s] >= t.booked /\ pipe.gross[t.side][s] >= t.booked

\* "The entry must not fill at the close it was decided on -- that is
\* look-ahead" (engine.go:1610): a trade's fill is on a later bar than its
\* signal.  The bar loop defers every entry to the symbol's next bar; the flush
\* at the end of the data fills a signal of the last bar at that bar's close.
NoLookAhead ==
    \A r \in Runs, s \in Symbols :
        run[r].open[s] # None => run[r].open[s].filled > run[r].open[s].decided

\* "A trade on `sym` must only be updated on `sym`'s own candles"
\* (engine.go:881): its exit is at one of its own prices.  The close-out at the
\* end of the data uses the last candle of any symbol.
ClosedAtOwnPrice ==
    \A r \in Runs : run[r].closed # None => run[r].closed.price \in PricesOf[run[r].closed.sym]
=============================================================================
