---------------------------- MODULE RiskPipeline ----------------------------
(***************************************************************************)
(* The signal-audit pipeline, internal/risk/pipeline.go, with the signal   *)
(* gate (signal_gate_impl.go) and the exposure tracker                     *)
(* (trading_controls.go) it books into.                                    *)
(*                                                                         *)
(* ProcessSignal and the fill reconciliation are operators on the          *)
(* pipeline's record, so that BacktestEngine can call them; the actions    *)
(* drive them with any caller's signals and fills.  The other gates (pool, *)
(* prop firm, regime matrix, volatility halt) answer from the record g.    *)
(* Sizes are whole shares and money whole units: a quotient is rounded     *)
(* down.  A signal's size is the one after Kelly, regime and confidence    *)
(* multipliers.                                                            *)
(***************************************************************************)
EXTENDS Integers

CONSTANTS Symbols, Prices, Sizes,
          Capitals,            \* running capital of a signal
          Equities,            \* equity the caller reports
          MaxOpen,             \* bound on open positions
          MaxPositionPct, MaxTotalNotionalPct,  \* of the running capital
          MaxLeverage,                          \* times the equity
          MaxSymbolGrossPct,                    \* of the equity
          MaxBooked,           \* bound on a total of the exposure tracker
          None

ASSUME PipelineNatAssumption ==
    /\ Prices \subseteq Nat \ {0} /\ Sizes \subseteq Nat /\ Capitals \subseteq Nat /\ Equities \subseteq Nat
    /\ MaxPositionPct \in Nat /\ MaxTotalNotionalPct \in Nat
    /\ MaxLeverage \in Nat /\ MaxSymbolGrossPct \in Nat /\ MaxBooked \in Nat
    /\ MaxOpen \in Nat

VARIABLES pipe,       \* the pipeline's and the tracker's books
          positions   \* slot -> open position, or None

vars == <<pipe, positions>>

Sides == {"BUY", "SELL"}
Slots == 1 .. MaxOpen

\* symbolNotional, and the exposure tracker's totals, symbols and equity.
NewPipeline ==
    [notional |-> [s \in Symbols |-> 0],
     total |-> [d \in Sides |-> 0],
     gross |-> [d \in Sides |-> [s \in Symbols |-> 0]],
     equity |-> 0]

Init == pipe = NewPipeline /\ positions = [i \in Slots |-> None]

Pct(n, p) == (n * p) \div 100
Floor0(n) == IF n > 0 THEN n ELSE 0

-----------------------------------------------------------------------------
(* ExposureTracker.                                                        *)

\* Mutant: the order itself is not part of the exposure that is checked.
CheckOrder_Current(p, s, n) ==
    IF p.equity <= 0 THEN "equity_negative"
    ELSE IF MaxLeverage > 0 /\ p.total["BUY"] + p.total["SELL"] > MaxLeverage * p.equity
      THEN "max_leverage"
    ELSE IF MaxSymbolGrossPct > 0
            /\ (p.gross["BUY"][s] + p.gross["SELL"][s]) * 100 > MaxSymbolGrossPct * p.equity
      THEN "max_symbol_gross_exposure"
    ELSE "ok"

CheckOrder(p, s, n) ==
    IF p.equity <= 0 THEN "equity_negative"
    ELSE IF MaxLeverage > 0 /\ p.total["BUY"] + p.total["SELL"] + n > MaxLeverage * p.equity
      THEN "max_leverage"
    ELSE IF MaxSymbolGrossPct > 0
            /\ (p.gross["BUY"][s] + p.gross["SELL"][s] + n) * 100 > MaxSymbolGrossPct * p.equity
      THEN "max_symbol_gross_exposure"
    ELSE "ok"

AddPosition(p, s, d, n) ==
    [p EXCEPT !.total[d] = p.total[d] + n, !.gross[d][s] = p.gross[d][s] + n]

\* Mutant: the symbol's exposure is not clamped at zero.
RemovePosition_Unclamped(p, s, d, n) ==
    [p EXCEPT !.total[d] = p.total[d] - n, !.gross[d][s] = p.gross[d][s] - n]

\* The symbol's exposure is clamped at zero; the total is not.
RemovePosition(p, s, d, n) ==
    [p EXCEPT !.total[d] = p.total[d] - n, !.gross[d][s] = Floor0(p.gross[d][s] - n)]

SetEquityOf(p, e) == [p EXCEPT !.equity = e]

-----------------------------------------------------------------------------
(* ProcessSignal of an entry [sym, side, price, size, capital].  An exit   *)
(* is approved at once and touches nothing.                                *)

Reject(p, why) == [approved |-> FALSE, size |-> 0, reason |-> why, pipe |-> p]

\* 4c: one position is capped at MaxPositionPct of the running capital.
PositionCap(q) ==
    LET most == Pct(q.capital, MaxPositionPct)
    IN  IF most > 0 /\ q.size * q.price > most THEN most \div q.price ELSE q.size

\* 4d: what the aggregate cap of the symbol leaves of a size.
Available(p, q) == Pct(q.capital, MaxTotalNotionalPct) - p.notional[q.sym]

OverTotal(p, q, size) ==
    /\ Pct(q.capital, MaxTotalNotionalPct) > 0
    /\ size * q.price > Available(p, q)

\* The gates before the books are touched, in their order.
EarlyRefusal(q, g) ==
    IF q.capital <= 0 THEN "signal:capital_zero"
    ELSE IF g.volHalted THEN "signal:volatility_halt"
    ELSE IF g.limited THEN "signal:rate_limited"
    ELSE IF g.poolHalted THEN "pool_halted"
    ELSE IF g.firmHalted THEN "propfirm_halted"
    ELSE IF g.blocked THEN "regime_blocked"
    ELSE "ok"

Least(m, n) == IF m < n THEN m ELSE n

\* Steps 5 to 8, on books p already charged for `size' shares: a refusal here
\* leaves the charge.  The pool grants no more than it is asked for.  The firm's
\* cap comes last and may leave nothing of an approved size.
Authorise(p, q, g, size) ==
    LET why     == CheckOrder(p, q.sym, size * q.price)
        braked  == IF g.brake THEN size \div 2 ELSE size
        granted == Least(g.granted, braked)
        reduced == IF g.opposed THEN granted \div 2 ELSE granted
        final   == Least(g.firmCap, reduced)
    IN  IF why # "ok" THEN Reject(p, why)
        ELSE IF granted <= 0 THEN Reject(p, "capital")
        ELSE IF reduced <= 0 THEN Reject(p, "correlation_penalty")
        ELSE IF g.strategyDD THEN Reject(p, "per_strategy_drawdown")
        ELSE [approved |-> TRUE, size |-> final, reason |-> "ok",
              pipe |-> IF final > 0 THEN AddPosition(p, q.sym, q.side, final * q.price) ELSE p]

ProcessSignal(p, q, g) ==
    LET sized  == IF g.soft THEN q.size \div 2 ELSE q.size
        single == PositionCap([q EXCEPT !.size = sized])
        over   == OverTotal(p, q, single)
        size   == IF over THEN Available(p, q) \div q.price ELSE single
    IN  IF EarlyRefusal(q, g) # "ok" THEN Reject(p, EarlyRefusal(q, g))
        ELSE IF sized <= 0 THEN Reject(p, "size_zero")
        ELSE IF over /\ Available(p, q) <= 0 THEN Reject(p, "aggregate_notional_cap")
        ELSE Authorise([p EXCEPT !.notional[q.sym] = p.notional[q.sym] + size * q.price],
                       q, g, size)

\* The books' part of ReconcileFill and of ReconcileFillWithoutPropFirm: the
\* notional is released at the price of the exit.
Release(p, s, d, qty, price) ==
    RemovePosition([p EXCEPT !.notional[s] = Floor0(p.notional[s] - qty * price)],
                   s, d, qty * price)

\* SanitizeTradePnL: a PnL beyond the bound becomes 0.
SanitizeTradePnL(pnl, qty, entry, reference) ==
    LET byNotional == (qty * entry) \div 2
        byCapital  == reference \div 10
        least      == reference \div 50
        low        == IF byCapital < byNotional THEN byCapital ELSE byNotional
        most       == IF low < least THEN least ELSE low
    IN  IF pnl > most \/ -pnl > most THEN 0 ELSE pnl

-----------------------------------------------------------------------------
(* Actions: any caller.                                                    *)

\* What a caller's gates answer when none objects.
AllOpen(size) ==
    [volHalted |-> FALSE, limited |-> FALSE, poolHalted |-> FALSE, firmHalted |-> FALSE,
     blocked |-> FALSE, soft |-> FALSE, brake |-> FALSE, granted |-> size,
     opposed |-> FALSE, strategyDD |-> FALSE, firmCap |-> size]

\* One gate objects at a time, or none: no answer depends on a later gate.
Gates ==
    LET open == AllOpen(MaxBooked)
    IN  {open, [open EXCEPT !.volHalted = TRUE], [open EXCEPT !.limited = TRUE],
         [open EXCEPT !.poolHalted = TRUE], [open EXCEPT !.firmHalted = TRUE],
         [open EXCEPT !.blocked = TRUE], [open EXCEPT !.soft = TRUE],
         [open EXCEPT !.brake = TRUE], [open EXCEPT !.granted = 0],
         [open EXCEPT !.opposed = TRUE], [open EXCEPT !.strategyDD = TRUE],
         [open EXCEPT !.firmCap = 0]}

Approve(i, q, g) ==
    LET r == ProcessSignal(pipe, q, g)
    IN  /\ positions[i] = None /\ \A j \in 1 .. i - 1 : positions[j] # None
        /\ r.approved
        /\ \A d \in Sides : r.pipe.total[d] <= MaxBooked
        /\ pipe' = r.pipe
        /\ positions' = [positions EXCEPT ![i] =
               [sym |-> q.sym, side |-> q.side, qty |-> r.size, price |-> q.price]]

Refuse(q, g) ==
    LET r == ProcessSignal(pipe, q, g)
    IN  /\ ~r.approved
        /\ pipe' = r.pipe
        /\ UNCHANGED positions

ReconcileFill(i, price) ==
    LET pos == positions[i]
    IN  /\ pos # None
        /\ pipe.total[pos.side] - pos.qty * price >= -MaxBooked
        /\ pipe' = Release(pipe, pos.sym, pos.side, pos.qty, price)
        /\ positions' = [positions EXCEPT ![i] = None]

SetEquity(e) ==
    /\ pipe' = SetEquityOf(pipe, e)
    /\ UNCHANGED positions

Signals == [sym : Symbols, side : Sides, price : Prices, size : Sizes, capital : Capitals]

Next ==
    \/ \E q \in Signals, g \in Gates :
          \/ Refuse(q, g)
          \/ \E i \in Slots : Approve(i, q, g)
    \/ \E i \in Slots, price \in Prices : ReconcileFill(i, price)
    \/ \E e \in Equities : SetEquity(e)

Spec == Init /\ [][Next]_vars

-----------------------------------------------------------------------------
PipelineType ==
    [notional : [Symbols -> Nat], total : [Sides -> Int],
     gross : [Sides -> [Symbols -> Nat]], equity : Nat]

PositionType == [sym : Symbols, side : Sides, qty : Nat, price : Nat]

\* Type correctness; in particular no symbol's booked notional or exposure is
\* ever negative, whatever the exit prices.
TypeOK ==
    /\ pipe \in PipelineType
    /\ positions \in [Slots -> PositionType \cup {None}]

\* n is inside a limit; a limit of zero is switched off.
Respects(n, limit) == limit > 0 => n <= limit

\* Books p, with position pos in them, are inside the limits: the position and
\* the symbol's booked notional inside their shares of some running capital,
\* the account's exposure inside the leverage limit and the symbol's inside its
\* share of the equity.
InsideLimits(p, pos) ==
    /\ \E c \in Capitals :
          /\ Respects(pos.qty * pos.price, Pct(c, MaxPositionPct))
          /\ Respects(p.notional[pos.sym], Pct(c, MaxTotalNotionalPct))
    /\ MaxLeverage > 0 => p.total["BUY"] + p.total["SELL"] <= MaxLeverage * p.equity
    /\ MaxSymbolGrossPct > 0 =>
          (p.gross["BUY"][pos.sym] + p.gross["SELL"][pos.sym]) * 100
             <= MaxSymbolGrossPct * p.equity

\* Every approval of ProcessSignal is inside the limits in force.  The sizes
\* the brake, the pool and the caps leave never escape the checks made before
\* them, and a signal's charge never takes a symbol past its cap.
ApprovalWithinLimits ==
    [][\A i \in Slots :
          positions[i] = None /\ positions'[i] # None => InsideLimits(pipe', positions'[i])]_vars
=============================================================================
