-------------------------- MODULE PropFirmEnforcer --------------------------
(***************************************************************************)
(* The prop-firm gate of a backtest, internal/backtest/                    *)
(* propfirm_enforcer.go.  The enforcer belongs to one run and takes no     *)
(* lock.  Its methods are operators on the enforcer's record, so that      *)
(* BacktestEngine can call them; the actions call them in any order, as    *)
(* the PropFirmGate interface lets a caller.                               *)
(*                                                                         *)
(* Money is in whole units; percentages are in tenths of a percent (4.5%   *)
(* is 45).  DailyPnLPct is kept as the pair it is the quotient of.         *)
(* DailyPnL is left out: no rule reads it.                                 *)
(***************************************************************************)
EXTENDS Integers

CONSTANTS StartingBalance,
          DailyLossLimitPct, SoftHaltThresholdPct, HardHaltThresholdPct,
          MaxDrawdownPct, ConsistencyThreshold, ProfitTargetPct,
          MinTradingDays,
          PnLs,        \* PnL of one closed trade
          MaxMove,     \* bound on |CurrentBalance - StartingBalance|
          MaxDays,     \* bound on TradingDays
          MaxPhase     \* bound on the phase

HardLimit == IF HardHaltThresholdPct > 0 THEN HardHaltThresholdPct ELSE DailyLossLimitPct
SoftLimit == IF SoftHaltThresholdPct > 0 THEN SoftHaltThresholdPct ELSE (HardLimit * 9) \div 10

ASSUME BalanceAssumption == StartingBalance \in Nat \ {0}
ASSUME LimitAssumption ==
    /\ HardLimit \in 1 .. 1000 /\ SoftLimit \in Nat /\ MaxDrawdownPct \in Nat
    /\ ConsistencyThreshold \in Nat /\ ProfitTargetPct \in Nat
ASSUME EnforcerPnLAssumption == PnLs \subseteq Int
ASSUME EnforcerBoundAssumption ==
    MinTradingDays \in Nat /\ MaxMove \in Nat /\ MaxDays \in Nat /\ MaxPhase \in Nat \ {0}

VARIABLES ftmo,     \* the enforcer
          verdict   \* what the last CheckDailyLimits answered

vars == <<ftmo, verdict>>

Reasons == {"", "daily_loss_limit_hard", "max_drawdown", "external"}
Codes == {"DAILY_DD_HARD", "DAILY_DD_SOFT", "CONSISTENCY"}

\* DailyPnLPct of a day without fills: 0%.
NoChange == [of |-> 0, by |-> StartingBalance]

NewPropFirmEnforcer ==
    [bal |-> StartingBalance, dayStart |-> StartingBalance, peak |-> StartingBalance,
     pct |-> NoChange, cum |-> 0,
     halted |-> FALSE, soft |-> FALSE, reason |-> "",
     penalised |-> FALSE,      \* ConsistencyMultiplier is the penalty, not 1.0
     breaches |-> {},          \* the codes in DailyBreaches
     days |-> 0, met |-> FALSE, phase |-> 1]

Init == ftmo = NewPropFirmEnforcer /\ verdict = "none"

-----------------------------------------------------------------------------
(* The rules of internal/propfirm/rules.go.                                *)

DailyLossExceeded(start, cur, pct) ==
    IF start <= 0 THEN 0 <= -pct ELSE (cur - start) * 1000 <= -(pct * start)

DrawdownExceeded(peak, cur, pct) == peak > 0 /\ (peak - cur) * 1000 > pct * peak

DayStart(f) == IF f.dayStart > 0 THEN f.dayStart ELSE StartingBalance

HardBreached(f) == DailyLossExceeded(DayStart(f), f.bal, HardLimit)
SoftBreached(f) == DailyLossExceeded(DayStart(f), f.bal, SoftLimit)

-----------------------------------------------------------------------------
(* The methods.  A Check method that answers and updates is an operator    *)
(* for its update; its answer is a predicate of the same state.            *)

\* Mutant: the balance is compared with the start of the run, not of the day.
CheckDailyLoss_FromStart(f) ==
    IF DailyLossExceeded(StartingBalance, f.bal, HardLimit)
    THEN [f EXCEPT !.halted = TRUE, !.soft = TRUE, !.reason = "daily_loss_limit_hard"]
    ELSE f

\* Returns false exactly when HardBreached(f).
CheckDailyLoss(f) ==
    LET g == [f EXCEPT !.pct = [of |-> f.bal - DayStart(f), by |-> DayStart(f)]]
    IN  IF HardBreached(f)
        THEN [g EXCEPT !.halted = TRUE, !.soft = TRUE, !.reason = "daily_loss_limit_hard",
                       !.breaches = f.breaches \cup {"DAILY_DD_HARD"}]
        ELSE IF SoftBreached(f)
        THEN [g EXCEPT !.soft = TRUE, !.breaches = f.breaches \cup {"DAILY_DD_SOFT"}]
        ELSE g

RaisePeak(f) == IF f.bal > f.peak THEN f.bal ELSE f.peak

\* Returns false exactly when the drawdown from the raised peak is too deep.
CheckDrawdown(f) ==
    LET g == [f EXCEPT !.peak = RaisePeak(f)]
    IN  IF DrawdownExceeded(g.peak, g.bal, MaxDrawdownPct)
        THEN [g EXCEPT !.halted = TRUE, !.reason = "max_drawdown"]
        ELSE g

CheckConsistency(f) ==
    IF f.pct.of * 1000 > ConsistencyThreshold * f.pct.by
    THEN [f EXCEPT !.penalised = TRUE, !.breaches = f.breaches \cup {"CONSISTENCY"}]
    ELSE f

CheckProfitTarget(f) ==
    IF f.cum * 1000 >= ProfitTargetPct * StartingBalance /\ f.days >= MinTradingDays
    THEN [f EXCEPT !.met = TRUE]
    ELSE f

AfterFill(f, pnl) ==
    CheckProfitTarget(CheckConsistency(CheckDrawdown(CheckDailyLoss(
        [f EXCEPT !.bal = f.bal + pnl, !.cum = f.cum + pnl]))))

\* Mutant: the new day clears the halt with the day's figures.
AfterNewDay_ClearsHalt(f) ==
    LET g == CheckProfitTarget([f EXCEPT !.days = f.days + 1])
    IN  [g EXCEPT !.dayStart = g.bal, !.pct = NoChange,
                  !.penalised = FALSE, !.halted = FALSE]

\* softHalted is not among the fields a new day resets.
AfterNewDay(f) ==
    LET g == CheckProfitTarget([f EXCEPT !.days = f.days + 1])
    IN  [g EXCEPT !.dayStart = g.bal, !.pct = NoChange,
                  !.penalised = FALSE]

\* Mutant: the new phase keeps the old phase's profitTargetMet.
AfterAdvancePhase_KeepsTarget(f) ==
    [f EXCEPT !.phase = f.phase + 1, !.pct = NoChange,
              !.cum = 0, !.peak = f.bal, !.days = 0, !.penalised = FALSE]

AfterAdvancePhase(f) ==
    [f EXCEPT !.phase = f.phase + 1, !.met = FALSE,
              !.pct = NoChange,
              !.cum = 0, !.peak = f.bal, !.days = 0, !.penalised = FALSE]

\* CheckDailyLimits asks for "not ok" where it means "ok": a CheckDailyLoss
\* that passes is answered with (false, "daily_loss"), and one that fails
\* goes on to CheckDrawdown, whose pass is answered with "max_drawdown".
LimitsVerdict(f) ==
    IF ~HardBreached(f) THEN "daily_loss"
    ELSE IF ~DrawdownExceeded(RaisePeak(f), f.bal, MaxDrawdownPct) THEN "max_drawdown"
    ELSE "ok"

AfterLimits(f) ==
    IF ~HardBreached(f) THEN CheckDailyLoss(f) ELSE CheckDrawdown(CheckDailyLoss(f))

-----------------------------------------------------------------------------
(* Actions.                                                                *)

OnFill ==
    \E pnl \in PnLs :
        /\ ftmo.bal + pnl - StartingBalance \in -MaxMove .. MaxMove
        /\ ftmo' = AfterFill(ftmo, pnl)
        /\ UNCHANGED verdict

OnNewDay ==
    /\ ftmo.days < MaxDays
    /\ ftmo' = AfterNewDay(ftmo)
    /\ UNCHANGED verdict

AdvancePhase ==
    /\ ftmo.phase < MaxPhase
    /\ ftmo' = AfterAdvancePhase(ftmo)
    /\ UNCHANGED verdict

CheckDailyLimits ==
    /\ ftmo' = AfterLimits(ftmo)
    /\ verdict' = LimitsVerdict(ftmo)

MarkViolated ==
    /\ ftmo' = [ftmo EXCEPT !.halted = TRUE, !.reason = "external"]
    /\ UNCHANGED verdict

Next == OnFill \/ OnNewDay \/ AdvancePhase \/ CheckDailyLimits \/ MarkViolated

Spec == Init /\ [][Next]_vars

-----------------------------------------------------------------------------
(* What the report and the gate say.                                       *)

IsSoftHalted(f) == f.soft /\ ~f.halted
Passed(f) == ~f.halted

\* maxDailyLossObserved is below zero only if a breach has code "DAILY_DD".
ReportsDailyLoss(f) == "DAILY_DD" \in f.breaches

PctType == [of : Int, by : Nat \ {0}]

EnforcerType ==
    [bal : Int, dayStart : Int, peak : Int, pct : PctType, cum : Int,
     halted : BOOLEAN, soft : BOOLEAN, reason : Reasons, penalised : BOOLEAN,
     breaches : SUBSET Codes, days : Nat, met : BOOLEAN, phase : Nat \ {0}]

\* Type correctness of the enforcer's record and of the answer.
TypeOK ==
    /\ ftmo \in EnforcerType
    /\ verdict \in {"none", "ok", "daily_loss", "max_drawdown"}

\* A run that still passes is inside both hard limits: the loss since the day
\* began is short of HardHaltThresholdPct and the fall from the peak is not
\* over MaxDrawdownPct, whatever fills, days and phases came before
\* (CheckDailyLoss, CheckDrawdown and the resets of OnNewDay, AdvancePhase).
WithinLimitsUnlessHalted ==
    Passed(ftmo) =>
        /\ ~HardBreached(ftmo)
        /\ ~DrawdownExceeded(ftmo.peak, ftmo.bal, MaxDrawdownPct)

\* The profit target counts only with the phase's minimum trading days: the
\* flag CheckProfitTarget sets and the counter AdvancePhase resets agree.
TargetNeedsDays == ftmo.met => ftmo.days >= MinTradingDays

\* A breach is never forgiven: once halted, no new day, phase or profit makes
\* the report pass again.
BreachIsFinal == [][~Passed(ftmo) => ~Passed(ftmo')]_vars
=============================================================================
