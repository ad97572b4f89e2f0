----------------------- MODULE PropFirmEnforcerProofs -----------------------
(* Proofs about PropFirmEnforcer for every profile, balance and fill.      *)
EXTENDS PropFirmEnforcer, TLAPS

\* A day's base is positive.
LEMMA DayStartPositive ==
    ASSUME NEW f \in EnforcerType
    PROVE  DayStart(f) \in Nat \ {0}
BY BalanceAssumption DEF EnforcerType, DayStart

\* A day that has not moved is a percentage like any other.
LEMMA NoChangeType == NoChange \in PctType
BY BalanceAssumption DEF NoChange, PctType

\* A balance that stays where the day began has lost nothing.
LEMMA NoLossNoBreach ==
    ASSUME NEW b \in Nat \ {0}, NEW p \in Nat \ {0}
    PROVE  ~DailyLossExceeded(b, b, p)
<1>1. p * b > 0
  OBVIOUS
<1> QED
  BY <1>1 DEF DailyLossExceeded

\* A limit of at most the whole balance is breached before the money is gone.
LEMMA SolventUntilBreached ==
    ASSUME NEW f \in EnforcerType, ~HardBreached(f)
    PROVE  f.bal > 0
<1> DEFINE d == DayStart(f)
<1>1. d \in Nat \ {0} /\ HardLimit \in 1 .. 1000 /\ f.bal \in Int
  BY DayStartPositive, LimitAssumption DEF EnforcerType
<1>2. ~(d <= 0) /\ ~((f.bal - d) * 1000 <= -(HardLimit * d))
  BY <1>1 DEF HardBreached, DailyLossExceeded
<1> HIDE DEF d
<1>3. HardLimit * d <= 1000 * d
  <2>1. (1000 - HardLimit) * d >= 0
    BY <1>1
  <2> QED
    BY <1>1, <2>1
<1>4. f.bal * 1000 > 0
  BY <1>1, <1>2, <1>3
<1> QED
  BY <1>1, <1>4

-----------------------------------------------------------------------------
(* What each method does to the fields the invariants read.                *)

\* CheckDailyLoss halts on a hard breach and touches nothing else that matters.
LEMMA DailyLossStep ==
    ASSUME NEW f \in EnforcerType
    PROVE  LET g == CheckDailyLoss(f)
           IN  /\ g \in EnforcerType
               /\ g.bal = f.bal /\ g.dayStart = f.dayStart /\ g.peak = f.peak
               /\ g.days = f.days /\ g.met = f.met
               /\ g.halted <=> (f.halted \/ HardBreached(f))
<1>1. /\ f.bal - DayStart(f) \in Int /\ DayStart(f) \in Nat \ {0}
  BY DayStartPositive DEF EnforcerType
<1> DEFINE g == [f EXCEPT !.pct = [of |-> f.bal - DayStart(f), by |-> DayStart(f)]]
<1>2. /\ g \in EnforcerType /\ g.halted = f.halted
      /\ g.bal = f.bal /\ g.dayStart = f.dayStart /\ g.peak = f.peak
      /\ g.days = f.days /\ g.met = f.met
  BY <1>1 DEF EnforcerType, PctType
<1>3. f.breaches \cup {"DAILY_DD_HARD"} \in SUBSET Codes
      /\ f.breaches \cup {"DAILY_DD_SOFT"} \in SUBSET Codes
  BY DEF EnforcerType, Codes
<1> HIDE DEF g
<1>4. CASE HardBreached(f)
  <2>1. CheckDailyLoss(f) =
          [g EXCEPT !.halted = TRUE, !.soft = TRUE, !.reason = "daily_loss_limit_hard",
                    !.breaches = f.breaches \cup {"DAILY_DD_HARD"}]
    BY <1>4 DEF CheckDailyLoss, g
  <2> QED
    BY <1>2, <1>3, <1>4, <2>1 DEF EnforcerType, Reasons
<1>5. CASE ~HardBreached(f) /\ SoftBreached(f)
  <2>1. CheckDailyLoss(f) =
          [g EXCEPT !.soft = TRUE, !.breaches = f.breaches \cup {"DAILY_DD_SOFT"}]
    BY <1>5 DEF CheckDailyLoss, g
  <2> QED
    BY <1>2, <1>3, <1>5, <2>1 DEF EnforcerType
<1>6. CASE ~HardBreached(f) /\ ~SoftBreached(f)
  <2>1. CheckDailyLoss(f) = g
    BY <1>6 DEF CheckDailyLoss, g
  <2> QED
    BY <1>2, <1>6, <2>1
<1> QED
  BY <1>4, <1>5, <1>6

\* CheckDrawdown raises the peak and halts beyond the limit.
LEMMA DrawdownStep ==
    ASSUME NEW f \in EnforcerType
    PROVE  LET g == CheckDrawdown(f)
           IN  /\ g \in EnforcerType
               /\ g.bal = f.bal /\ g.dayStart = f.dayStart /\ g.peak = RaisePeak(f)
               /\ g.days = f.days /\ g.met = f.met
               /\ g.halted <=> (f.halted \/ DrawdownExceeded(RaisePeak(f), f.bal, MaxDrawdownPct))
<1>1. RaisePeak(f) \in Int
  BY DEF EnforcerType, RaisePeak
<1> DEFINE g == [f EXCEPT !.peak = RaisePeak(f)]
<1>2. /\ g \in EnforcerType /\ g.halted = f.halted
      /\ g.bal = f.bal /\ g.dayStart = f.dayStart /\ g.peak = RaisePeak(f)
      /\ g.days = f.days /\ g.met = f.met
  BY <1>1 DEF EnforcerType
<1> HIDE DEF g
<1>3. CASE DrawdownExceeded(RaisePeak(f), f.bal, MaxDrawdownPct)
  <2>1. CheckDrawdown(f) = [g EXCEPT !.halted = TRUE, !.reason = "max_drawdown"]
    BY <1>2, <1>3, Zenon DEF CheckDrawdown, g
  <2> QED
    BY <1>2, <1>3, <2>1 DEF EnforcerType, Reasons
<1>4. CASE ~DrawdownExceeded(RaisePeak(f), f.bal, MaxDrawdownPct)
  <2>1. CheckDrawdown(f) = g
    BY <1>2, <1>4, Zenon DEF CheckDrawdown, g
  <2> QED
    BY <1>2, <1>4, <2>1
<1> QED
  BY <1>3, <1>4

\* Neither of the other two checks touches what the limits read.
LEMMA ConsistencyStep ==
    ASSUME NEW f \in EnforcerType
    PROVE  LET g == CheckConsistency(f)
           IN  /\ g \in EnforcerType /\ g.halted = f.halted
               /\ g.bal = f.bal /\ g.dayStart = f.dayStart /\ g.peak = f.peak
               /\ g.days = f.days /\ g.met = f.met
<1>1. f.breaches \cup {"CONSISTENCY"} \in SUBSET Codes
  BY DEF EnforcerType, Codes
<1>2. \/ CheckConsistency(f) = [f EXCEPT !.penalised = TRUE,
                                        !.breaches = f.breaches \cup {"CONSISTENCY"}]
      \/ CheckConsistency(f) = f
  BY DEF CheckConsistency
<1> QED
  BY <1>1, <1>2 DEF EnforcerType

\* CheckProfitTarget sets the flag only with the trading days.
LEMMA TargetStep ==
    ASSUME NEW f \in EnforcerType
    PROVE  LET g == CheckProfitTarget(f)
           IN  /\ g \in EnforcerType /\ g.halted = f.halted
               /\ g.bal = f.bal /\ g.dayStart = f.dayStart /\ g.peak = f.peak
               /\ g.days = f.days
               /\ g.met => (f.met \/ g.days >= MinTradingDays)
<1>1. \/ CheckProfitTarget(f) = [f EXCEPT !.met = TRUE] /\ f.days >= MinTradingDays
      \/ CheckProfitTarget(f) = f
  BY DEF CheckProfitTarget
<1> QED
  BY <1>1 DEF EnforcerType

\* The hard limits, of any record.
Inside(f) ==
    /\ ~HardBreached(f)
    /\ ~DrawdownExceeded(f.peak, f.bal, MaxDrawdownPct)

\* OnFill leaves a record that is halted or inside its limits.
LEMMA FillStep ==
    ASSUME NEW f \in EnforcerType, NEW pnl \in PnLs
    PROVE  LET g == AfterFill(f, pnl)
           IN  /\ g \in EnforcerType
               /\ g.bal = f.bal + pnl /\ g.peak >= f.peak
               /\ g.days = f.days
               /\ f.halted => g.halted
               /\ ~g.halted => Inside(g)
               /\ g.met => (f.met \/ g.days >= MinTradingDays)
<1> DEFINE a == [f EXCEPT !.bal = f.bal + pnl, !.cum = f.cum + pnl]
           b == CheckDailyLoss(a)
           c == CheckDrawdown(b)
           d == CheckConsistency(c)
           e == CheckProfitTarget(d)
<1>1. /\ a \in EnforcerType /\ a.halted = f.halted /\ a.days = f.days /\ a.met = f.met
      /\ a.bal = f.bal + pnl /\ a.peak = f.peak
  <2>1. f.bal + pnl \in Int /\ f.cum + pnl \in Int
    BY EnforcerPnLAssumption DEF EnforcerType
  <2> QED
    BY <2>1 DEF EnforcerType
<1> HIDE DEF a
<1>2. /\ b \in EnforcerType
      /\ b.bal = a.bal /\ b.dayStart = a.dayStart /\ b.peak = a.peak
      /\ b.days = a.days /\ b.met = a.met
      /\ b.halted <=> (a.halted \/ HardBreached(a))
  BY <1>1, DailyLossStep
<1> HIDE DEF b
<1>3. /\ c \in EnforcerType
      /\ c.bal = b.bal /\ c.dayStart = b.dayStart /\ c.peak = RaisePeak(b)
      /\ c.days = b.days /\ c.met = b.met
      /\ c.halted <=> (b.halted \/ DrawdownExceeded(RaisePeak(b), b.bal, MaxDrawdownPct))
  BY <1>2, DrawdownStep
<1> HIDE DEF c
<1>4. /\ d \in EnforcerType /\ d.halted = c.halted
      /\ d.bal = c.bal /\ d.dayStart = c.dayStart /\ d.peak = c.peak
      /\ d.days = c.days /\ d.met = c.met
  BY <1>3, ConsistencyStep
<1> HIDE DEF d
<1>5. /\ e \in EnforcerType /\ e.halted = d.halted
      /\ e.bal = d.bal /\ e.dayStart = d.dayStart /\ e.peak = d.peak
      /\ e.days = d.days
      /\ e.met => (d.met \/ e.days >= MinTradingDays)
  BY <1>4, TargetStep
<1> HIDE DEF e
<1>6. AfterFill(f, pnl) = e
  BY DEF AfterFill, a, b, c, d, e
<1>7. e.bal = a.bal /\ e.dayStart = a.dayStart /\ e.peak = RaisePeak(b) /\ e.bal = b.bal
  BY <1>2, <1>3, <1>4, <1>5, Zenon
<1>8. HardBreached(e) <=> HardBreached(a)
  BY <1>7, Zenon DEF HardBreached, DayStart
<1>9. ~e.halted => Inside(e)
  BY <1>2, <1>3, <1>4, <1>5, <1>7, <1>8, Zenon DEF Inside
<1>10. e.days = f.days /\ (f.halted => e.halted)
  BY <1>1, <1>2, <1>3, <1>4, <1>5, Zenon
<1>11. e.met => (f.met \/ e.days >= MinTradingDays)
  BY <1>1, <1>2, <1>3, <1>4, <1>5, Zenon
<1>12. e.bal = f.bal + pnl
  BY <1>1, <1>7, Zenon
<1>13. e.peak >= f.peak
  <2>1. b.peak = f.peak /\ e.peak = RaisePeak(b)
    BY <1>1, <1>2, <1>7, Zenon
  <2> QED
    BY <1>2, <2>1 DEF RaisePeak, EnforcerType
<1> QED
  BY <1>5, <1>6, <1>9, <1>10, <1>11, <1>12, <1>13, Zenon

\* OnNewDay starts a day inside its limits, or leaves the halt.
LEMMA NewDayStep ==
    ASSUME NEW f \in EnforcerType, ~f.halted => Inside(f)
    PROVE  LET g == AfterNewDay(f)
           IN  /\ g \in EnforcerType
               /\ g.bal = f.bal /\ g.peak = f.peak
               /\ g.days = f.days + 1
               /\ f.halted => g.halted
               /\ ~g.halted => Inside(g)
               /\ g.met => (f.met \/ g.days >= MinTradingDays)
<1> DEFINE a == [f EXCEPT !.days = f.days + 1]
           b == CheckProfitTarget(a)
           c == [b EXCEPT !.dayStart = b.bal, !.pct = NoChange,
                          !.penalised = FALSE]
<1>1. /\ a \in EnforcerType /\ a.days = f.days + 1 /\ a.halted = f.halted /\ a.met = f.met
      /\ a.bal = f.bal /\ a.peak = f.peak
  BY DEF EnforcerType
<1> HIDE DEF a
<1>2. /\ b \in EnforcerType /\ b.halted = a.halted
      /\ b.bal = a.bal /\ b.peak = a.peak /\ b.days = a.days
      /\ b.met => (a.met \/ b.days >= MinTradingDays)
  BY <1>1, TargetStep
<1> HIDE DEF b
<1>3. /\ c \in EnforcerType /\ c.halted = b.halted
      /\ c.bal = b.bal /\ c.peak = b.peak /\ c.days = b.days /\ c.met = b.met
      /\ c.dayStart = b.bal
  BY <1>2, NoChangeType DEF EnforcerType
<1> HIDE DEF c
<1>4. AfterNewDay(f) = c
  BY DEF AfterNewDay, a, b, c
<1>5. ASSUME ~f.halted PROVE Inside(c)
  <2>1. f.bal > 0
    BY <1>5, SolventUntilBreached DEF Inside
  <2>2. c.bal = f.bal /\ c.dayStart = f.bal /\ c.peak = f.peak
    BY <1>1, <1>2, <1>3, Zenon
  <2>3. DayStart(c) = f.bal /\ f.bal \in Nat \ {0}
    BY <2>1, <2>2 DEF DayStart, EnforcerType
  <2>4. ~HardBreached(c)
    <3>1. HardLimit \in Nat \ {0}
      BY LimitAssumption
    <3>2. ~DailyLossExceeded(f.bal, f.bal, HardLimit)
      BY <2>3, <3>1, NoLossNoBreach
    <3> QED
      BY <2>2, <2>3, <3>2, Zenon DEF HardBreached
  <2> QED
    BY <1>5, <2>2, <2>4 DEF Inside
<1>6. (f.halted => c.halted) /\ (~c.halted => Inside(c))
  BY <1>1, <1>2, <1>3, <1>5, Zenon
<1>7. c.days = f.days + 1 /\ (c.met => (f.met \/ c.days >= MinTradingDays))
  BY <1>1, <1>2, <1>3, Zenon
<1>8. c.bal = f.bal /\ c.peak = f.peak
  BY <1>1, <1>2, <1>3, Zenon
<1> QED
  BY <1>3, <1>4, <1>6, <1>7, <1>8, Zenon

\* AdvancePhase starts a phase inside its limits, or leaves the halt.
LEMMA PhaseStep ==
    ASSUME NEW f \in EnforcerType, ~f.halted => Inside(f)
    PROVE  LET g == AfterAdvancePhase(f)
           IN  /\ g \in EnforcerType
               /\ g.halted = f.halted
               /\ ~g.halted => Inside(g)
               /\ ~g.met
<1> DEFINE g == AfterAdvancePhase(f)
<1>1. /\ g \in EnforcerType /\ g.halted = f.halted /\ g.met = FALSE
      /\ g.bal = f.bal /\ g.peak = f.bal /\ g.dayStart = f.dayStart
  <2>1. f.phase + 1 \in Nat \ {0} /\ f.bal \in Int
    BY DEF EnforcerType
  <2> DEFINE h == [f EXCEPT !.phase = f.phase + 1, !.met = FALSE, !.pct = NoChange]
  <2>a. h \in EnforcerType /\ h.bal = f.bal
    BY <2>1, NoChangeType DEF EnforcerType
  <2> DEFINE z == 0
  <2>b. g = [h EXCEPT !.cum = z, !.peak = f.bal, !.days = z, !.penalised = FALSE]
    BY DEF AfterAdvancePhase
  <2>c. z \in Int /\ z \in Nat
    OBVIOUS
  <2> HIDE DEF h, z
  <2>2. g \in EnforcerType
    BY <2>1, <2>a, <2>b, <2>c DEF EnforcerType
  <2> QED
    BY <2>2 DEF EnforcerType, AfterAdvancePhase
<1> HIDE DEF g
<1>2. ~DrawdownExceeded(g.peak, g.bal, MaxDrawdownPct)
  <2>1. g.peak = f.bal /\ g.bal = f.bal /\ f.bal \in Int
    BY <1>1 DEF EnforcerType
  <2>2. f.bal > 0 => MaxDrawdownPct * f.bal >= 0
    BY <2>1, LimitAssumption
  <2> QED
    BY <2>1, <2>2, LimitAssumption DEF DrawdownExceeded
<1>3. HardBreached(g) <=> HardBreached(f)
  BY <1>1, Zenon DEF HardBreached, DayStart
<1>4. ~g.halted => Inside(g)
  BY <1>1, <1>2, <1>3, Zenon DEF Inside
<1> QED
  BY <1>1, <1>4, Zenon DEF g

\* CheckDailyLimits lifts no halt and leaves a record halted or inside its limits.
LEMMA LimitsStep ==
    ASSUME NEW f \in EnforcerType, ~f.halted => Inside(f)
    PROVE  LET g == AfterLimits(f)
           IN  /\ g \in EnforcerType
               /\ g.days = f.days /\ g.met = f.met
               /\ f.halted => g.halted
               /\ ~g.halted => Inside(g)
<1> DEFINE b == CheckDailyLoss(f)
           c == CheckDrawdown(b)
<1>1. /\ b \in EnforcerType
      /\ b.bal = f.bal /\ b.dayStart = f.dayStart /\ b.peak = f.peak
      /\ b.days = f.days /\ b.met = f.met
      /\ b.halted <=> (f.halted \/ HardBreached(f))
  BY DailyLossStep
<1>2. CASE HardBreached(f)
  <2>1. AfterLimits(f) = c
    BY <1>2 DEF AfterLimits, b, c
  <2> HIDE DEF b
  <2>2. /\ c \in EnforcerType
        /\ c.days = b.days /\ c.met = b.met
        /\ c.halted <=> (b.halted \/ DrawdownExceeded(RaisePeak(b), b.bal, MaxDrawdownPct))
    BY <1>1, DrawdownStep
  <2> HIDE DEF c
  <2> QED
    BY <1>1, <1>2, <2>1, <2>2, Zenon
<1>3. CASE ~HardBreached(f)
  <2>1. AfterLimits(f) = b
    BY <1>3 DEF AfterLimits, b
  <2> HIDE DEF b
  <2>2. Inside(f) => Inside(b)
    BY <1>1, Zenon DEF Inside, HardBreached, DayStart
  <2> QED
    BY <1>1, <1>3, <2>1, <2>2, Zenon
<1> QED
  BY <1>2, <1>3, Zenon

-----------------------------------------------------------------------------
(* The theorems.                                                           *)

IInv == TypeOK /\ WithinLimitsUnlessHalted /\ TargetNeedsDays

\* A new enforcer is inside its limits.
LEMMA NewEnforcerIs ==
    LET f == NewPropFirmEnforcer
    IN  /\ f \in EnforcerType /\ Inside(f) /\ f.met = FALSE
        /\ f.bal = StartingBalance /\ f.peak = StartingBalance
<1> DEFINE f == NewPropFirmEnforcer
<1>1. /\ f \in EnforcerType /\ f.met = FALSE
      /\ f.bal = StartingBalance /\ f.dayStart = StartingBalance
      /\ f.peak = StartingBalance
  <2>1. StartingBalance \in Int /\ 1 \in Nat \ {0} /\ 0 \in Nat /\ 0 \in Int
    BY BalanceAssumption
  <2>2. "" \in Reasons /\ {} \in SUBSET Codes /\ FALSE \in BOOLEAN
    BY DEF Reasons
  <2>3. f \in EnforcerType
    BY <2>1, <2>2, NoChangeType, Zenon DEF NewPropFirmEnforcer, EnforcerType
  <2> QED
    BY <2>3 DEF NewPropFirmEnforcer
<1> HIDE DEF f
<1>2. ~HardBreached(f)
  <2>1. DayStart(f) = StartingBalance
    BY <1>1, BalanceAssumption DEF DayStart
  <2> QED
    BY <1>1, <2>1, BalanceAssumption, LimitAssumption, NoLossNoBreach DEF HardBreached
<1>3. ~DrawdownExceeded(f.peak, f.bal, MaxDrawdownPct)
  <2>1. MaxDrawdownPct * StartingBalance >= 0
    BY BalanceAssumption, LimitAssumption
  <2> QED
    BY <1>1, <2>1, BalanceAssumption, LimitAssumption DEF DrawdownExceeded
<1> QED
  BY <1>1, <1>2, <1>3, Zenon DEF Inside, f

\* The invariant holds initially.
LEMMA InitHolds == Init => IInv
  BY NewEnforcerIs, Zenon
     DEF Init, IInv, TypeOK, WithinLimitsUnlessHalted, TargetNeedsDays, Inside

\* Every step keeps the invariant and every halt.
LEMMA StepHolds ==
    ASSUME IInv, [Next]_vars
    PROVE  IInv' /\ (ftmo.halted => ftmo'.halted)
<1>1. /\ ftmo \in EnforcerType /\ (~ftmo.halted => Inside(ftmo))
      /\ ftmo.met => ftmo.days >= MinTradingDays
      /\ verdict \in {"none", "ok", "daily_loss", "max_drawdown"}
  BY Zenon DEF IInv, TypeOK, WithinLimitsUnlessHalted, TargetNeedsDays, Passed, Inside
<1>2. SUFFICES /\ ftmo' \in EnforcerType /\ (~ftmo'.halted => Inside(ftmo'))
               /\ ftmo'.met => ftmo'.days >= MinTradingDays
               /\ verdict' \in {"none", "ok", "daily_loss", "max_drawdown"}
               /\ ftmo.halted => ftmo'.halted
  BY Zenon DEF IInv, TypeOK, WithinLimitsUnlessHalted, TargetNeedsDays, Passed, Inside,
               HardBreached, DayStart
<1>3. CASE OnFill
  <2>1. PICK pnl \in PnLs : ftmo' = AfterFill(ftmo, pnl) /\ verdict' = verdict
    BY <1>3 DEF OnFill
  <2> QED
    BY <1>1, <2>1, FillStep, Zenon
<1>4. CASE OnNewDay
  <2>1. ftmo' = AfterNewDay(ftmo) /\ verdict' = verdict
    BY <1>4 DEF OnNewDay
  <2>2. /\ ftmo' \in EnforcerType /\ ftmo'.days = ftmo.days + 1
        /\ ftmo.halted => ftmo'.halted
        /\ ~ftmo'.halted => Inside(ftmo')
        /\ ftmo'.met => (ftmo.met \/ ftmo'.days >= MinTradingDays)
    BY <1>1, <2>1, NewDayStep, Zenon
  <2>3. ftmo.days >= MinTradingDays => ftmo'.days >= MinTradingDays
    BY <1>1, <2>2, EnforcerBoundAssumption DEF EnforcerType
  <2> QED
    BY <1>1, <2>1, <2>2, <2>3, Zenon
<1>5. CASE AdvancePhase
  <2>1. ftmo' = AfterAdvancePhase(ftmo) /\ verdict' = verdict
    BY <1>5 DEF AdvancePhase
  <2> QED
    BY <1>1, <2>1, PhaseStep, Zenon
<1>6. CASE CheckDailyLimits
  <2>1. ftmo' = AfterLimits(ftmo) /\ verdict' = LimitsVerdict(ftmo)
    BY <1>6 DEF CheckDailyLimits
  <2>2. LimitsVerdict(ftmo) \in {"none", "ok", "daily_loss", "max_drawdown"}
    BY DEF LimitsVerdict
  <2>3. /\ ftmo' \in EnforcerType /\ ftmo'.days = ftmo.days /\ ftmo'.met = ftmo.met
        /\ ftmo.halted => ftmo'.halted
        /\ ~ftmo'.halted => Inside(ftmo')
    BY <1>1, <2>1, LimitsStep, Zenon
  <2> QED
    BY <1>1, <2>1, <2>2, <2>3, Zenon
<1>7. CASE MarkViolated
  <2>1. ftmo' = [ftmo EXCEPT !.halted = TRUE, !.reason = "external"] /\ verdict' = verdict
    BY <1>7 DEF MarkViolated
  <2>2. /\ ftmo' \in EnforcerType /\ ftmo'.halted
        /\ ftmo'.days = ftmo.days /\ ftmo'.met = ftmo.met
    BY <1>1, <2>1 DEF EnforcerType, Reasons
  <2> QED
    BY <1>1, <2>1, <2>2, Zenon
<1>8. CASE UNCHANGED vars
  BY <1>1, <1>8, Zenon DEF vars
<1> QED
  BY <1>3, <1>4, <1>5, <1>6, <1>7, <1>8, Zenon DEF Next

\* The inductive invariant holds in every reachable state.
LEMMA InvariantHolds == Spec => []IInv
<1>1. IInv /\ [Next]_vars => IInv'
  BY StepHolds
<1> QED
  BY InitHolds, <1>1, PTL DEF Spec

\* Type correctness of the enforcer for every profile.
THEOREM TypeCorrect == Spec => []TypeOK
BY InvariantHolds, PTL DEF IInv

\* A run the enforcer passes is inside the daily-loss and drawdown limits, for
\* every profile with a hard limit between 0.1% and 100% and every fill.
THEOREM PassMeansWithinLimits == Spec => []WithinLimitsUnlessHalted
BY InvariantHolds, PTL DEF IInv

\* The profit target is never met before the phase's minimum trading days.
THEOREM TargetWaitsForDays == Spec => []TargetNeedsDays
BY InvariantHolds, PTL DEF IInv

\* No new day, phase or profit lifts a halt.
THEOREM HaltIsNeverLifted == Spec => BreachIsFinal
<1>1. IInv /\ [Next]_vars => [~Passed(ftmo) => ~Passed(ftmo')]_vars
  BY StepHolds, Zenon DEF Passed
<1> QED
  BY InvariantHolds, <1>1, PTL DEF Spec, BreachIsFinal
=============================================================================
