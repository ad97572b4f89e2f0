------------------------ MODULE BacktestEngineProofs ------------------------
(***************************************************************************)
(* Proofs about BacktestEngine for any number of handlers, symbols, prices *)
(* and bars.  What the enforcer's and the pipeline's operators do is       *)
(* proved in PropFirmEnforcerProofs and RiskPipelineProofs; their lemmas   *)
(* are used here through the instances F and B, whose caller may be asked  *)
(* for any PnL, price, size or capital.                                    *)
(***************************************************************************)
EXTENDS BacktestEngine, FiniteSetTheorems, TLAPS

F == INSTANCE PropFirmEnforcerProofs
        WITH StartingBalance <- InitialCapital, PnLs <- Int, MaxMove <- 0,
             MaxDays <- 0, MaxPhase <- 1, verdict <- "none"

B == INSTANCE RiskPipelineProofs
        WITH Prices <- Nat \ {0}, Sizes <- Nat, Capitals <- Nat, Equities <- Nat,
             MaxOpen <- 0, MaxBooked <- 0, positions <- <<>>

-----------------------------------------------------------------------------
(***************************************************************************)
(* The enforcer and the pipeline                                           *)
(***************************************************************************)

\* The engine's constants satisfy what the enforcer assumes.
LEMMA FirmAssumptions ==
    /\ F!BalanceAssumption /\ F!LimitAssumption
    /\ F!EnforcerPnLAssumption /\ F!EnforcerBoundAssumption
BY MoneyAssumption, FirmAssumption
   DEF F!BalanceAssumption, F!LimitAssumption, F!EnforcerPnLAssumption,
       F!EnforcerBoundAssumption, F!HardLimit, F!SoftLimit, Firm!HardLimit, Firm!SoftLimit

\* The engine's constants satisfy what the pipeline assumes.
LEMMA BookAssumptions == B!PipelineNatAssumption
BY PipelineAssumption DEF B!PipelineNatAssumption

\* F and Firm are the same enforcer.
LEMMA SameFirm ==
    /\ F!EnforcerType = Firm!EnforcerType
    /\ F!NewPropFirmEnforcer = Firm!NewPropFirmEnforcer
    /\ \A f : F!AfterNewDay(f) = Firm!AfterNewDay(f)
    /\ \A f, pnl : F!AfterFill(f, pnl) = Firm!AfterFill(f, pnl)
<1>1. F!EnforcerType = Firm!EnforcerType
  BY DEF F!EnforcerType, Firm!EnforcerType, F!PctType, Firm!PctType,
         F!Reasons, Firm!Reasons, F!Codes, Firm!Codes
<1>2. F!NewPropFirmEnforcer = Firm!NewPropFirmEnforcer
  BY DEF F!NewPropFirmEnforcer, Firm!NewPropFirmEnforcer, F!NoChange, Firm!NoChange
<1>3. \A f : F!CheckProfitTarget(f) = Firm!CheckProfitTarget(f)
  BY DEF F!CheckProfitTarget, Firm!CheckProfitTarget
<1>4. \A f : F!CheckConsistency(f) = Firm!CheckConsistency(f)
  BY DEF F!CheckConsistency, Firm!CheckConsistency
<1>5. \A f : F!CheckDrawdown(f) = Firm!CheckDrawdown(f)
  BY DEF F!CheckDrawdown, Firm!CheckDrawdown, F!RaisePeak, Firm!RaisePeak,
         F!DrawdownExceeded, Firm!DrawdownExceeded
<1>6. \A f : F!DayStart(f) = Firm!DayStart(f)
  BY DEF F!DayStart, Firm!DayStart
<1>7. \A f : F!HardBreached(f) = Firm!HardBreached(f) /\ F!SoftBreached(f) = Firm!SoftBreached(f)
  BY <1>6 DEF F!HardBreached, Firm!HardBreached, F!SoftBreached, Firm!SoftBreached,
         F!DailyLossExceeded, Firm!DailyLossExceeded, F!HardLimit, Firm!HardLimit,
         F!SoftLimit, Firm!SoftLimit
<1>8. \A f : F!CheckDailyLoss(f) = Firm!CheckDailyLoss(f)
  BY <1>6, <1>7 DEF F!CheckDailyLoss, Firm!CheckDailyLoss
<1>9. \A f : F!AfterNewDay(f) = Firm!AfterNewDay(f)
  BY <1>3 DEF F!AfterNewDay, Firm!AfterNewDay, F!NoChange, Firm!NoChange
<1>10. \A f, pnl : F!AfterFill(f, pnl) = Firm!AfterFill(f, pnl)
  BY <1>3, <1>4, <1>5, <1>8 DEF F!AfterFill, Firm!AfterFill
<1> QED
  BY <1>1, <1>2, <1>9, <1>10

\* B and Books are the same pipeline.
LEMMA SameBooks ==
    /\ B!PipelineType = Books!PipelineType /\ B!Sides = Books!Sides
    /\ B!NewPipeline = Books!NewPipeline
    /\ \A p, s, d, qty, price : B!Release(p, s, d, qty, price) = Books!Release(p, s, d, qty, price)
    /\ \A p, q, g : B!ProcessSignal(p, q, g) = Books!ProcessSignal(p, q, g)
<1>1. B!PipelineType = Books!PipelineType /\ B!Sides = Books!Sides
  BY DEF B!PipelineType, Books!PipelineType, B!Sides, Books!Sides
<1>2. B!NewPipeline = Books!NewPipeline
  BY DEF B!NewPipeline, Books!NewPipeline, B!Sides, Books!Sides
<1>3. \A p, s, d, qty, price : B!Release(p, s, d, qty, price) = Books!Release(p, s, d, qty, price)
  BY DEF B!Release, Books!Release, B!RemovePosition, Books!RemovePosition, B!Floor0, Books!Floor0
<1>4. \A p, q, g, size : B!Authorise(p, q, g, size) = Books!Authorise(p, q, g, size)
  BY DEF B!Authorise, Books!Authorise, B!Least, Books!Least, B!Reject, Books!Reject,
         B!CheckOrder, Books!CheckOrder, B!AddPosition, Books!AddPosition
<1>5. ASSUME NEW p, NEW q, NEW g PROVE B!ProcessSignal(p, q, g) = Books!ProcessSignal(p, q, g)
  <2>1. /\ \A x : B!PositionCap(x) = Books!PositionCap(x)
        /\ B!Available(p, q) = Books!Available(p, q)
        /\ B!EarlyRefusal(q, g) = Books!EarlyRefusal(q, g)
        /\ \A n : B!OverTotal(p, q, n) = Books!OverTotal(p, q, n)
        /\ \A why : B!Reject(p, why) = Books!Reject(p, why)
    BY DEF B!Reject, Books!Reject, B!PositionCap, Books!PositionCap, B!Available, Books!Available,
           B!Pct, Books!Pct, B!OverTotal, Books!OverTotal, B!EarlyRefusal, Books!EarlyRefusal
  <2> DEFINE sized  == IF g.soft THEN q.size \div 2 ELSE q.size
             asked  == [q EXCEPT !.size = sized]
             Charged(size) == [p EXCEPT !.notional[q.sym] = p.notional[q.sym] + size * q.price]
  <2>2. B!ProcessSignal(p, q, g) =
          IF B!EarlyRefusal(q, g) # "ok" THEN B!Reject(p, B!EarlyRefusal(q, g))
          ELSE IF sized <= 0 THEN B!Reject(p, "size_zero")
          ELSE IF B!OverTotal(p, q, B!PositionCap(asked)) /\ B!Available(p, q) <= 0
            THEN B!Reject(p, "aggregate_notional_cap")
          ELSE B!Authorise(Charged(IF B!OverTotal(p, q, B!PositionCap(asked))
                                   THEN B!Available(p, q) \div q.price ELSE B!PositionCap(asked)),
                           q, g,
                           IF B!OverTotal(p, q, B!PositionCap(asked))
                           THEN B!Available(p, q) \div q.price ELSE B!PositionCap(asked))
    BY DEF B!ProcessSignal
  <2>3. Books!ProcessSignal(p, q, g) =
          IF Books!EarlyRefusal(q, g) # "ok" THEN Books!Reject(p, Books!EarlyRefusal(q, g))
          ELSE IF sized <= 0 THEN Books!Reject(p, "size_zero")
          ELSE IF Books!OverTotal(p, q, Books!PositionCap(asked)) /\ Books!Available(p, q) <= 0
            THEN Books!Reject(p, "aggregate_notional_cap")
          ELSE Books!Authorise(Charged(IF Books!OverTotal(p, q, Books!PositionCap(asked))
                                       THEN Books!Available(p, q) \div q.price ELSE Books!PositionCap(asked)),
                               q, g,
                               IF Books!OverTotal(p, q, Books!PositionCap(asked))
                               THEN Books!Available(p, q) \div q.price ELSE Books!PositionCap(asked))
    BY DEF Books!ProcessSignal
  <2> HIDE DEF sized, asked, Charged
  <2>4. /\ B!PositionCap(asked) = Books!PositionCap(asked)
        /\ B!OverTotal(p, q, Books!PositionCap(asked)) = Books!OverTotal(p, q, Books!PositionCap(asked))
    BY <2>1
  <2> QED
    BY <1>4, <2>1, <2>2, <2>3, <2>4
<1> QED
  BY <1>1, <1>2, <1>3, <1>5

\* The enforcer between two steps: typed, and halted or inside its limits.
FirmInv(f) ==
    /\ f \in Firm!EnforcerType
    /\ ~f.halted => F!Inside(f)

\* NewPropFirmEnforcer is inside its limits.
LEMMA NewFirm == FirmInv(Firm!NewPropFirmEnforcer)
<1> DEFINE f == Firm!NewPropFirmEnforcer
<1>1. f \in Firm!EnforcerType /\ F!Inside(f)
  BY FirmAssumptions, SameFirm, F!NewEnforcerIs
<1> HIDE DEF f
<1>2. FirmInv(f)
  BY <1>1, Zenon DEF FirmInv
<1> QED
  BY <1>2 DEF f

\* OnFill halts an enforcer that left its limits.
LEMMA FirmFill ==
    ASSUME NEW f, FirmInv(f), NEW pnl \in Int
    PROVE  FirmInv(Firm!AfterFill(f, pnl))
<1> DEFINE g == Firm!AfterFill(f, pnl)
<1>1. f \in F!EnforcerType
  BY SameFirm DEF FirmInv
<1>2. g \in Firm!EnforcerType /\ (~g.halted => F!Inside(g))
  BY <1>1, FirmAssumptions, SameFirm, F!FillStep
<1> HIDE DEF g
<1>3. FirmInv(g)
  BY <1>2, Zenon DEF FirmInv
<1> QED
  BY <1>3 DEF g

\* A new day keeps the enforcer inside its limits.
LEMMA FirmDay ==
    ASSUME NEW f, FirmInv(f)
    PROVE  FirmInv(Firm!AfterNewDay(f))
<1> DEFINE g == Firm!AfterNewDay(f)
<1>1. f \in F!EnforcerType /\ (~f.halted => F!Inside(f))
  BY SameFirm DEF FirmInv
<1>2. g \in Firm!EnforcerType /\ (~g.halted => F!Inside(g))
  BY <1>1, FirmAssumptions, SameFirm, F!NewDayStep
<1> HIDE DEF g
<1>3. FirmInv(g)
  BY <1>2, Zenon DEF FirmInv
<1> QED
  BY <1>3 DEF g

\* Books q differ from books p in symbol s only.
OnlyIn(s, p, q) ==
    \A z \in Symbols \ {s} :
        q.notional[z] = p.notional[z] /\ \A e \in Books!Sides : q.gross[e][z] = p.gross[e][z]

\* An exit releases the books of its own symbol only.
LEMMA BooksRelease ==
    ASSUME NEW p \in Books!PipelineType, NEW s \in Symbols, NEW d \in Books!Sides,
           NEW qty \in Nat, NEW price \in Nat, NEW q, q = Books!Release(p, s, d, qty, price)
    PROVE  q \in Books!PipelineType /\ OnlyIn(s, p, q)
<1>1. /\ q \in Books!PipelineType
      /\ \A z \in Symbols \ {s} :
            q.notional[z] = p.notional[z] /\ \A e \in Books!Sides : q.gross[e][z] = p.gross[e][z]
  BY BookAssumptions, SameBooks, B!ReleaseIs
<1> QED
  BY <1>1, Zenon DEF OnlyIn

\* The signal generateSignal hands to the pipeline, and the answer.
Asked(s, side, price, size, capital) ==
    [sym |-> s, side |-> side, price |-> price, size |-> size, capital |-> capital]

Answer(p, s, side, price, size, capital, vol) ==
    Books!ProcessSignal(Books!SetEquityOf(p, capital), Asked(s, side, price, size, capital),
                        Gates(vol, size))

\* Whatever the pipeline answers, no booking shrinks; an approved size is
\* booked for its symbol and side.
LEMMA BooksSignal ==
    ASSUME NEW p \in Books!PipelineType, NEW s \in Symbols, NEW side \in Books!Sides,
           NEW price \in Nat \ {0}, NEW size \in Nat, NEW capital \in Nat, NEW vol \in BOOLEAN
    PROVE  LET r == Answer(p, s, side, price, size, capital, vol)
           IN  /\ r.pipe \in Books!PipelineType /\ B!Covers(p, r.pipe)
               /\ r.approved => /\ r.size \in Nat
                                /\ r.pipe.notional[s] >= r.size * price
                                /\ r.pipe.gross[side][s] >= r.size * price
<1> DEFINE b == Books!SetEquityOf(p, capital)
           q == Asked(s, side, price, size, capital)
           g == Gates(vol, size)
           r == Books!ProcessSignal(b, q, g)
<1>1. b \in B!PipelineType /\ b.notional = p.notional /\ b.gross = p.gross
  BY SameBooks DEF Books!SetEquityOf, Books!PipelineType
<1>2. q \in B!Signals
  BY SameBooks DEF Asked, B!Signals, B!Sides, Books!Sides
<1>3. g.granted \in Nat /\ g.firmCap \in Nat
  BY DEF Gates, Books!AllOpen
<1>4. q.sym = s /\ q.side = side /\ q.price = price
  BY DEF Asked
<1> HIDE DEF b, q, g
<1>5. /\ r.pipe \in B!PipelineType /\ B!Covers(b, r.pipe)
      /\ r.approved => /\ r.size \in Nat
                       /\ r.pipe.notional[q.sym] >= r.size * q.price
                       /\ r.pipe.gross[q.side][q.sym] >= r.size * q.price
  BY <1>1, <1>2, <1>3, BookAssumptions, SameBooks, B!ProcessSignalIs
<1> HIDE DEF r
<1>6. B!Covers(p, r.pipe)
  BY <1>1, <1>5 DEF B!Covers
<1>7. Answer(p, s, side, price, size, capital, vol) = r
  BY DEF Answer, r, b, q, g
<1> QED
  BY <1>4, <1>5, <1>6, <1>7, SameBooks, Zenon

-----------------------------------------------------------------------------
(***************************************************************************)
(* Money                                                                   *)
(***************************************************************************)

\* SanitizeTradePnL keeps a trade's PnL within a tenth of the initial capital.
LEMMA PnLIs ==
    ASSUME NEW t \in TradeType, NEW price \in Nat, NEW qty \in Nat
    PROVE  PnL(t, price, qty) \in -(InitialCapital \div 10) .. InitialCapital \div 10
<1> DEFINE raw == (IF t.side = "BUY" THEN price - t.entry ELSE t.entry - price) * qty - Fee
           byNotional == (qty * t.entry) \div 2
           byCapital == InitialCapital \div 10
           least == InitialCapital \div 50
           low == IF byCapital < byNotional THEN byCapital ELSE byNotional
           most == IF low < least THEN least ELSE low
<1>1. t.entry \in Nat
  BY DEF TradeType
<1>2. raw \in Int
  <2> DEFINE move == IF t.side = "BUY" THEN price - t.entry ELSE t.entry - price
  <2>1. move \in Int
    BY <1>1
  <2> HIDE DEF move
  <2>2. move * qty \in Int
    BY <2>1
  <2> QED
    BY <2>2, MoneyAssumption DEF move
<1>3. byNotional \in Nat
  <2>1. qty * t.entry \in Nat
    BY <1>1
  <2> QED
    BY <2>1
<1>4. byCapital \in Nat /\ least \in Nat /\ least <= byCapital
  BY MoneyAssumption
<1>5. PnL(t, price, qty) = IF raw > most \/ -raw > most THEN 0 ELSE raw
  BY DEF PnL, Books!SanitizeTradePnL
<1> HIDE DEF raw, byNotional, byCapital, least
<1>6. most \in Nat /\ most <= byCapital
  BY <1>3, <1>4
<1> HIDE DEF most
<1>7. PnL(t, price, qty) \in -byCapital .. byCapital
  BY <1>2, <1>4, <1>5, <1>6
<1> QED
  BY <1>7 DEF byCapital

\* The capital stays between 0 and a hundred times where it began, and is the
\* plain sum unless it runs into one of the two.
LEMMA CapitalIs ==
    ASSUME NEW c \in 0 .. 100 * InitialCapital, NEW pnl \in Int
    PROVE  /\ AddToCapital(c, pnl) \in 0 .. 100 * InitialCapital
           /\ c + pnl >= 0 /\ AddToCapital(c, pnl) < 100 * InitialCapital
                 => AddToCapital(c, pnl) = c + pnl
  BY MoneyAssumption DEF AddToCapital, Books!Floor0

\* What a fill simulator may fill of a size.
LEMMA FilledIs ==
    ASSUME NEW n \in Nat, NEW qty \in Filled(n)
    PROVE  qty \in Nat
  BY DEF Filled

-----------------------------------------------------------------------------
(***************************************************************************)
(* The invariant                                                           *)
(***************************************************************************)

Pcs == {"idle", "loop", "exit", "signal", "flush", "close"}
ClosedType == [sym : Symbols, price : Nat]

RunType ==
    [pc : Pcs, bars : 0 .. MaxBars, day : BOOLEAN, enabled : BOOLEAN,
     capital : 0 .. 100 * InitialCapital, peak : Nat,
     pending : [Symbols -> SignalType \cup {None}], open : [Symbols -> TradeType \cup {None}],
     bar : Bars \cup {None}, last : Bars \cup {None}, closed : ClosedType \cup {None}]

\* The candle in hand while one is processed, and the last one once there was
\* one; the candle's symbol has no entry waiting, for its open filled it.
Candles(m) ==
    /\ m.pc \in {"exit", "signal"} => m.bar \in Bars /\ m.pending[m.bar.sym] = None
    /\ m.pc \in {"exit", "signal", "flush", "close"} => m.bars # 0
    /\ m.bars # 0 => m.last \in Bars

\* Nothing waits or is open before the first candle and after the last.
Flats(m) ==
    /\ m.bars = 0 => m.pending = Flat /\ m.open = Flat
    /\ m.pc \in {"close", "idle"} => m.pending = Flat
    /\ m.pc = "idle" => m.open = Flat

\* One trade or one waiting entry.
Single(m) == \A s \in Symbols : m.open[s] = None \/ m.pending[s] = None

RunInv(m) == m \in RunType /\ Candles(m) /\ Flats(m) /\ Single(m)

DiagType == [attempts : Nat, disposed : Nat, passed : Nat, opened : Nat]

\* The engine's fields.
SharedInv ==
    /\ ftmo = None \/ FirmInv(ftmo)
    /\ pipe \in Books!PipelineType
    /\ diag \in DiagType

IInv ==
    /\ run \in [Runs -> RunType] /\ \A r \in Runs : RunInv(run[r])
    /\ SharedInv /\ PassedAreOpened

\* What this run has waiting or open is booked in books p.
Covered(m, p) ==
    \A s \in Symbols : \A t \in {m.pending[s], m.open[s]} \ {None} :
        p.notional[s] >= t.booked /\ p.gross[t.side][s] >= t.booked

\* How a step of a run counts what waits: nothing, an entry filled, a signal
\* passed.
SameCount(m, n) ==
    n.pending = m.pending /\ diag'.passed = diag.passed /\ diag'.opened = diag.opened
OneOpened(m, n) ==
    \E s \in Symbols :
        /\ m.pending[s] # None /\ n.pending = [m.pending EXCEPT ![s] = None]
        /\ diag'.passed = diag.passed /\ diag'.opened = diag.opened + 1
OnePassed(m, n) ==
    \E s \in Symbols, sig \in SignalType :
        /\ m.pending[s] = None /\ n.pending = [m.pending EXCEPT ![s] = sig]
        /\ diag'.passed = diag.passed + 1 /\ diag'.opened = diag.opened

\* A step from record m to record n of a run keeps what the theorems need.
Good(m, n) ==
    /\ RunInv(n) /\ SharedInv'
    /\ SameCount(m, n) \/ OneOpened(m, n) \/ OnePassed(m, n)
    /\ Covered(m, pipe) => Covered(n, pipe')

-----------------------------------------------------------------------------
(***************************************************************************)
(* Steps that leave the trades and the money alone                         *)
(***************************************************************************)

Keeps(m, n) ==
    /\ n.bars = m.bars /\ n.enabled = m.enabled /\ n.capital = m.capital
    /\ n.pending = m.pending /\ n.open = m.open /\ n.bar = m.bar /\ n.last = m.last

\* A step that only moves the run's program counter.
LEMMA PcChange ==
    ASSUME NEW m \in RunType, NEW x \in Pcs
    PROVE  LET n == [m EXCEPT !.pc = x] IN n \in RunType /\ n.pc = x /\ Keeps(m, n)
  BY DEF RunType, Keeps

\* Such a step keeps the bookings.
LEMMA QuietGood ==
    ASSUME NEW m, NEW n, RunInv(n), SharedInv', pipe' = pipe,
           diag'.passed = diag.passed, diag'.opened = diag.opened,
           n.pending = m.pending, n.open = m.open
    PROVE  Good(m, n)
<1>1. SameCount(m, n)
  BY DEF SameCount
<1>2. Covered(m, pipe) => Covered(n, pipe')
  BY Zenon DEF Covered
<1> QED
  BY <1>1, <1>2 DEF Good

\* The tail of the loop body.
LEMMA EndBarIs ==
    ASSUME NEW m, RunInv(m), m.pc = "signal"
    PROVE  RunInv(EndBar(m)) /\ EndBar(m).pc = "loop" /\ Keeps(m, EndBar(m))
<1> DEFINE top == IF m.capital > m.peak THEN m.capital ELSE m.peak
           n == [m EXCEPT !.pc = "loop", !.peak = top]
<1>1. m \in RunType /\ top \in Nat
  BY MoneyAssumption DEF RunInv, RunType
<1>2. EndBar(m) = n
  BY DEF EndBar
<1> HIDE DEF top
<1>3. n \in RunType /\ n.pc = "loop" /\ Keeps(m, n)
  BY <1>1 DEF RunType, Keeps, Pcs
<1> HIDE DEF n
<1>4. Candles(n) /\ Flats(n) /\ Single(n)
  BY <1>3 DEF RunInv, Candles, Flats, Single, Keeps
<1> QED
  BY <1>2, <1>3, <1>4 DEF RunInv

\* What a step may do to the diagnostics without passing or opening.
LEMMA DiagSteps ==
    ASSUME SharedInv,
           \/ UNCHANGED diag
           \/ diag' = [diag EXCEPT !.attempts = diag.attempts + 1]
           \/ diag' = [diag EXCEPT !.attempts = diag.attempts + 1, !.disposed = diag.disposed + 1]
    PROVE  diag' \in DiagType /\ diag'.passed = diag.passed /\ diag'.opened = diag.opened
<1>1. /\ diag \in DiagType /\ diag.attempts + 1 \in Nat /\ diag.disposed + 1 \in Nat
  BY DEF SharedInv, DiagType
<1> DEFINE a == diag.attempts + 1
           d == diag.disposed + 1
<1>2. a \in Nat /\ d \in Nat
  BY <1>1
<1>3. \/ diag' = diag
      \/ diag' = [diag EXCEPT !.attempts = a]
      \/ diag' = [diag EXCEPT !.attempts = a, !.disposed = d]
  OBVIOUS
<1> HIDE DEF a, d
<1> QED
  BY <1>1, <1>2, <1>3 DEF DiagType

\* No exit, a trade still open, a bar that ends without a signal, the end of
\* the data and of the run.
LEMMA PcSteps ==
    ASSUME IInv, NEW r \in Runs,
           NoExit(r) \/ StillOpen(r) \/ AttemptOnly(r) \/ NoSignal(r) \/ EndOfData(r) \/ Finish(r)
    PROVE  \E n : run' = [run EXCEPT ![r] = n] /\ Good(run[r], n)
<1> DEFINE m == run[r]
<1>1. RunInv(m) /\ m \in RunType /\ SharedInv
  BY DEF IInv, RunInv
<1>2. ftmo' = ftmo /\ pipe' = pipe
  BY DEF NoExit, StillOpen, AttemptOnly, NoSignal, EndOfData, Finish
<1>3. diag' \in DiagType /\ diag'.passed = diag.passed /\ diag'.opened = diag.opened
  BY <1>1, DiagSteps DEF NoExit, StillOpen, AttemptOnly, NoSignal, EndOfData, Finish
<1>4. SharedInv'
  BY <1>1, <1>2, <1>3 DEF SharedInv, FirmInv, F!Inside
<1>5. CASE StillOpen(r) \/ NoSignal(r)
  <2>1. run' = [run EXCEPT ![r] = EndBar(m)] /\ m.pc = "signal"
    BY <1>5 DEF StillOpen, NoSignal, MaySignal
  <2>2. RunInv(EndBar(m)) /\ EndBar(m).pc = "loop" /\ Keeps(m, EndBar(m))
    BY <1>1, <2>1, EndBarIs
  <2>3. Good(m, EndBar(m))
    BY <1>2, <1>3, <1>4, <2>1, <2>2, QuietGood DEF Keeps
  <2> QED
    BY <2>1, <2>3
<1>6. ASSUME NEW x \in Pcs, run' = [run EXCEPT ![r].pc = x],
             \/ m.pc = "exit" /\ x = "signal"
             \/ m.pc = "signal" /\ x = "loop"
             \/ m.pc = "loop" /\ x = (IF m.bars = 0 THEN "idle" ELSE "flush")
             \/ m.pc = "close" /\ x = "idle" /\ m.open = Flat
      PROVE  \E n : run' = [run EXCEPT ![r] = n] /\ Good(run[r], n)
  <2> DEFINE n == [m EXCEPT !.pc = x]
  <2>1. run' = [run EXCEPT ![r] = n]
    BY <1>6
  <2>2. n \in RunType /\ n.pc = x /\ Keeps(m, n)
    BY <1>1, PcChange
  <2> HIDE DEF n
  <2>3. Candles(n)
    BY <1>1, <1>6, <2>2 DEF RunInv, Candles, Keeps
  <2>4. Flats(n)
    BY <1>1, <1>6, <2>2 DEF RunInv, Flats, Keeps
  <2>5. Single(n)
    BY <1>1, <1>6, <2>2 DEF RunInv, Single, Keeps
  <2>6. RunInv(n)
    BY <2>2, <2>3, <2>4, <2>5 DEF RunInv
  <2>7. n.pc # "exit" /\ (n.pc \in {"loop", "signal", "flush"} => m.pc \in {"loop", "exit", "signal"})
    BY <1>6, <2>2
  <2>8. Good(m, n)
    BY <1>2, <1>3, <1>4, <2>2, <2>6, <2>7, QuietGood DEF Keeps
  <2> QED
    BY <2>1, <2>8
<1>7. CASE NoExit(r)
  BY <1>6, <1>7 DEF NoExit, Pcs
<1>8. CASE AttemptOnly(r)
  BY <1>6, <1>8 DEF AttemptOnly, Pcs
<1>9. CASE EndOfData(r)
  BY <1>6, <1>9 DEF EndOfData, Pcs
<1>10. CASE Finish(r)
  BY <1>6, <1>10 DEF Finish, Pcs
<1> QED
  BY <1>5, <1>7, <1>8, <1>9, <1>10

\* A candle that is dropped, before or after the new day was announced.
LEMMA SkipSteps ==
    ASSUME IInv, NEW r \in Runs, SkipUniverse(r) \/ SkipBar(r)
    PROVE  \E n : run' = [run EXCEPT ![r] = n] /\ Good(run[r], n)
<1> DEFINE m == run[r]
<1>1. RunInv(m) /\ m \in RunType /\ SharedInv
  BY DEF IInv, RunInv
<1>2. pipe' = pipe /\ diag' = diag /\ m.pc = "loop" /\ m.bars < MaxBars
  BY DEF SkipUniverse, SkipBar
<1>3. ftmo' = None \/ FirmInv(ftmo')
  <2>1. ftmo' = ftmo \/ (ftmo # None /\ ftmo' = Firm!AfterNewDay(ftmo))
    BY DEF SkipUniverse, SkipBar, DayTurned
  <2>2. CASE ftmo' = ftmo
    BY <1>1, <2>2 DEF SharedInv
  <2>3. CASE ftmo # None /\ ftmo' = Firm!AfterNewDay(ftmo)
    BY <1>1, <2>3, FirmDay DEF SharedInv
  <2> QED
    BY <2>1, <2>2, <2>3
<1>4. SharedInv'
  BY <1>1, <1>2, <1>3 DEF SharedInv, FirmInv, F!Inside
<1>5. PICK b \in Bars, y \in BOOLEAN :
         run' = [run EXCEPT ![r] = [m EXCEPT !.bars = m.bars + 1, !.last = b, !.day = y]]
  <2>1. CASE SkipUniverse(r)
    <3>1. PICK b \in Bars :
             run' = [run EXCEPT ![r] = [m EXCEPT !.bars = m.bars + 1, !.last = b]]
      BY <2>1 DEF SkipUniverse, BarsOf
    <3>2. [m EXCEPT !.bars = m.bars + 1, !.last = b]
            = [m EXCEPT !.bars = m.bars + 1, !.last = b, !.day = m.day]
      BY <1>1 DEF RunType
    <3>3. m.day \in BOOLEAN
      BY <1>1 DEF RunType
    <3> QED
      BY <3>1, <3>2, <3>3
  <2>2. CASE SkipBar(r)
    <3>1. ((ftmo # None) \/ m.day) \in BOOLEAN
      OBVIOUS
    <3> QED
      BY <2>2, <3>1, Zenon DEF SkipBar, BarsOf
  <2> QED
    BY <2>1, <2>2
<1> DEFINE k == m.bars + 1
           n == [m EXCEPT !.bars = k, !.last = b, !.day = y]
<1>6. k \in 0 .. MaxBars /\ k # 0 /\ k >= m.bars /\ k \in Nat /\ m.bars \in Nat
  BY <1>1, <1>2, BarsAssumption DEF RunType
<1>7. run' = [run EXCEPT ![r] = n]
  BY <1>5
<1> HIDE DEF k
<1>8. /\ n \in RunType /\ n.bars = k /\ n.last = b /\ n.pc = m.pc /\ n.pending = m.pending
      /\ n.open = m.open /\ n.capital = m.capital /\ n.enabled = m.enabled /\ n.bar = m.bar
  BY <1>1, <1>6 DEF RunType
<1> HIDE DEF n
<1>9. Candles(n) /\ Flats(n)
  BY <1>1, <1>2, <1>6, <1>8 DEF RunInv, Candles, Flats
<1>10. Single(n)
  BY <1>1, <1>8 DEF RunInv, Single
<1>11. RunInv(n)
  BY <1>8, <1>9, <1>10 DEF RunInv
<1>12. Good(m, n)
  BY <1>2, <1>3, <1>4, <1>8, <1>11, QuietGood
<1> QED
  BY <1>7, <1>12

-----------------------------------------------------------------------------
(***************************************************************************)
(* Steps that open and close trades                                        *)
(***************************************************************************)

\* A candle's close is a price.
LEMMA BarIs ==
    ASSUME NEW b \in Bars
    PROVE  b.sym \in Symbols /\ b.close \in Nat \ {0}
<1>1. b.sym \in Symbols /\ b.close \in UNION {PricesOf[s] : s \in Symbols}
  BY DEF Bars
<1> QED
  BY <1>1, MoneyAssumption

\* A waiting entry becomes a trade that is booked for as much.
LEMMA EntryIs ==
    ASSUME NEW m \in RunType, NEW s \in Symbols, m.pending[s] # None,
           NEW price \in Nat, NEW qty \in Nat, NEW bar \in Nat
    PROVE  LET e == Entry(m.pending[s], price, qty, bar)
           IN  /\ m.pending[s] \in SignalType /\ e \in TradeType
               /\ e.side = m.pending[s].side /\ e.booked = m.pending[s].booked
<1>1. m.pending[s] \in SignalType
  BY DEF RunType
<1> QED
  BY <1>1 DEF Entry, SignalType, TradeType

LEMMA EntryCovers ==
    ASSUME NEW m \in RunType, NEW n, NEW p, NEW s \in Symbols, m.pending[s] # None, NEW e,
           e.side = m.pending[s].side, e.booked = m.pending[s].booked,
           n.pending = [m.pending EXCEPT ![s] = None], n.open = [m.open EXCEPT ![s] = e],
           Covered(m, p)
    PROVE  Covered(n, p)
<1> SUFFICES ASSUME NEW z \in Symbols, NEW t \in {n.pending[z], n.open[z]} \ {None}
             PROVE  p.notional[z] >= t.booked /\ p.gross[t.side][z] >= t.booked
  BY Zenon DEF Covered
<1>1. \A y \in Symbols : /\ n.pending[y] = IF y = s THEN None ELSE m.pending[y]
                         /\ n.open[y] = IF y = s THEN e ELSE m.open[y]
  BY DEF RunType
<1>2. CASE z = s
  <2>1. t = e /\ m.pending[s] \in {m.pending[s], m.open[s]} \ {None}
    BY <1>1, <1>2
  <2> QED
    BY <1>2, <2>1, Zenon DEF Covered
<1>3. CASE z # s
  <2>1. t \in {m.pending[z], m.open[z]} \ {None}
    BY <1>1, <1>3
  <2> QED
    BY <2>1, Zenon DEF Covered
<1> QED
  BY <1>2, <1>3

\* Opening counts once.
LEMMA DiagOpened ==
    ASSUME SharedInv, diag' = [diag EXCEPT !.opened = diag.opened + 1]
    PROVE  diag' \in DiagType /\ diag'.passed = diag.passed /\ diag'.opened = diag.opened + 1
<1> DEFINE o == diag.opened + 1
<1>1. diag \in DiagType /\ o \in Nat /\ diag' = [diag EXCEPT !.opened = o]
  BY DEF SharedInv, DiagType
<1> HIDE DEF o
<1>2. diag' \in DiagType /\ diag'.passed = diag.passed /\ diag'.opened = o
  BY <1>1 DEF DiagType
<1> QED
  BY <1>2 DEF o

\* Run begins with nothing waiting or open, and with an enforcer of its own.
LEMMA StartStep ==
    ASSUME IInv, NEW r \in Runs, Start(r)
    PROVE  \E n : run' = [run EXCEPT ![r] = n] /\ Good(run[r], n)
<1> DEFINE m == run[r]
<1>1. RunInv(m) /\ m \in RunType /\ SharedInv /\ m.pc = "idle"
  BY DEF IInv, RunInv, Start
<1>2. pipe' = pipe /\ diag' = diag
  BY DEF Start
<1>3. PICK enabled \in PropFirm :
        /\ run' = [run EXCEPT ![r] = [Idle EXCEPT !.pc = "loop", !.enabled = enabled,
                                          !.capital = InitialCapital, !.peak = InitialCapital]]
        /\ ftmo' = IF enabled THEN Firm!NewPropFirmEnforcer ELSE None
  BY DEF Start
<1> DEFINE n == [Idle EXCEPT !.pc = "loop", !.enabled = enabled,
                             !.capital = InitialCapital, !.peak = InitialCapital]
<1>4. /\ n.pc = "loop" /\ n.bars = 0 /\ n.enabled = enabled /\ n.capital = InitialCapital
      /\ n.pending = Flat /\ n.open = Flat
  BY DEF Idle
<1>5. n \in RunType
  <2>1. /\ enabled \in BOOLEAN /\ InitialCapital \in Nat
        /\ InitialCapital \in 0 .. 100 * InitialCapital
        /\ 0 \in 0 .. MaxBars /\ 0 \in 0 .. 100 * InitialCapital /\ 0 \in Nat
    BY MoneyAssumption, FirmAssumption, BarsAssumption
  <2>2. /\ Flat \in [Symbols -> SignalType \cup {None}]
        /\ Flat \in [Symbols -> TradeType \cup {None}]
    BY DEF Flat
  <2>3. Idle \in RunType
    BY <2>1, <2>2, Zenon DEF Idle, RunType, Pcs
  <2> QED
    BY <2>1, <2>3 DEF RunType, Pcs
<1> HIDE DEF n
<1>6. \A s \in Symbols : n.pending[s] = None /\ n.open[s] = None
  BY <1>4 DEF Flat
<1>7. RunInv(n)
  BY <1>4, <1>5, <1>6 DEF RunInv, Candles, Flats, Single
<1>8. ftmo' = None \/ FirmInv(ftmo')
  BY <1>3, NewFirm
<1>9. SharedInv'
  BY <1>1, <1>2, <1>8 DEF SharedInv, FirmInv, F!Inside
<1>10. SameCount(m, n)
  BY <1>1, <1>2, <1>4 DEF SameCount, RunInv, Flats
<1>11. Covered(n, pipe')
  BY <1>6 DEF Covered
<1>13. Good(m, n)
  BY <1>7, <1>9, <1>10, <1>11 DEF Good
<1> QED
  BY <1>3, <1>13 DEF n

\* Record h after executeEntry for the entry waiting on symbol s.
Fills(h, s, price, qty) ==
    [h EXCEPT !.pending[s] = None, !.open[s] = Entry(h.pending[s], price, qty, h.bars)]

\* The entry becomes the trade; nothing else changes.
FillsOnly(h, n, s) ==
    /\ n.pc = h.pc /\ n.bars = h.bars /\ n.bar = h.bar
    /\ n.last = h.last /\ n.capital = h.capital /\ n.enabled = h.enabled
    /\ n.pending = [h.pending EXCEPT ![s] = None]
    /\ \A z \in Symbols : /\ n.pending[z] = IF z = s THEN None ELSE h.pending[z]
                          /\ z # s => n.open[z] = h.open[z]

\* What executeEntry changes, and that the trade stays booked.
LEMMA FillsIs ==
    ASSUME NEW h \in RunType, NEW s \in Symbols, h.pending[s] # None,
           NEW price \in Nat, NEW qty \in Nat, NEW p, NEW n, n = Fills(h, s, price, qty)
    PROVE  n \in RunType /\ FillsOnly(h, n, s) /\ (Covered(h, p) => Covered(n, p))
<1> DEFINE e == Entry(h.pending[s], price, qty, h.bars)
           P == [h.pending EXCEPT ![s] = None]
           O == [h.open EXCEPT ![s] = e]
<1>1. h.bars \in Nat
  BY BarsAssumption DEF RunType
<1>2. /\ e \in TradeType /\ e.side = h.pending[s].side /\ e.booked = h.pending[s].booked
  <2>1. h.pending[s] \in SignalType
    BY DEF RunType
  <2> QED
    BY <1>1, <2>1 DEF Entry, SignalType, TradeType
<1>3. n = [h EXCEPT !.pending = P, !.open = O]
  BY DEF Fills
<1> HIDE DEF e
<1>4. /\ P \in [Symbols -> SignalType \cup {None}] /\ O \in [Symbols -> TradeType \cup {None}]
      /\ \A z \in Symbols : /\ P[z] = IF z = s THEN None ELSE h.pending[z]
                            /\ O[z] = IF z = s THEN e ELSE h.open[z]
  BY <1>2 DEF RunType
<1>5. /\ n \in RunType /\ n.pc = h.pc /\ n.bars = h.bars /\ n.bar = h.bar
      /\ n.last = h.last /\ n.capital = h.capital /\ n.enabled = h.enabled
      /\ n.pending = P /\ n.open = O
  <2> HIDE DEF P, O
  <2> QED
    BY <1>3, <1>4 DEF RunType
<1>6. Covered(h, p) => Covered(n, p)
  BY <1>2, <1>5, EntryCovers
<1>7. /\ \A z \in Symbols : /\ n.pending[z] = IF z = s THEN None ELSE h.pending[z]
                            /\ z # s => n.open[z] = h.open[z]
      /\ n.open[s] = e
  BY <1>4, <1>5
<1> QED
  BY <1>2, <1>5, <1>6, <1>7, Zenon DEF FillsOnly

\* A candle is opened: the entry waiting on its symbol fills at its open.
LEMMA OpenBarStep ==
    ASSUME IInv, NEW r \in Runs, OpenBar(r)
    PROVE  \E n : run' = [run EXCEPT ![r] = n] /\ Good(run[r], n)
<1> DEFINE m == run[r]
           k == m.bars + 1
           y == (ftmo # None) \/ m.day
<1>1. RunInv(m) /\ m \in RunType /\ SharedInv
  BY DEF IInv, RunInv
<1>2. pipe' = pipe /\ m.pc = "loop" /\ m.bars < MaxBars
  BY DEF OpenBar
<1>3. PICK s \in Symbols, d \in BOOLEAN : \E b \in BarsOf(s), o \in PricesOf[s] :
        /\ m.day \/ d
        /\ ftmo' = DayTurned(ftmo, d)
        /\ ftmo' # None => ~ftmo'.halted
        /\ LET in == [m EXCEPT !.pc = "exit", !.bars = k, !.bar = b, !.last = b, !.day = y]
           IN  IF m.pending[s] = None
               THEN run' = [run EXCEPT ![r] = in] /\ UNCHANGED diag
               ELSE \E qty \in Filled(m.pending[s].size) :
                      /\ run' = [run EXCEPT ![r] =
                           [in EXCEPT !.pending[s] = None,
                                      !.open[s] = Entry(m.pending[s], o, qty, in.bars)]]
                      /\ diag' = [diag EXCEPT !.opened = diag.opened + 1]
  BY DEF OpenBar
<1>4. PICK b \in BarsOf(s), o \in PricesOf[s] :
        LET in == [m EXCEPT !.pc = "exit", !.bars = k, !.bar = b, !.last = b, !.day = y]
        IN  IF m.pending[s] = None
            THEN run' = [run EXCEPT ![r] = in] /\ UNCHANGED diag
            ELSE \E qty \in Filled(m.pending[s].size) :
                   /\ run' = [run EXCEPT ![r] =
                        [in EXCEPT !.pending[s] = None,
                                   !.open[s] = Entry(m.pending[s], o, qty, in.bars)]]
                   /\ diag' = [diag EXCEPT !.opened = diag.opened + 1]
  BY <1>3
<1> DEFINE in == [m EXCEPT !.pc = "exit", !.bars = k, !.bar = b, !.last = b, !.day = y]
<1>5. ftmo' = DayTurned(ftmo, d) /\ (ftmo' # None => ~ftmo'.halted)
  BY <1>3
<1>6. b \in Bars /\ b.sym = s /\ o \in Nat
  BY MoneyAssumption DEF BarsOf
<1>7. k \in 0 .. MaxBars /\ k # 0 /\ k > m.bars /\ k \in Nat /\ m.bars \in Nat
  BY <1>1, <1>2, BarsAssumption DEF RunType
<1>8. y \in BOOLEAN
  OBVIOUS
<1> HIDE DEF k, y
<1>9. /\ in \in RunType /\ in.pc = "exit" /\ in.bars = k /\ in.bar = b /\ in.last = b
      /\ in.pending = m.pending /\ in.open = m.open /\ in.capital = m.capital
      /\ in.enabled = m.enabled
  BY <1>1, <1>6, <1>7, <1>8 DEF RunType, Pcs
<1> DEFINE Opens(n) ==
             /\ RunInv(n) /\ n.pc = "exit" /\ n.capital = m.capital /\ n.enabled = m.enabled
             /\ SameCount(m, n) \/ OneOpened(m, n)
             /\ Covered(m, pipe) => Covered(n, pipe')
<1>11. diag' \in DiagType /\ \E n : run' = [run EXCEPT ![r] = n] /\ Opens(n)
  <2>1. CASE m.pending[s] = None
    <3>1. run' = [run EXCEPT ![r] = in] /\ diag' = diag
      BY <1>4, <2>1
    <3> HIDE DEF in
    <3>2. Candles(in) /\ Flats(in)
      BY <1>1, <1>2, <1>6, <1>7, <1>9, <2>1 DEF RunInv, Candles, Flats
    <3>3. Single(in)
      BY <1>1, <1>9 DEF RunInv, Single
    <3>4. RunInv(in)
      BY <1>9, <3>2, <3>3 DEF RunInv
    <3>5. SameCount(m, in)
      BY <1>9, <3>1 DEF SameCount
    <3>6. Covered(m, pipe) => Covered(in, pipe')
      BY <1>2, <1>9, Zenon DEF Covered
    <3>7. diag' \in DiagType
      BY <1>1, <3>1 DEF SharedInv
    <3> QED
      BY <1>9, <3>1, <3>4, <3>5, <3>6, <3>7, Zenon
  <2>2. CASE m.pending[s] # None
    <3>1. PICK qty \in Filled(m.pending[s].size) :
            /\ run' = [run EXCEPT ![r] =
                 [in EXCEPT !.pending[s] = None,
                            !.open[s] = Entry(m.pending[s], o, qty, in.bars)]]
            /\ diag' = [diag EXCEPT !.opened = diag.opened + 1]
      BY <1>4, <2>2
    <3>2. qty \in Nat
      <4>1. m.pending[s].size \in Nat
        BY <1>1, <2>2 DEF RunType, SignalType
      <4> QED
        BY <4>1, FilledIs
    <3> DEFINE n == Fills(in, s, o, qty)
    <3>3. run' = [run EXCEPT ![r] = n]
      <4> HIDE DEF in
      <4> QED
        BY <1>9, <3>1 DEF Fills
    <3>4. diag' \in DiagType /\ diag'.passed = diag.passed /\ diag'.opened = diag.opened + 1
      BY <1>1, <3>1, DiagOpened
    <3> HIDE DEF in
    <3>5. /\ n \in RunType /\ n.pc = in.pc /\ n.bars = in.bars /\ n.bar = in.bar
          /\ n.last = in.last /\ n.capital = in.capital /\ n.enabled = in.enabled
          /\ n.pending = [in.pending EXCEPT ![s] = None]
          /\ \A z \in Symbols : /\ n.pending[z] = IF z = s THEN None ELSE in.pending[z]
                                /\ z # s => n.open[z] = in.open[z]
          /\ Covered(in, pipe) => Covered(n, pipe)
      <4>1. in \in RunType /\ in.pending[s] # None /\ o \in Nat /\ n = Fills(in, s, o, qty)
        BY <1>6, <1>9, <2>2
      <4> HIDE DEF n
      <4>2. n \in RunType /\ FillsOnly(in, n, s) /\ (Covered(in, pipe) => Covered(n, pipe))
        BY <3>2, <4>1, FillsIs
      <4> QED
        BY <4>2, Zenon DEF FillsOnly
    <3> HIDE DEF n
    <3>6. Candles(n) /\ Flats(n)
      BY <1>6, <1>7, <1>9, <3>5 DEF Candles, Flats
    <3>8. Single(n)
      BY <1>1, <1>9, <3>5 DEF RunInv, Single
    <3>9. RunInv(n)
      BY <3>5, <3>6, <3>8 DEF RunInv
    <3>10. OneOpened(m, n)
      BY <1>9, <2>2, <3>4, <3>5 DEF OneOpened
    <3>11. Covered(m, pipe) => Covered(n, pipe')
      <4>1. Covered(m, pipe) => Covered(in, pipe)
        BY <1>9, Zenon DEF Covered
      <4> QED
        BY <1>2, <3>5, <4>1
    <3> QED
      BY <1>9, <3>3, <3>4, <3>5, <3>9, <3>10, <3>11, Zenon
  <2> QED
    BY <2>1, <2>2
<1>12. PICK n : run' = [run EXCEPT ![r] = n] /\ Opens(n)
  BY <1>11
<1>13. ftmo' = None \/ FirmInv(ftmo')
  <2>1. ftmo' = ftmo \/ (ftmo # None /\ ftmo' = Firm!AfterNewDay(ftmo))
    BY <1>5 DEF DayTurned
  <2>2. CASE ftmo' = ftmo
    BY <1>1, <2>2 DEF SharedInv
  <2>3. CASE ftmo # None /\ ftmo' = Firm!AfterNewDay(ftmo)
    BY <1>1, <2>3, FirmDay DEF SharedInv
  <2> QED
    BY <2>1, <2>2, <2>3
<1>14. SharedInv'
  BY <1>1, <1>2, <1>11, <1>13 DEF SharedInv, FirmInv, F!Inside
<1>16. Good(m, n)
  BY <1>12, <1>14 DEF Good
<1> QED
  BY <1>12, <1>16
\* At the end of the data the waiting entries fill, one after the other.
LEMMA FlushStep ==
    ASSUME IInv, NEW r \in Runs, Flush(r)
    PROVE  \E n : run' = [run EXCEPT ![r] = n] /\ Good(run[r], n)
<1> DEFINE m == run[r]
<1>1. RunInv(m) /\ m \in RunType /\ SharedInv /\ m.pc = "flush" /\ ftmo' = ftmo /\ pipe' = pipe
  BY DEF IInv, RunInv, Flush
<1>2. CASE m.pending = Flat /\ run' = [run EXCEPT ![r].pc = "close"] /\ diag' = diag
  <2> DEFINE n == [m EXCEPT !.pc = "close"]
  <2>1. run' = [run EXCEPT ![r] = n]
    BY <1>2
  <2>2. n \in RunType /\ n.pc = "close" /\ Keeps(m, n)
    BY <1>1, PcChange DEF Pcs
  <2> HIDE DEF n
  <2>3. RunInv(n)
    BY <1>1, <1>2, <2>2 DEF RunInv, Candles, Flats, Single, Keeps
  <2>4. SharedInv'
    BY <1>1, <1>2 DEF SharedInv, FirmInv, F!Inside
  <2>5. Good(m, n)
    BY <1>1, <1>2, <2>2, <2>3, <2>4, QuietGood DEF Keeps
  <2> QED
    BY <2>1, <2>5
<1>3. ASSUME NEW s \in Symbols, m.pending[s] # None, NEW qty \in Filled(m.pending[s].size),
             run' = [run EXCEPT ![r] = [m EXCEPT !.pending[s] = None,
                         !.open[s] = Entry(m.pending[s], m.last.close, qty, m.bars)]],
             diag' = [diag EXCEPT !.opened = diag.opened + 1]
      PROVE  \E n : run' = [run EXCEPT ![r] = n] /\ Good(run[r], n)
  <2> DEFINE n == Fills(m, s, m.last.close, qty)
  <2>1. run' = [run EXCEPT ![r] = n]
    BY <1>3 DEF Fills
  <2>2. qty \in Nat
    <3>1. m.pending[s].size \in Nat
      BY <1>1, <1>3 DEF RunType, SignalType
    <3> QED
      BY <3>1, FilledIs
  <2>3. m.last \in Bars /\ m.bars # 0
    BY <1>1 DEF RunInv, Candles
  <2>4. m.last.close \in Nat /\ n = Fills(m, s, m.last.close, qty)
    BY <2>3, BarIs
  <2>5. diag' \in DiagType /\ diag'.passed = diag.passed /\ diag'.opened = diag.opened + 1
    BY <1>1, <1>3, DiagOpened
  <2> HIDE DEF n
  <2>6. n \in RunType /\ FillsOnly(m, n, s) /\ (Covered(m, pipe) => Covered(n, pipe))
    BY <1>1, <1>3, <2>2, <2>4, FillsIs
  <2>7. Candles(n) /\ Flats(n)
    BY <1>1, <2>3, <2>6 DEF RunInv, Candles, Flats, FillsOnly
  <2>8. Single(n)
    BY <1>1, <2>6 DEF RunInv, Single, FillsOnly
  <2>9. RunInv(n)
    BY <2>6, <2>7, <2>8 DEF RunInv
  <2>10. SharedInv'
    BY <1>1, <2>5 DEF SharedInv, FirmInv, F!Inside
  <2>11. OneOpened(m, n)
    BY <1>3, <2>5, <2>6 DEF OneOpened, FillsOnly
  <2>13. Good(m, n)
    BY <1>1, <2>6, <2>9, <2>10, <2>11 DEF Good
  <2> QED
    BY <2>1, <2>13
<1> QED
  BY <1>2, <1>3 DEF Flush

\* Record h after the trade on symbol s closed.
Closes(h, s, pc, c, price) ==
    [h EXCEPT !.pc = pc, !.open[s] = None, !.capital = c,
              !.closed = [sym |-> s, price |-> price]]

\* The trade is gone and the capital new; nothing else changes.
ClosesOnly(h, n, s, pc, c) ==
    /\ n.pc = pc /\ n.capital = c /\ n.pending = h.pending
    /\ n.bars = h.bars /\ n.bar = h.bar /\ n.last = h.last /\ n.enabled = h.enabled
    /\ \A z \in Symbols : n.open[z] = IF z = s THEN None ELSE h.open[z]

\* What closing a trade changes in the run.
LEMMA ClosesIs ==
    ASSUME NEW h \in RunType, NEW s \in Symbols, NEW pc \in Pcs,
           NEW c \in 0 .. 100 * InitialCapital, NEW price \in Nat,
           NEW n, n = Closes(h, s, pc, c, price)
    PROVE  n \in RunType /\ ClosesOnly(h, n, s, pc, c)
<1> DEFINE O == [h.open EXCEPT ![s] = None]
           x == [sym |-> s, price |-> price]
<1>1. n = [h EXCEPT !.pc = pc, !.open = O, !.capital = c, !.closed = x]
  BY DEF Closes
<1>2. /\ O \in [Symbols -> TradeType \cup {None}] /\ x \in ClosedType
      /\ \A z \in Symbols : O[z] = IF z = s THEN None ELSE h.open[z]
  BY DEF RunType, ClosedType
<1> HIDE DEF O, x
<1>3. /\ n \in RunType /\ n.pc = pc /\ n.open = O /\ n.capital = c /\ n.pending = h.pending
      /\ n.bars = h.bars /\ n.bar = h.bar /\ n.last = h.last /\ n.enabled = h.enabled
  BY <1>1, <1>2, ZenonT(30) DEF RunType
<1> QED
  BY <1>2, <1>3, Zenon DEF ClosesOnly

\* A release of the closed trade's symbol leaves the others booked.
LEMMA CloseCovers ==
    ASSUME NEW h \in RunType, NEW n, NEW s \in Symbols, NEW pc, NEW c, NEW p, NEW q,
           ClosesOnly(h, n, s, pc, c), h.pending[s] = None, Covered(h, p),
           OnlyIn(s, p, q)
    PROVE  Covered(n, q)
<1> SUFFICES ASSUME NEW z \in Symbols, NEW t \in {n.pending[z], n.open[z]} \ {None}
             PROVE  q.notional[z] >= t.booked /\ q.gross[t.side][z] >= t.booked
  BY Zenon DEF Covered
<1>1. z # s /\ t \in {h.pending[z], h.open[z]} \ {None}
  BY DEF ClosesOnly
<1>2. t.side \in Books!Sides
  BY <1>1 DEF RunType, SignalType, TradeType
<1>3. p.notional[z] >= t.booked /\ p.gross[t.side][z] >= t.booked
  BY <1>1, Zenon DEF Covered
<1>4. q.notional[z] = p.notional[z] /\ q.gross[t.side][z] = p.gross[t.side][z]
  BY <1>1, <1>2, Zenon DEF OnlyIn
<1> QED
  BY <1>3, <1>4

\* Closing a trade keeps a run's invariant.
LEMMA CloseInv ==
    ASSUME NEW m, RunInv(m), NEW n \in RunType, NEW s \in Symbols, NEW pc, NEW c,
           ClosesOnly(m, n, s, pc, c),
           (m.pc = "exit" /\ pc = "signal") \/ (m.pc = "close" /\ pc = "close")
    PROVE  RunInv(n)
<1>1. Candles(n)
  BY DEF RunInv, Candles, ClosesOnly
<1>2. Flats(n)
  BY DEF RunInv, Candles, Flats, ClosesOnly
<1>3. Single(n)
  BY DEF RunInv, Single, ClosesOnly
<1> QED
  BY <1>1, <1>2, <1>3 DEF RunInv

\* An exit: the capital and the enforcer move by the same PnL.
LEMMA ExitStep ==
    ASSUME IInv, NEW r \in Runs, ExitTrade(r)
    PROVE  \E n : run' = [run EXCEPT ![r] = n] /\ Good(run[r], n)
<1> DEFINE m == run[r]
           s == m.bar.sym
           t == m.open[s]
<1>1. RunInv(m) /\ m \in RunType /\ SharedInv /\ m.pc = "exit" /\ t # None /\ diag' = diag
  BY DEF IInv, RunInv, ExitTrade
<1>2. m.bar \in Bars /\ s \in Symbols /\ m.pending[s] = None
  BY <1>1, BarIs DEF RunInv, Candles
<1>3. t \in TradeType /\ t.side \in Books!Sides /\ t.qty \in Nat
  BY <1>1, <1>2 DEF RunType, TradeType
<1>4. PICK price \in PricesOf[s], qty \in Filled(t.qty) :
        /\ run' = [run EXCEPT ![r] =
              [m EXCEPT !.pc = "signal", !.open[s] = None,
                        !.capital = AddToCapital(m.capital, PnL(t, price, qty)),
                        !.closed = [sym |-> s, price |-> price]]]
        /\ ftmo' = IF ftmo = None THEN None ELSE Firm!AfterFill(ftmo, PnL(t, price, qty))
        /\ pipe' = Books!Release(pipe, s, t.side, qty, price)
  BY Zenon DEF ExitTrade
<1> DEFINE pnl == PnL(t, price, qty)
           c == AddToCapital(m.capital, pnl)
           n == Closes(m, s, "signal", c, price)
<1>5. run' = [run EXCEPT ![r] = n]
  BY <1>4 DEF Closes
<1>6. price \in Nat /\ qty \in Nat
  BY <1>2, <1>3, FilledIs, MoneyAssumption
<1> HIDE DEF s, t
<1>7. pnl \in -(InitialCapital \div 10) .. InitialCapital \div 10
  BY <1>3, <1>6, PnLIs
<1>8. /\ ftmo' = IF ftmo = None THEN None ELSE Firm!AfterFill(ftmo, pnl)
      /\ pipe' = Books!Release(pipe, s, t.side, qty, price)
  BY <1>4
<1> HIDE DEF pnl
<1>9. pnl \in Int /\ InitialCapital \div 10 \in Nat /\ pnl >= -(InitialCapital \div 10)
  BY <1>7, MoneyAssumption
<1>10. m.capital \in 0 .. 100 * InitialCapital
  BY <1>1 DEF RunType
<1>11. /\ c \in 0 .. 100 * InitialCapital
       /\ m.capital + pnl >= 0 /\ c < 100 * InitialCapital => c = m.capital + pnl
  BY <1>9, <1>10, CapitalIs
<1>12. "signal" \in Pcs /\ n = Closes(m, s, "signal", c, price)
  BY DEF Pcs
<1> HIDE DEF c, n
<1>13. n \in RunType /\ ClosesOnly(m, n, s, "signal", c)
  BY <1>1, <1>2, <1>6, <1>11, <1>12, ClosesIs
<1>14. RunInv(n)
  BY <1>1, <1>2, <1>13, CloseInv
<1>15. pipe \in Books!PipelineType
  BY <1>1 DEF SharedInv
<1>16. pipe' \in Books!PipelineType /\ OnlyIn(s, pipe, pipe')
  <2>1. s \in Symbols /\ t.side \in Books!Sides /\ qty \in Nat /\ price \in Nat
    BY <1>2, <1>3, <1>6
  <2> QED
    BY <1>8, <1>15, <2>1, BooksRelease
<1>17. ftmo' = None \/ FirmInv(ftmo')
  BY <1>1, <1>8, <1>9, FirmFill DEF SharedInv
<1>18. SharedInv'
  BY <1>1, <1>16, <1>17 DEF SharedInv, FirmInv, F!Inside
<1>19. Covered(m, pipe) => Covered(n, pipe')
  BY <1>1, <1>2, <1>13, <1>16, CloseCovers
<1>20. SameCount(m, n)
  BY <1>1, <1>13 DEF SameCount, ClosesOnly
<1>22. Good(m, n)
  BY <1>14, <1>18, <1>19, <1>20 DEF Good
<1> QED
  BY <1>5, <1>22

\* The close-out at the end of the run.
LEMMA CloseOutStep ==
    ASSUME IInv, NEW r \in Runs, CloseOut(r)
    PROVE  \E n : run' = [run EXCEPT ![r] = n] /\ Good(run[r], n)
<1> DEFINE m == run[r]
<1>1. /\ RunInv(m) /\ m \in RunType /\ SharedInv /\ m.pc = "close"
      /\ diag' = diag /\ ftmo' = ftmo
  BY DEF IInv, RunInv, CloseOut
<1>2. PICK s \in Symbols : 
        /\ m.open[s] # None
        /\ \E price \in PricesOf[s] \cup {m.last.close} :
             /\ run' = [run EXCEPT ![r] =
                   [m EXCEPT !.open[s] = None,
                             !.capital = AddToCapital(m.capital, PnL(m.open[s], price, m.open[s].qty)),
                             !.closed = [sym |-> s, price |-> price]]]
             /\ pipe' = Books!Release(pipe, s, m.open[s].side, m.open[s].qty, price)
  BY Zenon DEF CloseOut, ClosedBooks
<1> DEFINE t == m.open[s]
<1>3. PICK price \in PricesOf[s] \cup {m.last.close} :
        /\ run' = [run EXCEPT ![r] =
              [m EXCEPT !.open[s] = None,
                        !.capital = AddToCapital(m.capital, PnL(t, price, t.qty)),
                        !.closed = [sym |-> s, price |-> price]]]
        /\ pipe' = Books!Release(pipe, s, t.side, t.qty, price)
  BY <1>2, Zenon
<1> DEFINE pnl == PnL(t, price, t.qty)
           c == AddToCapital(m.capital, pnl)
           n == Closes(m, s, "close", c, price)
<1>4. run' = [run EXCEPT ![r] = n]
  <2>1. n = [m EXCEPT !.open[s] = None, !.capital = c, !.closed = [sym |-> s, price |-> price]]
    <3> HIDE DEF c
    <3> QED
      BY <1>1 DEF Closes, RunType
  <2> QED
    BY <1>3, <2>1
<1>5. m.last \in Bars /\ m.pending[s] = None
  BY <1>1 DEF RunInv, Candles, Flats, Flat
<1>6. price \in Nat
  BY <1>5, BarIs, MoneyAssumption
<1>7. t \in TradeType /\ t.side \in Books!Sides /\ t.qty \in Nat
  BY <1>1, <1>2 DEF RunType, TradeType
<1>8. pipe' = Books!Release(pipe, s, t.side, t.qty, price)
  BY <1>3
<1> HIDE DEF t
<1>9. pnl \in Int
  BY <1>6, <1>7, PnLIs, MoneyAssumption
<1>10. m.capital \in 0 .. 100 * InitialCapital
  BY <1>1 DEF RunType
<1> HIDE DEF pnl
<1>11. c \in 0 .. 100 * InitialCapital
  BY <1>9, <1>10, CapitalIs
<1>12. "close" \in Pcs /\ n = Closes(m, s, "close", c, price)
  BY DEF Pcs
<1> HIDE DEF c, n
<1>13. n \in RunType /\ ClosesOnly(m, n, s, "close", c)
  BY <1>1, <1>6, <1>11, <1>12, ClosesIs
<1>14. RunInv(n)
  BY <1>1, <1>13, CloseInv
<1>15. pipe \in Books!PipelineType
  BY <1>1 DEF SharedInv
<1>16. pipe' \in Books!PipelineType /\ OnlyIn(s, pipe, pipe')
  BY <1>6, <1>7, <1>8, <1>15, BooksRelease
<1>17. SharedInv'
  BY <1>1, <1>16 DEF SharedInv, FirmInv, F!Inside
<1>18. Covered(m, pipe) => Covered(n, pipe')
  BY <1>1, <1>5, <1>13, <1>16, CloseCovers
<1>19. SameCount(m, n)
  BY <1>1, <1>13 DEF SameCount, ClosesOnly
<1>21. Good(m, n)
  BY <1>14, <1>17, <1>18, <1>19 DEF Good
<1> QED
  BY <1>4, <1>21
\* Record h after generateSignal left a signal waiting on symbol s.
Waits(h, s, sig) == [h EXCEPT !.pending[s] = sig]

\* What a waiting signal changes in the run.
LEMMA WaitsIs ==
    ASSUME NEW h \in RunType, NEW s \in Symbols, NEW sig \in SignalType,
           NEW n, n = Waits(h, s, sig)
    PROVE  /\ n \in RunType /\ n.pc = h.pc /\ n.bars = h.bars /\ n.bar = h.bar /\ n.last = h.last
           /\ n.capital = h.capital /\ n.enabled = h.enabled /\ n.open = h.open
           /\ n.pending = [h.pending EXCEPT ![s] = sig]
<1> DEFINE P == [h.pending EXCEPT ![s] = sig]
<1>1. n = [h EXCEPT !.pending = P]
  BY DEF Waits
<1>2. P \in [Symbols -> SignalType \cup {None}]
  BY DEF RunType
<1> HIDE DEF P
<1>3. /\ n \in RunType /\ n.pc = h.pc /\ n.bars = h.bars /\ n.bar = h.bar /\ n.last = h.last
      /\ n.capital = h.capital /\ n.enabled = h.enabled /\ n.open = h.open /\ n.pending = P
  BY <1>1, <1>2 DEF RunType
<1> QED
  BY <1>3 DEF P

\* Books that cover what was booked cover the signal that waits, too.
LEMMA WaitCovers ==
    ASSUME NEW h \in RunType, NEW n, NEW s \in Symbols, NEW sig \in SignalType,
           NEW p \in Books!PipelineType, NEW q \in Books!PipelineType,
           n.open = h.open, n.pending = [h.pending EXCEPT ![s] = sig],
           B!Covers(p, q), Covered(h, p),
           q.notional[s] >= sig.booked, q.gross[sig.side][s] >= sig.booked
    PROVE  Covered(n, q)
<1> SUFFICES ASSUME NEW z \in Symbols, NEW t \in {n.pending[z], n.open[z]} \ {None}
             PROVE  q.notional[z] >= t.booked /\ q.gross[t.side][z] >= t.booked
  BY Zenon DEF Covered
<1>1. n.pending[z] = IF z = s THEN sig ELSE h.pending[z]
  BY DEF RunType
<1>2. CASE z = s /\ t = sig
  BY <1>2
<1>3. CASE t \in {h.pending[z], h.open[z]} \ {None}
  <2>1. t.side \in Books!Sides /\ t.booked \in Nat
    BY <1>3 DEF RunType, SignalType, TradeType
  <2>2. p.notional[z] >= t.booked /\ p.gross[t.side][z] >= t.booked
    BY <1>3, Zenon DEF Covered
  <2>3. q.notional[z] >= p.notional[z] /\ q.gross[t.side][z] >= p.gross[t.side][z]
    BY <2>1, SameBooks, Zenon DEF B!Covers
  <2>4. /\ p.notional[z] \in Nat /\ q.notional[z] \in Nat
        /\ p.gross[t.side][z] \in Nat /\ q.gross[t.side][z] \in Nat
    BY <2>1 DEF Books!PipelineType
  <2> QED
    BY <2>1, <2>2, <2>3, <2>4
<1> QED
  BY <1>1, <1>2, <1>3

\* Books that only grow cover what they covered.
LEMMA GrowCovers ==
    ASSUME NEW h \in RunType, NEW n, NEW p \in Books!PipelineType, NEW q \in Books!PipelineType,
           n.open = h.open, n.pending = h.pending, B!Covers(p, q), Covered(h, p)
    PROVE  Covered(n, q)
<1> SUFFICES ASSUME NEW z \in Symbols, NEW t \in {h.pending[z], h.open[z]} \ {None}
             PROVE  q.notional[z] >= t.booked /\ q.gross[t.side][z] >= t.booked
  BY Zenon DEF Covered
<1>1. t.side \in Books!Sides /\ t.booked \in Nat
  BY DEF RunType, SignalType, TradeType
<1>2. p.notional[z] >= t.booked /\ p.gross[t.side][z] >= t.booked
  BY Zenon DEF Covered
<1>3. q.notional[z] >= p.notional[z] /\ q.gross[t.side][z] >= p.gross[t.side][z]
  BY <1>1, SameBooks, Zenon DEF B!Covers
<1>4. /\ p.notional[z] \in Nat /\ q.notional[z] \in Nat
      /\ p.gross[t.side][z] \in Nat /\ q.gross[t.side][z] \in Nat
  BY <1>1 DEF Books!PipelineType
<1> QED
  BY <1>1, <1>2, <1>3, <1>4

\* Passing counts once.
LEMMA DiagPassed ==
    ASSUME SharedInv,
           diag' = [diag EXCEPT !.attempts = diag.attempts + 1, !.passed = diag.passed + 1]
    PROVE  diag' \in DiagType /\ diag'.passed = diag.passed + 1 /\ diag'.opened = diag.opened
<1> DEFINE a == diag.attempts + 1
           b == diag.passed + 1
<1>1. /\ diag \in DiagType /\ a \in Nat /\ b \in Nat
      /\ diag' = [diag EXCEPT !.attempts = a, !.passed = b]
  BY DEF SharedInv, DiagType
<1> HIDE DEF a, b
<1>2. diag' \in DiagType /\ diag'.passed = b /\ diag'.opened = diag.opened
  BY <1>1 DEF DiagType
<1> QED
  BY <1>2 DEF b

\* A signal goes through the pipeline and waits, or is refused.
LEMMA SignalStep ==
    ASSUME IInv, NEW r \in Runs, PipelineSignal(r)
    PROVE  \E n : run' = [run EXCEPT ![r] = n] /\ Good(run[r], n)
<1> DEFINE m == run[r]
           s == m.bar.sym
           e == EndBar(m)
<1>1. RunInv(m) /\ m \in RunType /\ SharedInv /\ ftmo' = ftmo /\ MaySignal(m)
  BY DEF IInv, RunInv, PipelineSignal
<1>2. m.pc = "signal" /\ m.open[s] = None
  BY <1>1 DEF MaySignal
<1>3. m.bar \in Bars /\ s \in Symbols /\ m.bar.close \in Nat \ {0} /\ m.pending[s] = None
  BY <1>1, <1>2, BarIs DEF RunInv, Candles
<1>4. m.bars \in Nat /\ m.bars # 0 /\ m.capital \in Nat
  BY <1>1, <1>2, BarsAssumption, MoneyAssumption DEF RunInv, Candles, RunType
<1>5. RunInv(e) /\ e.pc = "loop" /\ Keeps(m, e) /\ e \in RunType
  BY <1>1, <1>2, EndBarIs DEF RunInv
<1>6. PICK side \in Books!Sides, size \in Sizes, vol \in BOOLEAN :
        LET res == Answer(pipe, s, side, m.bar.close, size, m.capital, vol)
        IN  /\ pipe' = res.pipe
            /\ IF res.approved
               THEN /\ diag' = [diag EXCEPT !.attempts = diag.attempts + 1,
                                            !.passed = diag.passed + 1]
                    /\ run' = [run EXCEPT ![r] = [e EXCEPT !.pending[s] =
                          [side |-> side, size |-> res.size, asked |-> size,
                           booked |-> res.size * m.bar.close, decided |-> m.bars]]]
               ELSE /\ diag' = [diag EXCEPT !.attempts = diag.attempts + 1,
                                            !.disposed = diag.disposed + 1]
                    /\ run' = [run EXCEPT ![r] = e]
  BY Zenon DEF PipelineSignal, Answer, Asked
<1> DEFINE res == Answer(pipe, s, side, m.bar.close, size, m.capital, vol)
           sig == [side |-> side, size |-> res.size, asked |-> size,
                   booked |-> res.size * m.bar.close, decided |-> m.bars]
<1>7. size \in Nat /\ pipe \in Books!PipelineType
  BY <1>1, MoneyAssumption DEF SharedInv
<1>8. /\ res.pipe \in Books!PipelineType /\ B!Covers(pipe, res.pipe)
      /\ res.approved => /\ res.size \in Nat
                         /\ res.pipe.notional[s] >= res.size * m.bar.close
                         /\ res.pipe.gross[side][s] >= res.size * m.bar.close
  BY <1>3, <1>4, <1>7, BooksSignal
<1>9. /\ pipe' = res.pipe
      /\ \/ /\ res.approved
            /\ diag' = [diag EXCEPT !.attempts = diag.attempts + 1, !.passed = diag.passed + 1]
            /\ run' = [run EXCEPT ![r] = Waits(e, s, sig)]
         \/ /\ diag' = [diag EXCEPT !.attempts = diag.attempts + 1, !.disposed = diag.disposed + 1]
            /\ run' = [run EXCEPT ![r] = e]
  BY <1>6 DEF Waits
<1> HIDE DEF res, s, e
<1>10. pipe' \in Books!PipelineType /\ B!Covers(pipe, pipe')
  BY <1>8, <1>9
<1>11. ASSUME diag' \in DiagType PROVE SharedInv'
  BY <1>1, <1>10, <1>11 DEF SharedInv, FirmInv, F!Inside
<1>12. CASE /\ diag' = [diag EXCEPT !.attempts = diag.attempts + 1, !.disposed = diag.disposed + 1]
            /\ run' = [run EXCEPT ![r] = e]
  <2>1. diag' \in DiagType /\ diag'.passed = diag.passed /\ diag'.opened = diag.opened
    BY <1>1, <1>12, DiagSteps
  <2>2. SameCount(m, e)
    BY <1>5, <2>1 DEF SameCount, Keeps
  <2>3. Covered(m, pipe) => Covered(e, pipe')
    BY <1>1, <1>5, <1>7, <1>10, GrowCovers DEF Keeps
  <2>5. Good(m, e)
    BY <1>5, <1>11, <2>1, <2>2, <2>3 DEF Good
  <2> QED
    BY <1>12, <2>5
<1>13. CASE /\ res.approved
            /\ diag' = [diag EXCEPT !.attempts = diag.attempts + 1, !.passed = diag.passed + 1]
            /\ run' = [run EXCEPT ![r] = Waits(e, s, sig)]
  <2> DEFINE n == Waits(e, s, sig)
  <2>1. res.size * m.bar.close \in Nat
    BY <1>3, <1>8, <1>13
  <2>2. /\ sig \in SignalType /\ sig.side = side
        /\ sig.booked = res.size * m.bar.close
    BY <1>4, <1>7, <1>8, <1>13, <2>1 DEF SignalType
  <2> HIDE DEF sig
  <2>3. n = Waits(e, s, sig) /\ s \in Symbols /\ run' = [run EXCEPT ![r] = n]
    BY <1>3, <1>13
  <2> HIDE DEF n
  <2>4. /\ n \in RunType /\ n.pc = "loop" /\ n.bars = m.bars /\ n.last = m.last
        /\ n.capital = m.capital /\ n.enabled = m.enabled /\ n.open = m.open
        /\ n.pending = [m.pending EXCEPT ![s] = sig]
    BY <1>5, <2>2, <2>3, WaitsIs DEF Keeps
  <2>5. \A z \in Symbols : n.pending[z] = IF z = s THEN sig ELSE m.pending[z]
    BY <1>1, <2>4 DEF RunType
  <2>6. Candles(n) /\ Flats(n)
    BY <1>1, <1>2, <1>4, <2>4 DEF RunInv, Candles, Flats
  <2>7. Single(n)
    BY <1>1, <1>2, <2>4, <2>5 DEF RunInv, Single
  <2>8. RunInv(n)
    BY <2>4, <2>6, <2>7 DEF RunInv
  <2>9. diag' \in DiagType /\ diag'.passed = diag.passed + 1 /\ diag'.opened = diag.opened
    BY <1>1, <1>13, DiagPassed
  <2>10. OnePassed(m, n)
    BY <1>3, <2>2, <2>3, <2>4, <2>9 DEF OnePassed
  <2>11. pipe'.notional[s] >= sig.booked /\ pipe'.gross[sig.side][s] >= sig.booked
    BY <1>8, <1>9, <1>13, <2>2
  <2>12. Covered(m, pipe) => Covered(n, pipe')
    BY <1>1, <1>7, <1>10, <2>2, <2>3, <2>4, <2>11, WaitCovers
  <2>14. Good(m, n)
    BY <1>11, <2>8, <2>9, <2>10, <2>12 DEF Good
  <2> QED
    BY <2>3, <2>14
<1> QED
  BY <1>9, <1>12, <1>13

\* Every step of the engine is such a step of one run, which is not idle both
\* before and after it.
LEMMA EngineStep ==
    ASSUME IInv, Next
    PROVE  \E r \in Runs : \E n :
              /\ run' = [run EXCEPT ![r] = n] /\ Good(run[r], n)
              /\ run[r].pc # "idle" \/ run'[r].pc # "idle"
<1>1. PICK r \in Runs : Start(r) \/ Step(r)
  BY DEF Next
<1>2. \E n : run' = [run EXCEPT ![r] = n] /\ Good(run[r], n)
  BY <1>1, StartStep, SkipSteps, OpenBarStep, ExitStep, PcSteps, SignalStep, FlushStep,
     CloseOutStep DEF Step
<1>3. run[r].pc # "idle" \/ run'[r].pc # "idle"
  <2>1. CASE Start(r)
    <3>1. run \in [Runs -> RunType]
      BY DEF IInv
    <3>2. run'[r].pc = "loop"
      BY <2>1, <3>1 DEF Start, Idle
    <3> QED
      BY <3>2
  <2>2. CASE Step(r)
    BY <2>2 DEF Step, SkipUniverse, SkipBar, OpenBar, ExitTrade, NoExit, StillOpen, AttemptOnly,
                NoSignal, PipelineSignal, MaySignal, EndOfData, Flush, CloseOut, Finish
  <2> QED
    BY <1>1, <2>1, <2>2
<1> QED
  BY <1>2, <1>3

-----------------------------------------------------------------------------
(***************************************************************************)
(* The inductive invariant                                                 *)
(***************************************************************************)

\* The entries that wait, over all the runs.
Waiting(f) == {rs \in Runs \X Symbols : f[rs[1]].pending[rs[2]] # None}

LEMMA WaitingFinite ==
    ASSUME NEW f
    PROVE  IsFiniteSet(Waiting(f)) /\ Cardinality(Waiting(f)) \in Nat
<1> DEFINE U == Runs \X Symbols
           W == Waiting(f)
<1>1. IsFiniteSet(U)
  BY FS_Product, FiniteAssumption
<1>2. W \in SUBSET U
  BY DEF Waiting
<1> HIDE DEF U, W
<1>3. IsFiniteSet(W) /\ Cardinality(W) \in Nat
  BY <1>1, <1>2, FS_Subset, FS_CardinalityType
<1> QED
  BY <1>3 DEF W

\* One entry of one handler changes.
LEMMA WaitingIs ==
    ASSUME NEW f, NEW g, NEW r \in Runs, NEW s \in Symbols,
           \A a \in Runs, z \in Symbols :
              <<a, z>> # <<r, s>> => g[a].pending[z] = f[a].pending[z]
    PROVE  /\ g[r].pending[s] = None => Waiting(g) = Waiting(f) \ {<<r, s>>}
           /\ g[r].pending[s] # None => Waiting(g) = Waiting(f) \cup {<<r, s>>}
<1>1. ASSUME NEW a \in Runs, NEW z \in Symbols
      PROVE  /\ <<a, z>> \in Waiting(f) <=> f[a].pending[z] # None
             /\ <<a, z>> \in Waiting(g) <=> g[a].pending[z] # None
  BY DEF Waiting
<1>2. ASSUME NEW x \in Runs \X Symbols
      PROVE  /\ x # <<r, s>> => (x \in Waiting(g) <=> x \in Waiting(f))
             /\ x = <<r, s>> => (x \in Waiting(g) <=> g[r].pending[s] # None)
  <2>1. PICK a \in Runs, z \in Symbols : x = <<a, z>>
    OBVIOUS
  <2> QED
    BY <1>1, <2>1
<1>3. \A h : \A x \in Waiting(h) : x \in Runs \X Symbols
  BY DEF Waiting
<1>4. <<r, s>> \in Runs \X Symbols
  OBVIOUS
<1> QED
  BY <1>2, <1>3, <1>4

\* The count of what passed stays exact.
LEMMA CountStep ==
    ASSUME IInv, NEW r \in Runs, NEW n, \A a \in Runs : run'[a] = IF a = r THEN n ELSE run[a],
           Good(run[r], n)
    PROVE  PassedAreOpened'
<1> DEFINE m == run[r]
           W == Waiting(run)
           V == Waiting(run')
<1>1. /\ run \in [Runs -> RunType] /\ m \in RunType /\ n \in RunType
      /\ diag \in DiagType /\ diag' \in DiagType /\ diag.passed = diag.opened + Cardinality(W)
  BY DEF IInv, Good, RunInv, SharedInv, PassedAreOpened, Waiting
<1>2. IsFiniteSet(W) /\ Cardinality(W) \in Nat
  BY WaitingFinite
<1>3. diag.passed \in Nat /\ diag.opened \in Nat
  BY <1>1 DEF DiagType
<1>4. SUFFICES diag'.passed = diag'.opened + Cardinality(V)
  BY DEF PassedAreOpened, Waiting
<1>5. CASE SameCount(m, n)
  <2>1. \A a \in Runs : run'[a].pending = run[a].pending
    BY <1>1, <1>5 DEF SameCount
  <2>2. V = W
    BY <2>1 DEF Waiting
  <2> QED
    BY <1>1, <1>5, <2>2 DEF SameCount
<1>6. CASE OneOpened(m, n)
  <2>1. PICK s \in Symbols :
          /\ m.pending[s] # None /\ n.pending = [m.pending EXCEPT ![s] = None]
          /\ diag'.passed = diag.passed /\ diag'.opened = diag.opened + 1
    BY <1>6 DEF OneOpened
  <2>2. n.pending[s] = None /\ \A z \in Symbols \ {s} : n.pending[z] = m.pending[z]
    BY <1>1, <2>1 DEF RunType
  <2>3. V = W \ {<<r, s>>}
    <3>1. \A a \in Runs : run'[a] = IF a = r THEN n ELSE run[a]
      BY <1>1
    <3>2. \A a \in Runs, z \in Symbols :
             <<a, z>> # <<r, s>> => run'[a].pending[z] = run[a].pending[z]
      BY <2>2, <3>1
    <3>3. run'[r].pending[s] = n.pending[s]
      BY <3>1
    <3> QED
      BY <2>2, <3>2, <3>3, WaitingIs
  <2>4. <<r, s>> \in W
    BY <2>1 DEF Waiting
  <2> HIDE DEF W, V
  <2>5. Cardinality(V) = Cardinality(W) - 1
    BY <1>2, <2>3, <2>4, FS_RemoveElement
  <2> QED
    BY <1>1, <1>2, <1>3, <2>1, <2>5
<1>7. CASE OnePassed(m, n)
  <2>1. PICK s \in Symbols, sig \in SignalType :
          /\ m.pending[s] = None /\ n.pending = [m.pending EXCEPT ![s] = sig]
          /\ diag'.passed = diag.passed + 1 /\ diag'.opened = diag.opened
    BY <1>7 DEF OnePassed
  <2>2. n.pending[s] # None /\ \A z \in Symbols \ {s} : n.pending[z] = m.pending[z]
    BY <1>1, <2>1, NoneAssumption DEF RunType
  <2>3. V = W \cup {<<r, s>>}
    <3>1. \A a \in Runs : run'[a] = IF a = r THEN n ELSE run[a]
      BY <1>1
    <3>2. \A a \in Runs, z \in Symbols :
             <<a, z>> # <<r, s>> => run'[a].pending[z] = run[a].pending[z]
      BY <2>2, <3>1
    <3>3. run'[r].pending[s] # None
      BY <2>2, <3>1
    <3> QED
      BY <3>2, <3>3, WaitingIs
  <2>4. <<r, s>> \notin W
    BY <2>1 DEF Waiting
  <2> HIDE DEF W, V
  <2>5. Cardinality(V) = Cardinality(W) + 1
    BY <1>2, <2>3, <2>4, FS_AddElement
  <2> QED
    BY <1>1, <1>2, <1>3, <2>1, <2>5
<1> QED
  BY <1>5, <1>6, <1>7 DEF Good

\* Before the first run.
LEMMA InvInit == Init => IInv
<1> SUFFICES ASSUME Init PROVE IInv
  OBVIOUS
<1>1. /\ 0 \in 0 .. MaxBars /\ 0 \in 0 .. 100 * InitialCapital
      /\ Flat \in [Symbols -> SignalType \cup {None}]
      /\ Flat \in [Symbols -> TradeType \cup {None}]
  BY MoneyAssumption, BarsAssumption DEF Flat
<1>2. Idle \in RunType
  BY <1>1, Zenon DEF Idle, RunType, Pcs
<1>3. /\ Idle.pc = "idle" /\ Idle.bars = 0 /\ Idle.pending = Flat /\ Idle.open = Flat
      /\ \A s \in Symbols : Flat[s] = None
  BY DEF Idle, Flat
<1>4. RunInv(Idle)
  BY <1>2, <1>3 DEF RunInv, Candles, Flats, Single
<1>5. run \in [Runs -> RunType] /\ \A r \in Runs : run[r] = Idle
  BY <1>2 DEF Init
<1>6. SharedInv
  <2>1. pipe \in Books!PipelineType
    BY DEF Init, Books!NewPipeline, Books!PipelineType
  <2>2. ftmo = None /\ diag \in DiagType
    BY DEF Init, DiagType
  <2> QED
    BY <2>1, <2>2 DEF SharedInv
<1>7. PassedAreOpened
  <2> DEFINE W == {rs \in Runs \X Symbols : run[rs[1]].pending[rs[2]] # None}
  <2>1. W = {}
    BY <1>3, <1>5
  <2> HIDE DEF W
  <2>2. Cardinality(W) = 0
    BY <2>1, FS_EmptySet
  <2>3. diag.passed = 0 /\ diag.opened = 0
    BY DEF Init
  <2> QED
    BY <2>2, <2>3 DEF PassedAreOpened, W
<1> QED
  BY <1>4, <1>5, <1>6, <1>7 DEF IInv

\* A step keeps it.
LEMMA InvStep == IInv /\ [Next]_vars => IInv'
<1> SUFFICES ASSUME IInv, [Next]_vars PROVE IInv'
  OBVIOUS
<1>1. CASE Next
  <2>0. PICK r \in Runs : \E n : run' = [run EXCEPT ![r] = n] /\ Good(run[r], n)
    BY <1>1, EngineStep
  <2>1. PICK n : run' = [run EXCEPT ![r] = n] /\ Good(run[r], n)
    BY <2>0
  <2>2. RunInv(n) /\ n \in RunType /\ SharedInv'
    BY <2>1 DEF Good, RunInv
  <2>3. /\ run' \in [Runs -> RunType]
        /\ \A a \in Runs : run'[a] = IF a = r THEN n ELSE run[a]
    BY <2>1, <2>2 DEF IInv
  <2>4. PassedAreOpened'
    BY <2>1, <2>3, CountStep
  <2>5. \A a \in Runs : RunInv(run'[a])
    BY <2>2, <2>3 DEF IInv
  <2>6. \A a \in Runs : RunInv(run[a])'
    BY <2>5 DEF RunInv, Candles, Flats, Single
  <2> QED
    BY <2>2, <2>3, <2>4, <2>6 DEF IInv
<1>2. CASE UNCHANGED vars
  BY <1>2 DEF vars, IInv, SharedInv, PassedAreOpened, RunInv, Candles, Flats, Single,
              FirmInv, F!Inside
<1> QED
  BY <1>1, <1>2
\* The inductive invariant holds in every reachable state.
LEMMA InvAlways == Spec => []IInv
  BY InvInit, InvStep, PTL DEF Spec

-----------------------------------------------------------------------------
(***************************************************************************)
(* Theorems                                                                *)
(***************************************************************************)

\* Every field of the engine and every local of Run keeps its type, however
\* the runs of the handlers interleave: the capital stays between 0 and a
\* hundred times the initial one, the enforcer and the books are well formed.
THEOREM EngineTypeOK == Spec => []TypeOK
<1>1. IInv => TypeOK
  <2> SUFFICES ASSUME IInv PROVE TypeOK
    OBVIOUS
  <2>1. \A r \in Runs : run[r] \in RunType
    BY DEF IInv, RunInv
  <2>2. \A r \in Runs :
          /\ run[r].pc \in {"idle", "loop", "exit", "signal", "flush", "close"}
          /\ run[r].bars \in 0 .. MaxBars
          /\ run[r].capital \in 0 .. 100 * InitialCapital
          /\ run[r].pending \in [Symbols -> SignalType \cup {None}]
          /\ run[r].open \in [Symbols -> TradeType \cup {None}]
    BY <2>1 DEF RunType, Pcs
  <2>3. /\ ftmo = None \/ ftmo \in Firm!EnforcerType
        /\ pipe \in Books!PipelineType
        /\ diag \in [attempts : Nat, disposed : Nat, passed : Nat, opened : Nat]
    BY DEF IInv, SharedInv, FirmInv, DiagType
  <2> QED
    BY <2>2, <2>3 DEF TypeOK
<1> QED
  BY <1>1, InvAlways, PTL

\* A signal counted as passed is opened exactly once or still waits: over all
\* the runs, the two counters of signalDiag differ by the pending entries.
THEOREM EnginePassedAreOpened == Spec => []PassedAreOpened
<1>1. IInv => PassedAreOpened
  BY DEF IInv
<1> QED
  BY <1>1, InvAlways, PTL

\* No entry waits behind an open trade, so executeEntry overwrites none.
THEOREM EngineOneTradePerSymbol == Spec => []OneTradePerSymbol
<1>1. IInv => OneTradePerSymbol
  BY DEF IInv, RunInv, Single, OneTradePerSymbol
<1> QED
  BY <1>1, InvAlways, PTL

\* At most one handler is in Run.  Nothing in the server enforces it; it is
\* what the theorem about the shared books needs.
Solo == \A r1, r2 \in Runs : run[r1].pc # "idle" /\ run[r2].pc # "idle" => r1 = r2

\* The other handlers are idle in a step of handler r, before or after it.
LEMMA OthersIdle ==
    ASSUME IInv, Solo, Solo', NEW r \in Runs, NEW n,
           \A a \in Runs : run'[a] = IF a = r THEN n ELSE run[a],
           run[r].pc # "idle" \/ run'[r].pc # "idle", NEW a \in Runs, a # r
    PROVE  run'[a] = run[a] /\ run[a].pc = "idle"
<1>1. run'[a] = run[a]
  OBVIOUS
<1>2. CASE run[r].pc # "idle"
  BY <1>1, <1>2 DEF Solo
<1>3. CASE run'[r].pc # "idle"
  BY <1>1, <1>3 DEF Solo
<1> QED
  BY <1>1, <1>2, <1>3

\* An idle handler has nothing booked.
LEMMA IdleIs ==
    ASSUME NEW m, RunInv(m), m.pc = "idle", NEW p
    PROVE  Covered(m, p)
<1>1. \A s \in Symbols : m.pending[s] = None /\ m.open[s] = None
  BY DEF RunInv, Flats, Flat
<1> QED
  BY <1>1 DEF Covered

\* While runs do not overlap, what a signal was charged stays booked in the
\* pipeline until its trade closes, also across the runs that share the books:
\* no exit or close-out of another trade releases it.
THEOREM EngineBooksCoverOpen == Spec /\ []Solo => []BooksCoverOpen
<1> DEFINE Cover == \A r \in Runs : Covered(run[r], pipe)
<1>1. IInv /\ Init => Cover
  <2>1. ASSUME IInv, Init, NEW r \in Runs PROVE Covered(run[r], pipe)
    <3>1. RunInv(run[r]) /\ run[r].pc = "idle"
      BY <2>1 DEF IInv, Init, Idle
    <3> QED
      BY <3>1, IdleIs
  <2> QED
    BY <2>1
<1>2. IInv /\ Solo /\ Solo' /\ Cover /\ [Next]_vars => Cover'
  <2> SUFFICES ASSUME IInv, Solo, Solo', Cover, [Next]_vars PROVE Cover'
    OBVIOUS
  <2>1. CASE UNCHANGED vars
    BY <2>1 DEF vars, Covered
  <2>2. CASE Next
    <3>0. PICK r \in Runs : \E n : /\ run' = [run EXCEPT ![r] = n] /\ Good(run[r], n)
                                   /\ run[r].pc # "idle" \/ run'[r].pc # "idle"
      BY <2>2, EngineStep
    <3>1. PICK n : /\ run' = [run EXCEPT ![r] = n] /\ Good(run[r], n)
                   /\ run[r].pc # "idle" \/ run'[r].pc # "idle"
      BY <3>0
    <3>2. \A a \in Runs : run'[a] = IF a = r THEN n ELSE run[a]
      BY <3>1 DEF IInv
    <3>3. Covered(n, pipe')
      BY <3>1 DEF Good
    <3>4. ASSUME NEW a \in Runs, a # r PROVE Covered(run[a], pipe')
      <4>1. run[a].pc = "idle" /\ RunInv(run[a])
        BY <3>1, <3>2, <3>4, OthersIdle DEF IInv
      <4> QED
        BY <4>1, IdleIs
    <3>5. \A a \in Runs : Covered(run'[a], pipe')
      BY <3>2, <3>3, <3>4
    <3> QED
      BY <3>5 DEF Covered
  <2> QED
    BY <2>1, <2>2
<1>3. Cover => BooksCoverOpen
  BY Zenon DEF Covered, BooksCoverOpen
<1> HIDE DEF Cover
<1>4. Spec /\ []Solo => []Cover
  BY <1>1, <1>2, InvAlways, PTL DEF Spec
<1> QED
  BY <1>3, <1>4, PTL
=============================================================================
