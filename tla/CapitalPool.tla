----------------------------- MODULE CapitalPool -----------------------------
(***************************************************************************)
(* One account's capital pool: internal/risk/capital_pool.go with the      *)
(* shared balance state of internal/propfirm/pool_base.go, the total-      *)
(* exposure cap of PositionSizer.ComputeSize, and MarkAllViolated of       *)
(* internal/risk/multi_account_capital_pool.go as it acts on this pool.    *)
(*                                                                         *)
(* Every method holds the pool's mutex, so it is one action; MarkAllViolated *)
(* locks the pool twice (TotalBalance, then UpdateState) and is two.       *)
(*                                                                         *)
(* Money is counted in whole units and percentages are compared by cross   *)
(* multiplication.  The confidence, regime, VIX and sentiment multipliers  *)
(* give any size up to the base size; a regime score that amplifies is cut *)
(* by the total-exposure cap like the base size itself.                    *)
(***************************************************************************)
EXTENDS Integers, FiniteSets

CONSTANTS Strategies, Symbols,
          Profiles,        \* records [maxOpen, maxDailyLossPct, maxDrawdownPct]
          StartingBalance,
          BaseSizes,       \* requested base sizes
          TotalExpCapPct,  \* DefaultTotalExpCap as a percentage (30)
          PnLs,            \* profit or loss of one fill
          MinBalance, MaxBalance, \* bounds on the balance
          MaxDailyPnL,     \* bound on a strategy's PnL of one day
          MaxHeld,         \* bound on the exposure of all strategies
          NotMarking       \* no MarkAllViolated is under way

Sides == {"BUY", "SELL"}
Positions == Strategies \X Symbols \X Sides

ASSUME StartAssumption == StartingBalance \in Nat \ {0}
ASSUME BaseAssumption == BaseSizes \subseteq Nat /\ IsFiniteSet(BaseSizes)
ASSUME CapAssumption == TotalExpCapPct \in Nat
ASSUME PnLAssumption == PnLs \subseteq Int
ASSUME FiniteAssumption == IsFiniteSet(Positions)
ASSUME ProfileAssumption ==
    Profiles \subseteq [maxOpen : Nat, maxDailyLossPct : Nat, maxDrawdownPct : Nat]
ASSUME MarkAssumption == NotMarking \notin Int
ASSUME BoundsAssumption ==
    /\ MinBalance \in Int /\ MaxBalance \in Int
    /\ MaxDailyPnL \in Nat /\ MaxHeld \in Nat

VARIABLES balance,      \* poolState.TotalBalance
          peak,         \* poolState.TotalPeakBalance
          poolDailyPnL, \* poolState.DailyPnL
          profile,      \* the active profile
          violated,     \* state.Violated
          known,        \* strategies with an entry in c.strategies
          allocated,    \* per strategy: Allocated
          dailyPnL,     \* per strategy: DailyPnL
          stratPeak,    \* per strategy: PeakBalance
          suspended,    \* per strategy: Suspended
          open,         \* OpenLong / OpenShort; 0 means no entry in the map
          marking,      \* MarkAllViolated between its two locks: what
                        \* TotalBalance() returned, or NotMarking
          held          \* history: approved exposure not yet closed

poolVars  == <<balance, peak, poolDailyPnL, profile, violated>>
stratVars == <<known, allocated, dailyPnL, stratPeak, suspended, open>>
vars == <<poolVars, stratVars, marking, held>>

Init ==
    /\ balance = StartingBalance /\ peak = StartingBalance /\ poolDailyPnL = 0
    /\ profile \in Profiles /\ violated = FALSE
    /\ known = {}
    /\ allocated = [s \in Strategies |-> 0]
    /\ dailyPnL = [s \in Strategies |-> 0]
    /\ stratPeak = [s \in Strategies |-> 0]
    /\ suspended = [s \in Strategies |-> FALSE]
    /\ open = [p \in Positions |-> 0]
    /\ marking = NotMarking
    /\ held = [p \in Positions |-> 0]

-----------------------------------------------------------------------------
(* Prop-firm arithmetic (internal/propfirm/rules.go) on integers.          *)

\* DrawdownPct(peak, cur) > num/den percent; a non-positive peak has none.
DrawdownAbove(pk, cur, num, den) == pk > 0 /\ (pk - cur) * 100 * den > num * pk

DailyLossExceeded(start, cur, pct) ==
    IF start <= 0 THEN 0 <= -pct ELSE (cur - start) * 100 <= -pct * start

-----------------------------------------------------------------------------
(* RequestCapital.                                                         *)

\* Mutant: the running allocation is left out of the cap.
ComputeSize_PerRequest(attenuated, base, alloc) ==
    LET room == (base * TotalExpCapPct) \div 100
    IN  IF attenuated <= room THEN attenuated ELSE room

\* PositionSizer.ComputeSize: the attenuated size, cut to what is left of
\* the total-exposure cap of the base size, never below 0.
ComputeSize(attenuated, base, alloc) ==
    LET room == (base * TotalExpCapPct) \div 100 - alloc
    IN  IF attenuated <= room THEN attenuated ELSE IF room < 0 THEN 0 ELSE room

\* The sizes a strategy's next request may be answered with.
SizesFor(s) ==
    UNION {{ComputeSize(attenuated, base, allocated[s]) : attenuated \in 0..base} :
              base \in BaseSizes}

OpenOf(s) == {p \in Positions : p[1] = s}

\* A strategy's positions, unit by unit: as many elements as f sums up to.
Units(f, s) == UNION {{p} \X (1 .. f[p]) : p \in OpenOf(s)}

\* What was approved and is not closed; bounded by MaxHeld.
Exposure == Cardinality(UNION {Units(held, s) : s \in Strategies})

TotalOpen == Cardinality({p \in Positions : open[p] > 0})

\* Mutant: > for >=.
OpenLimitReached_OffByOne == TotalOpen > profile.maxOpen

OpenLimitReached == TotalOpen >= profile.maxOpen

\* Mutant: the flag is not consulted, only the drawdown of the moment.
IsSuspended_Ignored(s) == FALSE

IsSuspended(s) == suspended[s]

\* A strategy seen for the first time starts at the current balance.
PeakOf(s) == IF s \in known THEN stratPeak[s] ELSE balance

Register(s) ==
    /\ known' = known \cup {s}
    /\ stratPeak' = [stratPeak EXCEPT ![s] = PeakOf(s)]

\* The reason a request that opens a new position is refused, in the order
\* of the checks; "none" when it passes them all.
Refusal(s) ==
    IF OpenLimitReached THEN "max_open_positions"
    ELSE IF LET dayStart == balance - poolDailyPnL
            IN dayStart > 0 /\ DailyLossExceeded(dayStart, balance, profile.maxDailyLossPct)
      THEN "daily_loss_limit"
    ELSE IF DrawdownAbove(PeakOf(s), balance, profile.maxDrawdownPct, 2)
      THEN "per_strategy_drawdown_suspended"
    ELSE IF IsSuspended(s) THEN "strategy_suspended"
    ELSE "none"

RequestViolated(s) ==
    /\ violated
    /\ Register(s)
    /\ UNCHANGED <<poolVars, allocated, dailyPnL, suspended, open, marking, held>>

\* A request for a position that is already open is sized against the cap
\* and answered, with no further check and no bookkeeping.  A size of 0 is
\* the refusal correlation_limit.
RequestExisting(s, sym, side) ==
    /\ ~violated
    /\ open[s, sym, side] > 0
    /\ \E size \in SizesFor(s) :
          /\ Exposure + size <= MaxHeld
          /\ held' = [held EXCEPT ![<<s, sym, side>>] = @ + size]
    /\ UNCHANGED <<poolVars, stratVars, marking>>

RequestRefused(s, sym, side) ==
    /\ ~violated
    /\ open[s, sym, side] = 0
    /\ Register(s)
    /\ Refusal(s) # "none"
    /\ suspended' = IF Refusal(s) = "per_strategy_drawdown_suspended"
                      THEN [suspended EXCEPT ![s] = TRUE] ELSE suspended
    /\ UNCHANGED <<poolVars, allocated, dailyPnL, open, marking, held>>

\* A size of 0 is the refusal size_zero.
RequestNew(s, sym, side) ==
    /\ ~violated
    /\ open[s, sym, side] = 0
    /\ Register(s)
    /\ Refusal(s) = "none"
    /\ \E size \in SizesFor(s) :
          /\ Exposure + size <= MaxHeld
          /\ allocated' = [allocated EXCEPT ![s] = @ + size]
          /\ open' = [open EXCEPT ![<<s, sym, side>>] = @ + size]
          /\ held' = [held EXCEPT ![<<s, sym, side>>] = @ + size]
    /\ UNCHANGED <<poolVars, dailyPnL, suspended, marking>>

-----------------------------------------------------------------------------
(* RecordFill closes qty of a position and books its PnL.                  *)

Floor0(n) == IF n < 0 THEN 0 ELSE n
Higher(a, b) == IF a > b THEN a ELSE b

\* Mutant: a fill closes the entry and leaves the allocation booked.
Release_Forgotten(alloc, qty) == alloc

Release(alloc, qty) == Floor0(alloc - qty)

\* Mutant: the peak follows the balance.
RaisePeak_Follows(bal) == bal

\* UpdatePeakBalance, and the same two lines in UpdateState.
RaisePeak(bal) == Higher(bal, peak)

RecordFill(s, sym, side, pnl, qty) ==
    /\ balance + pnl \in MinBalance..MaxBalance
    /\ dailyPnL[s] + pnl \in -MaxDailyPnL..MaxDailyPnL
    /\ known' = known \cup {s}
    /\ dailyPnL' = [dailyPnL EXCEPT ![s] = @ + pnl]
    /\ open' = [open EXCEPT ![<<s, sym, side>>] = Floor0(@ - qty)]
    /\ allocated' = [allocated EXCEPT ![s] = Release(@, qty)]
    /\ balance' = balance + pnl
    /\ stratPeak' = [stratPeak EXCEPT ![s] = Higher(balance + pnl, PeakOf(s))]
    /\ peak' = RaisePeak(balance + pnl)
    /\ UNCHANGED <<poolDailyPnL, profile, violated, suspended, marking>>

\* A fill that closes exposure this pool has approved.
Fill(s, sym, side) ==
    \E pnl \in PnLs : \E qty \in 1..held[s, sym, side] :
        /\ RecordFill(s, sym, side, pnl, qty)
        /\ held' = [held EXCEPT ![<<s, sym, side>>] = @ - qty]

\* ReconcileLiveFill records every fill in the pool of every account, also in
\* one that approved another quantity or none: the account's own exposure
\* stays.
ForeignFill(s, sym, side) ==
    /\ \E pnl \in PnLs : \E qty \in 1..MaxHeld : RecordFill(s, sym, side, pnl, qty)
    /\ held' = held

-----------------------------------------------------------------------------
ResetDaily ==
    /\ dailyPnL' = [s \in Strategies |-> IF s \in known THEN 0 ELSE dailyPnL[s]]
    /\ UNCHANGED <<poolVars, known, allocated, stratPeak, suspended, open, marking, held>>

ResumeStrategy(s) ==
    /\ s \in known
    /\ suspended' = [suspended EXCEPT ![s] = FALSE]
    /\ stratPeak' = [stratPeak EXCEPT ![s] = balance]
    /\ UNCHANGED <<poolVars, known, allocated, dailyPnL, open, marking, held>>

SetProfile(p) ==
    /\ profile' = p
    /\ UNCHANGED <<balance, peak, poolDailyPnL, violated, stratVars, marking, held>>

\* MarkAllViolated reads this pool's balance ...
MarkRead ==
    /\ marking = NotMarking
    /\ marking' = balance
    /\ UNCHANGED <<poolVars, stratVars, held>>

\* ... and hands it back to UpdateState with Violated set.
MarkWrite ==
    /\ marking # NotMarking
    /\ violated' = TRUE
    /\ balance' = marking
    /\ peak' = RaisePeak(marking)
    /\ marking' = NotMarking
    /\ UNCHANGED <<poolDailyPnL, profile, stratVars, held>>

Next ==
    \/ \E s \in Strategies, sym \in Symbols, side \in Sides :
          \/ RequestExisting(s, sym, side) \/ RequestRefused(s, sym, side)
          \/ RequestNew(s, sym, side) \/ Fill(s, sym, side)
          \/ ForeignFill(s, sym, side)
    \/ \E s \in Strategies : RequestViolated(s) \/ ResumeStrategy(s)
    \/ ResetDaily \/ MarkRead \/ MarkWrite
    \/ \E p \in Profiles : SetProfile(p)

Spec == Init /\ [][Next]_vars

-----------------------------------------------------------------------------
(* Properties.                                                             *)

\* Type correctness; in particular no allocation and no entry is negative,
\* whatever quantity RecordFill is told.
TypeOK ==
    /\ balance \in Int /\ peak \in Int /\ poolDailyPnL \in Int
    /\ profile \in Profiles /\ violated \in BOOLEAN
    /\ known \subseteq Strategies
    /\ allocated \in [Strategies -> Nat] /\ dailyPnL \in [Strategies -> Int]
    /\ stratPeak \in [Strategies -> Int] /\ suspended \in [Strategies -> BOOLEAN]
    /\ open \in [Positions -> Nat] /\ held \in [Positions -> Nat]
    /\ marking \in Int \cup {NotMarking}

\* What the pool has booked for a strategy never exceeds the total-exposure
\* cap of the largest request, through any sequence of grants and fills.
AllocationWithinCap ==
    \A s \in Strategies : \E base \in BaseSizes \cup {0} :
        100 * allocated[s] <= base * TotalExpCapPct

AllocationCovered == \A s \in Strategies : allocated[s] <= Cardinality(Units(open, s))

EntriesCovered == \A p \in Positions : open[p] <= held[p]

\* The books may lag behind what was approved (additions to a position are
\* not booked) but never overstate it: the allocation is covered by open
\* entries, and every entry by exposure that was really approved.
BooksNeverOverstate == AllocationCovered /\ EntriesCovered

\* The number of open positions grows only up to the profile's limit, also
\* when the profile is exchanged while positions are open.
OpenPositionsLimited ==
    [][TotalOpen' > TotalOpen => TotalOpen' <= profile.maxOpen]_vars

\* A suspended strategy takes on no new position until somebody resumes it,
\* even when the balance recovers or another profile is activated: its
\* exposure grows only in a position that already has an entry, where
\* RequestCapital answers before it looks at the suspension.
SuspensionHolds ==
    [][\A p \in Positions :
          suspended[p[1]] /\ suspended'[p[1]] /\ held'[p] > held[p] => open[p] > 0]_vars

\* Drawdown is measured from a true high-water mark: the pool's peak is
\* never below its balance and never falls, also when MarkAllViolated writes
\* a balance back.
PeakIsHighWater == [][peak' >= peak /\ peak' >= balance']_vars
=============================================================================
