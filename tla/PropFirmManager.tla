--------------------------- MODULE PropFirmManager ---------------------------
(***************************************************************************)
(* The live prop-firm gate, internal/propfirm/profile.go with the rules of *)
(* internal/propfirm/rules.go, driven the way RiskPipeline.ReconcileFill   *)
(* and the HTTP handlers of internal/api/propfirm_handler.go drive it.     *)
(*                                                                         *)
(* Every method of Manager holds its mutex, so a method is one action.     *)
(* ReconcileFill takes no lock around its calls (the pool's RecordFill and *)
(* TotalBalance, then OnFill, CheckDailyLimits and MarkViolated of the     *)
(* gate): each reconciler is a process of five steps.  Money is in percent *)
(* of the starting balance.                                                *)
(***************************************************************************)
EXTENDS Integers

CONSTANTS Ids,          \* profile ids
          Contents,     \* profiles a file may hold
          Reconcilers,  \* goroutines that reconcile fills
          PnLs,         \* sanitised PnL of one fill
          Starting,     \* the balance ActivateProfile starts from
          MaxDaily,     \* bound on |DailyPnL|
          MaxCum,       \* bound on |CumulativePnL| and on the pool's gain
          MaxDays,      \* bound on TradingDays
          MaxPhase,     \* bound on CurrentPhase
          None          \* no profile is active

ASSUME StartAssumption == Starting \in Nat \ {0}
ASSUME PnLAssumption == PnLs \subseteq Int
ASSUME ContentAssumption ==
    Contents \subseteq [maxDailyLoss : Nat, maxDrawdown : Nat, consistency : BOOLEAN,
                        threshold : Nat, target1 : Int, target2 : Int, minDays : Nat]
ASSUME NoneAssumption == None \notin Ids
ASSUME FirmBoundAssumption ==
    /\ MaxDaily \in Nat /\ MaxCum \in Nat /\ MaxDays \in Nat /\ MaxPhase \in Nat \ {0}

VARIABLES profiles,  \* id -> profile in m.profiles, or None
          active,    \* m.active
          starting,  \* state.StartingBalance: 0 until a profile is activated
          peak, daily, cum, days, phase,
          penalised, \* ConsistencyMult is the penalty, not 1.0
          targetMet, violated,
          pool,      \* the balance of the capital gate
          stage,     \* where each reconciler is
          fill,      \* the PnL a reconciler has in hand
          seen,      \* the balance it got from TotalBalance
          restarted  \* history: the state was set back after the last booking

stateVars == <<starting, peak, daily, cum, days, phase, penalised, targetMet, violated>>
fillVars == <<pool, stage, fill, seen>>
firmVars == <<profiles, active, stateVars, fillVars, restarted>>

FirmInit ==
    /\ profiles = [i \in Ids |-> None] /\ active = None
    /\ starting = 0 /\ peak = 0 /\ daily = 0 /\ cum = 0 /\ days = 0 /\ phase = 1
    /\ penalised = FALSE /\ targetMet = FALSE /\ violated = FALSE
    /\ pool = Starting
    /\ stage = [r \in Reconcilers |-> "idle"]
    /\ fill = [r \in Reconcilers |-> 0] /\ seen = [r \in Reconcilers |-> 0]
    /\ restarted = TRUE

-----------------------------------------------------------------------------
(* Rules.  DailyPnLPct is daily / starting, kept in step with DailyPnL.    *)

DailyLossExceeded(start, cur, pct) ==
    IF start <= 0 THEN 0 <= -pct ELSE (cur - start) * 100 <= -pct * start

DrawdownExceeded(pk, cur, pct) == pk > 0 /\ (pk - cur) * 100 > pct * pk

ConsistencyBreached(p) == starting > 0 /\ daily * 100 > p.threshold * starting

HasProfile == active # None /\ profiles[active] # None
Profile == profiles[active]

DayBreached ==
    /\ HasProfile /\ Profile.maxDailyLoss > 0
    /\ DailyLossExceeded(starting, starting + daily, Profile.maxDailyLoss)

\* CheckDailyLimits; without a profile everything is allowed.
CheckDailyLimits ==
    IF ~HasProfile THEN "ok"
    ELSE IF DayBreached THEN "daily_loss_limit"
    ELSE IF Profile.maxDrawdown > 0
            /\ DrawdownExceeded(peak, starting + daily, Profile.maxDrawdown)
      THEN "max_drawdown"
    ELSE IF Profile.consistency /\ Profile.threshold > 0 /\ ConsistencyBreached(Profile)
      THEN "consistency_outlier"
    ELSE "ok"

-----------------------------------------------------------------------------
(* The handlers.                                                           *)

\* LoadProfile replaces a profile, the active one included; the state stays.
LoadProfile(i, p) ==
    /\ profiles' = [profiles EXCEPT ![i] = p]
    /\ UNCHANGED <<active, stateVars, fillVars, restarted>>

\* ActivateProfile replaces the whole state.
ActivateProfile(i) ==
    /\ profiles[i] # None
    /\ active' = i
    /\ starting' = Starting /\ peak' = Starting /\ daily' = 0 /\ cum' = 0 /\ days' = 0
    /\ phase' = 1 /\ penalised' = FALSE /\ targetMet' = FALSE /\ violated' = FALSE
    /\ restarted' = TRUE
    /\ UNCHANGED <<profiles, fillVars>>

AdvancePhase ==
    /\ phase < MaxPhase
    /\ phase' = phase + 1
    /\ targetMet' = FALSE /\ daily' = 0 /\ cum' = 0 /\ peak' = starting
    /\ penalised' = FALSE
    /\ restarted' = TRUE
    /\ UNCHANGED <<profiles, active, starting, days, violated, fillVars>>

TargetReached ==
    LET target == IF phase = 2 THEN Profile.target2 ELSE Profile.target1
    IN  /\ cum * 100 >= target * starting
        /\ days + 1 >= Profile.minDays

\* DailyReset ends a trading day.
DailyReset ==
    /\ days < MaxDays
    /\ penalised' = (HasProfile /\ Profile.consistency /\ ConsistencyBreached(Profile))
    /\ daily' = 0
    /\ days' = days + 1
    /\ targetMet' = (targetMet \/ (HasProfile /\ starting > 0 /\ TargetReached))
    /\ UNCHANGED <<profiles, active, starting, peak, cum, phase, violated, fillVars, restarted>>

\* MarkViolated, as called by something other than a reconciler.
MarkViolated ==
    /\ violated' = TRUE
    /\ UNCHANGED <<profiles, active, starting, peak, daily, cum, days, phase, penalised,
                   targetMet, fillVars, restarted>>

-----------------------------------------------------------------------------
(* ReconcileFill.                                                          *)

\* The capital gate books the PnL (RecordFill) ...
Book(r) ==
    /\ stage[r] = "idle"
    /\ \E pnl \in PnLs :
          /\ pool + pnl - Starting \in -MaxCum..MaxCum
          /\ pool' = pool + pnl
          /\ fill' = [fill EXCEPT ![r] = pnl]
    /\ stage' = [stage EXCEPT ![r] = "booked"]
    /\ restarted' = FALSE
    /\ UNCHANGED <<profiles, active, stateVars, seen>>

\* ... is asked for its balance under a lock of its own ...
ReadBalance(r) ==
    /\ stage[r] = "booked"
    /\ seen' = [seen EXCEPT ![r] = pool]
    /\ stage' = [stage EXCEPT ![r] = "read"]
    /\ UNCHANGED <<profiles, active, stateVars, pool, fill, restarted>>

\* Mutant: the balance in hand becomes the peak without a comparison.
RaisedPeak_Latest(balance) == balance

RaisedPeak(balance) == IF balance > peak THEN balance ELSE peak

\* ... and the gate is given both, by when other fills may have been booked.
OnFill(r) ==
    /\ stage[r] = "read"
    /\ daily + fill[r] \in -MaxDaily..MaxDaily /\ cum + fill[r] \in -MaxCum..MaxCum
    /\ daily' = daily + fill[r] /\ cum' = cum + fill[r]
    /\ peak' = RaisedPeak(seen[r])
    /\ stage' = [stage EXCEPT ![r] = "check"]
    /\ fill' = [fill EXCEPT ![r] = 0] /\ seen' = [seen EXCEPT ![r] = 0]
    /\ UNCHANGED <<profiles, active, starting, days, phase, penalised, targetMet, violated,
                   pool, restarted>>

Check(r) ==
    /\ stage[r] = "check"
    /\ stage' = [stage EXCEPT ![r] = IF CheckDailyLimits = "ok" THEN "idle" ELSE "mark"]
    /\ UNCHANGED <<profiles, active, stateVars, pool, fill, seen, restarted>>

Mark(r) ==
    /\ stage[r] = "mark"
    /\ violated' = TRUE
    /\ stage' = [stage EXCEPT ![r] = "idle"]
    /\ UNCHANGED <<profiles, active, starting, peak, daily, cum, days, phase, penalised,
                   targetMet, pool, fill, seen, restarted>>

FirmNext ==
    \/ \E i \in Ids : ActivateProfile(i) \/ \E p \in Contents : LoadProfile(i, p)
    \/ AdvancePhase \/ DailyReset \/ MarkViolated
    \/ \E r \in Reconcilers :
          Book(r) \/ ReadBalance(r) \/ OnFill(r) \/ Check(r) \/ Mark(r)

FirmSpec == FirmInit /\ [][FirmNext]_firmVars

-----------------------------------------------------------------------------
(* Properties.                                                             *)

\* Type correctness; in particular a phase is never 0 and the starting
\* balance is one ActivateProfile gave, or 0 before the first.
FirmTypeOK ==
    /\ profiles \in [Ids -> Contents \cup {None}] /\ active \in Ids \cup {None}
    /\ starting \in {0, Starting} /\ peak \in Int /\ daily \in Int /\ cum \in Int
    /\ days \in Nat /\ phase \in Nat \ {0}
    /\ penalised \in BOOLEAN /\ targetMet \in BOOLEAN /\ violated \in BOOLEAN
    /\ pool \in Int
    /\ stage \in [Reconcilers -> {"idle", "booked", "read", "check", "mark"}]
    /\ fill \in [Reconcilers -> Int] /\ seen \in [Reconcilers -> Int]
    /\ restarted \in BOOLEAN

\* No fill is on its way from the pool to the gate.
AllReported == \A r \in Reconcilers : stage[r] \notin {"booked", "read"}

\* The peak from which the trailing drawdown is measured has seen the pool's
\* money: once every booked fill has reached the gate, the peak is not below
\* the pool's balance, although the balances that reconcilers read grow stale
\* and may reach OnFill in another order than the fills were booked.  A profile
\* or a phase that begins sets the peak back, until the next fill is booked.
PeakCoversPool == AllReported /\ ~restarted => peak >= pool
=============================================================================
