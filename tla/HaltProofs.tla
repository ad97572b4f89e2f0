----------------------------- MODULE HaltProofs -----------------------------
(***************************************************************************)
(* Proofs about the two ways live trading is stopped.                      *)
(*                                                                         *)
(* KillSwitch, for every set of threads and accounts: the re-entrancy      *)
(* guard, the ready flag, and the flatten that follows a halt.             *)
(*                                                                         *)
(* PropFirmManager, for every set of profiles and reconcilers.             *)
(***************************************************************************)
EXTENDS KillSwitch, PropFirmManager, TLAPS


\* Typing is preserved by every step of Trigger, Resume, the monitor and the
\* broker.
THEOREM TypeCorrect == Spec => []TypeOK
<1>1. Init => TypeOK
  <2> SUFFICES ASSUME Init PROVE TypeOK
    OBVIOUS
  <2> USE DEF Init
  <2>1. onTrigger \in Nat /\ todo \in [Threads -> Nat] /\ rejectCount \in Nat
    BY SMT
  <2>2. /\ pc \in [Threads \cup Resumers -> TriggerSteps \cup {"idle", "resume"}]
        /\ \A t \in Threads : pc[t] # "resume"
    BY SMT DEF TriggerSteps
  <2>3. result \in [Threads -> Results]
    BY SMT DEF Results
  <2> QED BY <2>1, <2>2, <2>3, Zenon DEF TypeOK
<1>2. TypeOK /\ [Next]_vars => TypeOK'
  <2> SUFFICES ASSUME TypeOK, [Next]_vars PROVE TypeOK'
    OBVIOUS
  <2> USE DEF TypeOK, TriggerSteps, Results
  <2>1. CASE SetAccountCanceller
    BY <2>1 DEF SetAccountCanceller, swVars, mrVars, bkVars, histVars
  <2>2. CASE OnTrigger
    BY <2>2 DEF OnTrigger, swVars, mrVars, bkVars, histVars
  <2>3. ASSUME NEW t \in Handlers, Call(t) PROVE TypeOK'
    BY <2>3 DEF Call, Goto, Return, Threads, swVars, cfgVars, mrVars, bkVars, histVars
  <2>4. ASSUME NEW t \in Threads, TriggerStep(t) PROVE TypeOK'
    <3> USE DEF Goto, Return, swVars, cfgVars, mrVars, bkVars, histVars
    <3>1. CASE LoadHalted(t)  BY <3>1 DEF LoadHalted
    <3>2. CASE CompareAndSwap(t)  BY <3>2 DEF CompareAndSwap
    <3>3. CASE CheckReady(t)  BY <3>3 DEF CheckReady
    <3>4. CASE ClearReady(t)  BY <3>4 DEF ClearReady
    <3>5. CASE SetReason(t)  BY <3>5 DEF SetReason
    <3>6. CASE SetHalted(t)  BY <3>6 DEF SetHalted
    <3>7. CASE CancelAllOrders(t)  BY <3>7 DEF CancelAllOrders
    <3>8. CASE CloseAllPositions(t)  BY <3>8 DEF CloseAllPositions
    <3>9. CASE CopyCallbacks(t)  BY <3>9 DEF CopyCallbacks
    <3>10. CASE RunCallback(t)  BY <3>10 DEF RunCallback
    <3>11. CASE CallbackPanics(t)  BY <3>11 DEF CallbackPanics
    <3>12. CASE CallbacksDone(t)  BY <3>12 DEF CallbacksDone
    <3>13. CASE SetReady(t)  BY <3>13 DEF SetReady
    <3>14. CASE Unlock(t)  BY <3>14 DEF Unlock
    <3> QED BY <2>4, <3>1, <3>2, <3>3, <3>4, <3>5, <3>6, <3>7, <3>8, <3>9,
               <3>10, <3>11, <3>12, <3>13, <3>14 DEF TriggerStep
  <2>5. ASSUME NEW r \in Resumers, ClearHalted(r) \/ ClearReason(r) PROVE TypeOK'
    BY <2>5, ResumerAssumption DEF ClearHalted, ClearReason, Goto, swVars, cfgVars, mrVars, bkVars, histVars
  <2>6. CASE ReceiveRejects
    <3>1. rejectCount' \in Nat
      BY <2>6, BatchAssumption DEF ReceiveRejects
    <3>2. /\ pc' \in [Threads \cup Resumers -> TriggerSteps \cup {"idle", "resume"}]
          /\ \A t \in Threads : pc'[t] # "resume"
          /\ result' \in [Threads -> Results]
      BY <2>6 DEF ReceiveRejects, Goto, Return, Threads
    <3> QED BY <2>6, <3>1, <3>2, Zenon DEF ReceiveRejects, swVars, cfgVars, bkVars, histVars
  <2>7. CASE Tick \/ WindowPasses
    <3>1. rejectCount' \in Nat
      BY <2>7 DEF Tick, WindowPasses
    <3> QED BY <2>7, <3>1, Zenon DEF Tick, WindowPasses, swVars, cfgVars, bkVars, histVars
  <2>8. ASSUME NEW a \in Accounts, PlaceOrder(a) \/ Fill(a) PROVE TypeOK'
    BY <2>8 DEF PlaceOrder, Fill, swVars, cfgVars, mrVars, histVars
  <2>9. CASE UNCHANGED vars
    BY <2>9 DEF vars, swVars, cfgVars, mrVars, bkVars, histVars
  <2> QED BY <2>1, <2>2, <2>3, <2>4, <2>5, <2>6, <2>7, <2>8, <2>9 DEF Next
<1> QED BY <1>1, <1>2, PTL DEF Spec

-----------------------------------------------------------------------------
(* The inductive invariant.  SingleFlight alone is inductive; the flag     *)
(* killSwitchReady needs the position of the goroutine that owns the guard, *)
(* and FlattenIsComplete needs what the cancellation has achieved before   *)
(* the positions are closed.                                               *)

FlightInv ==
    /\ \A t \in Threads : pc[t] \in InFlight => ~ready
    /\ \A t \in Threads : pc[t] = "arm" => ready
    /\ ~panicked /\ ~ready => ~NobodyInFlight

CancelledInv ==
    \A t \in Threads : pc[t] = "close" /\ undisturbed => Primary \notin orders

ReasonInv ==
    Resumers = {} =>
        /\ halted => reason # NoReason
        /\ \A t \in Threads : pc[t] = "halt" => reason # NoReason

IInv == /\ SingleFlight /\ FlightInv /\ CancelledInv
        /\ FlattenIsComplete /\ ReasonInv

\* The inductive invariant holds initially.
LEMMA InitIInv == Init => IInv
BY DEF Init, IInv, SingleFlight, FlightInv, CancelledInv, FlattenIsComplete,
       ReasonInv, NobodyInFlight, InLock, InFlight

\* Every step preserves the inductive invariant: inside Trigger because only
\* the owner of the guard moves through the guarded steps, outside because
\* Resume, the monitor and the broker do not touch the guard.
LEMMA NextIInv == TypeOK /\ IInv /\ [Next]_vars => IInv'
<1> SUFFICES ASSUME TypeOK, IInv, [Next]_vars PROVE IInv'
  OBVIOUS
<1> USE DEF TypeOK, IInv, SingleFlight, FlightInv, CancelledInv, FlattenIsComplete,
            ReasonInv, NobodyInFlight, InLock, InFlight
<1>1. CASE SetAccountCanceller
  BY <1>1 DEF SetAccountCanceller, swVars, mrVars, bkVars, histVars
<1>2. CASE OnTrigger
  BY <1>2 DEF OnTrigger, swVars, mrVars, bkVars, histVars
<1>3. ASSUME NEW t \in Handlers, Call(t) PROVE IInv'
  BY <1>3 DEF Call, Goto, Return, Threads, swVars, cfgVars, mrVars, bkVars, histVars
<1>4. ASSUME NEW t \in Threads, TriggerStep(t) PROVE IInv'
  <2> USE DEF Goto, Return, swVars, cfgVars, mrVars, bkVars, histVars
  <2>1. CASE LoadHalted(t)  BY <2>1 DEF LoadHalted
  <2>2. CASE CompareAndSwap(t)  BY <2>2 DEF CompareAndSwap
  <2>3. CASE CheckReady(t)  BY <2>3 DEF CheckReady
  <2>4. CASE ClearReady(t)  BY <2>4 DEF ClearReady
  <2>5. CASE SetReason(t)  BY <2>5, ReasonAssumption DEF SetReason
  <2>6. CASE SetHalted(t)  BY <2>6 DEF SetHalted
  <2>7. CASE CancelAllOrders(t)  BY <2>7 DEF CancelAllOrders, Reached
  <2>8. CASE CloseAllPositions(t)  BY <2>8 DEF CloseAllPositions, Reached
  <2>9. CASE CopyCallbacks(t)  BY <2>9 DEF CopyCallbacks
  <2>10. CASE RunCallback(t)  BY <2>10 DEF RunCallback
  <2>11. CASE CallbackPanics(t)  BY <2>11 DEF CallbackPanics
  <2>12. CASE CallbacksDone(t)  BY <2>12 DEF CallbacksDone
  <2>13. CASE SetReady(t)
    <3> USE <2>13 DEF SetReady
    <3>1. \A u \in Threads : pc'[u] \notin InFlight /\ pc'[u] # "arm" /\ pc'[u] # "halt"
      OBVIOUS
    <3>2. FlightInv'
      BY <3>1
    <3>3. SingleFlight'
      OBVIOUS
    <3>4. CancelledInv' /\ FlattenIsComplete' /\ ReasonInv'
      BY <3>1
    <3> QED BY <3>2, <3>3, <3>4
  <2>14. CASE Unlock(t)  BY <2>14 DEF Unlock
  <2> QED BY <1>4, <2>1, <2>2, <2>3, <2>4, <2>5, <2>6, <2>7, <2>8, <2>9,
             <2>10, <2>11, <2>12, <2>13, <2>14 DEF TriggerStep
<1>5. ASSUME NEW r \in Resumers, ClearHalted(r) \/ ClearReason(r) PROVE IInv'
  BY <1>5, ResumerAssumption DEF ClearHalted, ClearReason, Goto, swVars, cfgVars, mrVars, bkVars, histVars
<1>6. CASE ReceiveRejects
  BY <1>6 DEF ReceiveRejects, Goto, Return, Threads, swVars, cfgVars, bkVars, histVars
<1>7. CASE Tick \/ WindowPasses
  BY <1>7 DEF Tick, WindowPasses, swVars, cfgVars, bkVars, histVars
<1>8. ASSUME NEW a \in Accounts, PlaceOrder(a) \/ Fill(a) PROVE IInv'
  BY <1>8 DEF PlaceOrder, Fill, swVars, cfgVars, mrVars, histVars
<1>9. CASE UNCHANGED vars
  BY <1>9 DEF vars, swVars, cfgVars, mrVars, bkVars, histVars
<1> QED BY <1>1, <1>2, <1>3, <1>4, <1>5, <1>6, <1>7, <1>8, <1>9 DEF Next

\* Types and the inductive invariant hold in every reachable state.
LEMMA Invariance == Spec => [](TypeOK /\ IInv)
<1>1. Init /\ TypeOK => TypeOK /\ IInv
  BY InitIInv
<1>2. TypeOK /\ IInv /\ [Next]_vars => IInv'
  BY NextIInv
<1> QED BY <1>1, <1>2, TypeCorrect, PTL DEF Spec

\* The re-entrancy guard admits one goroutine at a time and is never left
\* set, for any number of concurrent Trigger and Resume calls.
THEOREM GuardIsExclusive == Spec => []SingleFlight
<1>1. IInv => SingleFlight
  BY DEF IInv
<1> QED BY <1>1, Invariance, PTL

\* killSwitchReady tells the truth as long as no callback has panicked, for
\* any number of callers: only the owner of the guard writes it, and every
\* path but a panic's passes both stores.
THEOREM FlightFlagIsHonest == Spec => []HonestFlightFlag
<1>1. IInv => HonestFlightFlag
  BY DEF IInv, FlightInv, HonestFlightFlag, NobodyInFlight
<1> QED BY <1>1, Invariance, PTL

\* A trigger whose broker calls succeed leaves its account flat, whatever
\* orders are filled between the two calls.
THEOREM HaltFlattens == Spec => []FlattenIsComplete
<1>1. IInv => FlattenIsComplete
  BY DEF IInv
<1> QED BY <1>1, Invariance, PTL

\* A halted switch has a reason when nobody resumes it.
THEOREM HaltIsExplained == Spec => []HaltHasReason
<1>1. IInv => HaltHasReason
  BY DEF IInv, ReasonInv, HaltHasReason
<1> QED BY <1>1, Invariance, PTL

-----------------------------------------------------------------------------
(***************************************************************************)
(* The prop-firm gate                                                      *)
(***************************************************************************)

USE StartAssumption, PnLAssumption


\* The methods the HTTP handlers call keep the types.
LEMMA HandlerType ==
    ASSUME FirmTypeOK,
           \/ \E i \in Ids : ActivateProfile(i) \/ \E p \in Contents : LoadProfile(i, p)
           \/ AdvancePhase \/ DailyReset \/ MarkViolated \/ UNCHANGED firmVars
    PROVE  FirmTypeOK'
<1>1. ASSUME NEW i \in Ids, ActivateProfile(i) PROVE FirmTypeOK'
  <2>1. /\ starting' \in {0, Starting} /\ peak' \in Int /\ daily' \in Int /\ cum' \in Int
        /\ days' \in Nat /\ phase' \in Nat \ {0}
    BY <1>1 DEF ActivateProfile
  <2> QED
    BY <1>1, <2>1, Zenon DEF ActivateProfile, FirmTypeOK, fillVars
<1>2. ASSUME NEW i \in Ids, NEW p \in Contents, LoadProfile(i, p) PROVE FirmTypeOK'
  <2>1. profiles' \in [Ids -> Contents \cup {None}]
    BY <1>2 DEF LoadProfile, FirmTypeOK
  <2> QED
    BY <1>2, <2>1, Zenon DEF LoadProfile, FirmTypeOK, stateVars, fillVars
<1>3. CASE AdvancePhase
  <2>1. peak' \in Int /\ daily' \in Int /\ cum' \in Int /\ phase' \in Nat \ {0}
    BY <1>3 DEF AdvancePhase, FirmTypeOK
  <2> QED
    BY <1>3, <2>1, Zenon DEF AdvancePhase, FirmTypeOK, fillVars
<1>4. CASE DailyReset
  <2>1. daily' \in Int /\ days' \in Nat
    BY <1>4 DEF DailyReset, FirmTypeOK
  <2>2. penalised' \in BOOLEAN /\ targetMet' \in BOOLEAN
    BY <1>4, Zenon DEF DailyReset
  <2> QED
    BY <1>4, <2>1, <2>2, Zenon DEF DailyReset, FirmTypeOK, fillVars
<1>5. CASE MarkViolated
  BY <1>5, Zenon DEF MarkViolated, FirmTypeOK, fillVars
<1>6. CASE UNCHANGED firmVars
  BY <1>6, Zenon DEF firmVars, stateVars, fillVars, FirmTypeOK
<1> QED
  BY <1>1, <1>2, <1>3, <1>4, <1>5, <1>6

Stages == {"idle", "booked", "read", "check", "mark"}

\* The five steps of ReconcileFill keep the types.
LEMMA ReconcileType ==
    ASSUME FirmTypeOK, NEW r \in Reconcilers,
           Book(r) \/ ReadBalance(r) \/ OnFill(r) \/ Check(r) \/ Mark(r)
    PROVE  FirmTypeOK'
<1>1. CASE Book(r)
  <2>1. PICK pnl \in PnLs : pool' = pool + pnl /\ fill' = [fill EXCEPT ![r] = pnl]
    BY <1>1 DEF Book
  <2>2. /\ pool' \in Int /\ fill' \in [Reconcilers -> Int]
        /\ stage' \in [Reconcilers -> Stages]
    BY <1>1, <2>1 DEF Book, FirmTypeOK, Stages
  <2> QED
    BY <1>1, <2>2, Zenon DEF Book, FirmTypeOK, Stages, stateVars
<1>2. CASE ReadBalance(r)
  <2>1. seen' \in [Reconcilers -> Int] /\ stage' \in [Reconcilers -> Stages]
    BY <1>2 DEF ReadBalance, FirmTypeOK, Stages
  <2> QED
    BY <1>2, <2>1, Zenon DEF ReadBalance, FirmTypeOK, Stages, stateVars
<1>3. CASE OnFill(r)
  <2>1. /\ daily' \in Int /\ cum' \in Int /\ peak' \in Int
        /\ fill' \in [Reconcilers -> Int] /\ seen' \in [Reconcilers -> Int]
        /\ stage' \in [Reconcilers -> Stages]
    BY <1>3 DEF OnFill, RaisedPeak, FirmTypeOK, Stages
  <2> QED
    BY <1>3, <2>1, Zenon DEF OnFill, FirmTypeOK, Stages
<1>4. CASE Check(r)
  <2>1. stage' \in [Reconcilers -> Stages]
    BY <1>4 DEF Check, FirmTypeOK, Stages
  <2> QED
    BY <1>4, <2>1, Zenon DEF Check, FirmTypeOK, Stages, stateVars
<1>5. CASE Mark(r)
  <2>1. stage' \in [Reconcilers -> Stages]
    BY <1>5 DEF Mark, FirmTypeOK, Stages
  <2> QED
    BY <1>5, <2>1, Zenon DEF Mark, FirmTypeOK, Stages
<1> QED
  BY <1>1, <1>2, <1>3, <1>4, <1>5

\* The gate's state keeps its types under any interleaving of handlers and
\* reconcilers.
THEOREM FirmTypeCorrect == FirmSpec => []FirmTypeOK
<1>1. FirmInit => FirmTypeOK
  <2> SUFFICES ASSUME FirmInit PROVE FirmTypeOK
    OBVIOUS
  <2>1. /\ starting \in {0, Starting} /\ peak \in Int /\ daily \in Int /\ cum \in Int
        /\ days \in Nat /\ phase \in Nat \ {0} /\ pool \in Int
        /\ profiles \in [Ids -> Contents \cup {None}]
        /\ stage \in [Reconcilers -> Stages]
        /\ fill \in [Reconcilers -> Int] /\ seen \in [Reconcilers -> Int]
    BY DEF FirmInit, Stages
  <2> QED
    BY <2>1, Zenon DEF FirmInit, FirmTypeOK, Stages
<1>2. FirmTypeOK /\ [FirmNext]_firmVars => FirmTypeOK'
  <2> SUFFICES ASSUME FirmTypeOK, [FirmNext]_firmVars PROVE FirmTypeOK'
    OBVIOUS
  <2> QED
    BY HandlerType, ReconcileType DEF FirmNext
<1> QED
  BY <1>1, <1>2, PTL DEF FirmSpec

-----------------------------------------------------------------------------
(* PeakCoversPool is not inductive: while fills are on their way the peak   *)
(* may be behind.  What is: somebody will still catch up, because the fill  *)
(* booked last either has its balance to read or has read the current one.  *)

CatchesUp(r) == stage[r] = "booked" \/ (stage[r] = "read" /\ seen[r] >= pool)

PeakInv == ~restarted => peak >= pool \/ \E r \in Reconcilers : CatchesUp(r)

\* A step that moves no fill keeps the invariant: it leaves the peak alone or
\* sets it back, which restarts.
LEMMA HandlerPeak ==
    ASSUME FirmTypeOK, PeakInv, UNCHANGED fillVars,
           restarted' \/ (peak' = peak /\ restarted' = restarted)
    PROVE  PeakInv'
BY DEF PeakInv, CatchesUp, fillVars

\* Each step of a reconciler keeps the invariant.
LEMMA ReconcilePeak ==
    ASSUME FirmTypeOK, PeakInv, NEW r \in Reconcilers,
           Book(r) \/ ReadBalance(r) \/ OnFill(r) \/ Check(r) \/ Mark(r)
    PROVE  PeakInv'
<1>1. CASE Book(r)
  <2>1. CatchesUp(r)'
    BY <1>1 DEF Book, CatchesUp, FirmTypeOK
  <2> QED
    BY <2>1 DEF PeakInv
<1>2. CASE ReadBalance(r)
  <2>1. CatchesUp(r)'
    BY <1>2 DEF ReadBalance, CatchesUp, FirmTypeOK
  <2> QED
    BY <2>1 DEF PeakInv
<1>3. CASE OnFill(r)
  <2> SUFFICES ASSUME ~restarted PROVE peak' >= pool' \/ \E u \in Reconcilers : CatchesUp(u)'
    BY <1>3 DEF OnFill, PeakInv
  <2>1. peak' >= peak /\ peak' >= seen[r] /\ pool' = pool /\ peak' \in Int
    BY <1>3 DEF OnFill, RaisedPeak, FirmTypeOK
  <2>2. CASE peak >= pool
    BY <2>1, <2>2 DEF FirmTypeOK
  <2>3. ASSUME NEW u \in Reconcilers, CatchesUp(u)
        PROVE  peak' >= pool' \/ \E v \in Reconcilers : CatchesUp(v)'
    <3>1. CASE u = r
      BY <1>3, <2>1, <2>3, <3>1 DEF CatchesUp, OnFill, FirmTypeOK
    <3>2. CASE u # r
      <4>1. CatchesUp(u)'
        BY <1>3, <2>1, <2>3, <3>2 DEF CatchesUp, OnFill, FirmTypeOK
      <4> QED
        BY <4>1
    <3> QED
      BY <3>1, <3>2
  <2> QED
    BY <2>2, <2>3 DEF PeakInv
<1>4. CASE Check(r) \/ Mark(r)
  <2>1. /\ peak' = peak /\ pool' = pool /\ seen' = seen /\ restarted' = restarted
        /\ ~CatchesUp(r)
        /\ \A u \in Reconcilers : u # r => stage'[u] = stage[u]
    BY <1>4 DEF Check, Mark, CatchesUp, FirmTypeOK, stateVars
  <2>2. \A u \in Reconcilers : CatchesUp(u) => CatchesUp(u)'
    BY <2>1 DEF CatchesUp
  <2> QED
    BY <2>1, <2>2 DEF PeakInv
<1> QED
  BY <1>1, <1>2, <1>3, <1>4

\* For any number of reconcilers, profiles and phases: once every booked fill
\* has reached the gate, the drawdown's reference is not below the pool.
THEOREM PeakSeesEveryFill == FirmSpec => []PeakCoversPool
<1>1. FirmInit => PeakInv
  BY DEF FirmInit, PeakInv
<1>2. FirmTypeOK /\ PeakInv /\ [FirmNext]_firmVars => PeakInv'
  <2> SUFFICES ASSUME FirmTypeOK, PeakInv, [FirmNext]_firmVars PROVE PeakInv'
    OBVIOUS
  <2>1. ASSUME NEW r \in Reconcilers,
               Book(r) \/ ReadBalance(r) \/ OnFill(r) \/ Check(r) \/ Mark(r)
        PROVE  PeakInv'
    BY <2>1, ReconcilePeak
  <2>2. CASE \/ \E i \in Ids : ActivateProfile(i) \/ \E p \in Contents : LoadProfile(i, p)
             \/ AdvancePhase \/ DailyReset \/ MarkViolated \/ UNCHANGED firmVars
    <3>1. UNCHANGED fillVars /\ (restarted' \/ (peak' = peak /\ restarted' = restarted))
      BY <2>2, Zenon DEF ActivateProfile, LoadProfile, AdvancePhase, DailyReset, MarkViolated,
                  firmVars, stateVars
    <3> QED
      BY <3>1, HandlerPeak
  <2> QED
    BY <2>1, <2>2 DEF FirmNext
<1>3. FirmTypeOK /\ PeakInv => PeakCoversPool
  BY DEF PeakInv, CatchesUp, PeakCoversPool, AllReported
<1> QED
  BY <1>1, <1>2, <1>3, FirmTypeCorrect, PTL DEF FirmSpec
=============================================================================
