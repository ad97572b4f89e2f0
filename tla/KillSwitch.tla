----------------------------- MODULE KillSwitch -----------------------------
(***************************************************************************)
(* The emergency stop of internal/risk/kill_switch.go.                     *)
(*                                                                         *)
(* Trigger runs in the goroutine of whoever calls it (an HTTP handler or   *)
(* MonitorRejectRate), so it is split at every point where another         *)
(* goroutine can observe or change shared state: the atomics, the RWMutex  *)
(* sections and the calls to the broker and to the callbacks.  Resume is   *)
(* two steps, as in the code (the flag, then the reason under the mutex).  *)
(*                                                                         *)
(* The broker is external: per account, whether it has resting orders and  *)
(* whether it has open positions.  Orders rest, fill and may be refused a  *)
(* cancellation at any time; the order handlers do not consult the switch. *)
(***************************************************************************)
EXTENDS Naturals

CONSTANTS Handlers,     \* goroutines serving POST /emergency/stop
          Resumers,     \* goroutines serving POST /emergency/resume
          Monitor,      \* the goroutine running MonitorRejectRate
          NoReason,     \* the empty reason ""
          Accounts,     \* broker accounts
          Primary,      \* the account of the adapter given to NewKillSwitch
          Batches,      \* reject counts that can arrive on rejectChan
          MaxCallbacks, \* bound on OnTrigger registrations
          MaxRejects,   \* bound on the reject counter kept by the monitor
          MayPanic      \* whether a callback may panic

Threads == Handlers \cup {Monitor}
RejectThreshold == 3

ASSUME MonitorAssumption == Monitor \notin Handlers
ASSUME ReasonAssumption == NoReason \notin Threads
ASSUME ResumerAssumption == Resumers \cap Threads = {}
ASSUME PrimaryAssumption == Primary \in Accounts
ASSUME BatchAssumption == Batches \subseteq Nat
ASSUME BoundAssumption == MaxCallbacks \in Nat /\ MaxRejects \in Nat
ASSUME PanicAssumption == MayPanic \in BOOLEAN

VARIABLES halted,        \* ks.halted
          isLocked,      \* ks.isLocked
          ready,         \* ks.killSwitchReady = 1
          reason,        \* ks.reason, identified with the thread that gave it
          accountCancel, \* ks.accountCancel != nil
          onTrigger,     \* number of registered callbacks
          pc,            \* where each goroutine is inside Trigger or Resume
          todo,          \* callbacks the goroutine has still to run
          result,        \* what the goroutine's last Trigger returned
          rejectCount,   \* MonitorRejectRate's counter
          windowOver,    \* its five minutes have passed
          orders,        \* external: accounts with resting orders
          positions,     \* external: accounts with open positions
          undisturbed,   \* history: since the last halt no order was placed
                         \* and no broker call failed
          panicked       \* history: a callback has panicked

swVars  == <<halted, isLocked, ready, reason>>
cfgVars == <<accountCancel, onTrigger>>
mrVars  == <<rejectCount, windowOver>>
bkVars  == <<orders, positions>>
histVars == <<undisturbed, panicked>>
vars    == <<swVars, cfgVars, pc, todo, result, mrVars, bkVars, histVars>>

TriggerSteps == {"load", "cas", "check", "arm", "reason", "halt", "cancel",
                 "close", "copy", "callbacks", "rearm", "unlock"}
Results == {"none", "nil", "ErrAlreadyHalted", "ErrLocked",
            "ErrAlreadyInFlight", "panic"}

\* The goroutine owns the re-entrancy guard: after the CAS, before the
\* deferred store.
InLock == {"check", "arm", "reason", "halt", "cancel", "close", "copy",
           "callbacks", "rearm", "unlock"}
\* The goroutine has cleared killSwitchReady and not yet set it again.
InFlight == {"reason", "halt", "cancel", "close", "copy", "callbacks", "rearm"}

Init ==
    /\ halted = FALSE /\ isLocked = FALSE /\ ready = TRUE /\ reason = NoReason
    /\ accountCancel = FALSE /\ onTrigger = 0
    /\ pc = [t \in Threads \cup Resumers |-> "idle"]
    /\ todo = [t \in Threads |-> 0]
    /\ result = [t \in Threads |-> "none"]
    /\ rejectCount = 0 /\ windowOver = FALSE
    /\ orders = {} /\ positions = {} /\ undisturbed = FALSE /\ panicked = FALSE

-----------------------------------------------------------------------------
(* Configuration: SetAccountCanceller and OnTrigger, each under the mutex. *)

SetAccountCanceller ==
    /\ ~accountCancel
    /\ accountCancel' = TRUE
    /\ UNCHANGED <<swVars, onTrigger, pc, todo, result, mrVars, bkVars, histVars>>

OnTrigger ==
    /\ onTrigger < MaxCallbacks
    /\ onTrigger' = onTrigger + 1
    /\ UNCHANGED <<swVars, accountCancel, pc, todo, result, mrVars, bkVars, histVars>>

-----------------------------------------------------------------------------
(* Trigger, one step per access to shared state.                           *)

Goto(t, from, to) == pc[t] = from /\ pc' = [pc EXCEPT ![t] = to]
Return(t, res) == result' = [result EXCEPT ![t] = res]

\* A handler (triggerEmergencyStop) calls Trigger.
Call(t) ==
    /\ Goto(t, "idle", "load")
    /\ Return(t, "none")
    /\ UNCHANGED <<swVars, cfgVars, todo, mrVars, bkVars, histVars>>

LoadHalted(t) ==
    /\ \/ halted /\ Goto(t, "load", "idle") /\ Return(t, "ErrAlreadyHalted")
       \/ ~halted /\ Goto(t, "load", "cas") /\ UNCHANGED result
    /\ UNCHANGED <<swVars, cfgVars, todo, mrVars, bkVars, histVars>>

\* Mutant: the guard is stored, not compared and swapped.
CompareAndSwap_Store(t) ==
    /\ Goto(t, "cas", "check") /\ isLocked' = TRUE
    /\ UNCHANGED <<halted, ready, reason, cfgVars, todo, result, mrVars, bkVars, histVars>>

CompareAndSwap(t) ==
    /\ \/ /\ isLocked
          /\ Goto(t, "cas", "idle") /\ Return(t, "ErrLocked")
          /\ UNCHANGED isLocked
       \/ /\ ~isLocked
          /\ Goto(t, "cas", "check") /\ isLocked' = TRUE
          /\ UNCHANGED result
    /\ UNCHANGED <<halted, ready, reason, cfgVars, todo, mrVars, bkVars, histVars>>

\* A return after the CAS still runs the deferred isLocked.Store(0).
CheckReady(t) ==
    /\ \/ ready /\ Goto(t, "check", "arm") /\ UNCHANGED result
       \/ ~ready /\ Goto(t, "check", "unlock") /\ Return(t, "ErrAlreadyInFlight")
    /\ UNCHANGED <<swVars, cfgVars, todo, mrVars, bkVars, histVars>>

ClearReady(t) ==
    /\ Goto(t, "arm", "reason")
    /\ ready' = FALSE
    /\ UNCHANGED <<halted, isLocked, reason, cfgVars, todo, result, mrVars, bkVars, histVars>>

SetReason(t) ==
    /\ Goto(t, "reason", "halt")
    /\ reason' = t
    /\ UNCHANGED <<halted, isLocked, ready, cfgVars, todo, result, mrVars, bkVars, histVars>>

\* Mutant: the store is missing.
SetHalted_Missing(t) ==
    /\ Goto(t, "halt", "cancel")
    /\ undisturbed' = TRUE
    /\ UNCHANGED <<swVars, cfgVars, todo, result, mrVars, bkVars, panicked>>

SetHalted(t) ==
    /\ Goto(t, "halt", "cancel")
    /\ halted' = TRUE
    /\ undisturbed' = TRUE
    /\ UNCHANGED <<isLocked, ready, reason, cfgVars, todo, result, mrVars, bkVars, panicked>>

\* The accounts a flatten call reaches: all of them through accountCancel,
\* otherwise the one adapter.  Some of the calls may fail; errors are only
\* logged.
Reached == IF accountCancel THEN Accounts ELSE {Primary}

\* Mutant: the positions are closed without cancelling the orders.
CancelAllOrders_Skipped(t) ==
    /\ Goto(t, "cancel", "close")
    /\ UNCHANGED <<swVars, cfgVars, todo, result, mrVars, bkVars, histVars>>

CancelAllOrders(t) ==
    /\ Goto(t, "cancel", "close")
    /\ \E done \in SUBSET Reached :
          /\ orders' = orders \ done
          /\ undisturbed' = (undisturbed /\ done = Reached)
    /\ UNCHANGED <<swVars, cfgVars, todo, result, mrVars, positions, panicked>>

CloseAllPositions(t) ==
    /\ Goto(t, "close", "copy")
    /\ \E done \in SUBSET Reached :
          /\ positions' = positions \ done
          /\ undisturbed' = (undisturbed /\ done = Reached)
    /\ UNCHANGED <<swVars, cfgVars, todo, result, mrVars, orders, panicked>>

CopyCallbacks(t) ==
    /\ Goto(t, "copy", "callbacks")
    /\ todo' = [todo EXCEPT ![t] = onTrigger]
    /\ UNCHANGED <<swVars, cfgVars, result, mrVars, bkVars, histVars>>

RunCallback(t) ==
    /\ pc[t] = "callbacks" /\ todo[t] > 0
    /\ todo' = [todo EXCEPT ![t] = @ - 1]
    /\ UNCHANGED <<swVars, cfgVars, pc, result, mrVars, bkVars, histVars>>

\* A panic unwinds through the deferred unlock but skips the store that
\* makes the switch ready again; net/http and gin recover the goroutine.
CallbackPanics(t) ==
    /\ MayPanic /\ t \in Handlers /\ todo[t] > 0
    /\ Goto(t, "callbacks", "unlock")
    /\ todo' = [todo EXCEPT ![t] = 0]
    /\ Return(t, "panic")
    /\ panicked' = TRUE
    /\ UNCHANGED <<swVars, cfgVars, mrVars, bkVars, undisturbed>>

CallbacksDone(t) ==
    /\ todo[t] = 0
    /\ Goto(t, "callbacks", "rearm")
    /\ UNCHANGED <<swVars, cfgVars, todo, result, mrVars, bkVars, histVars>>

\* Mutant: the second store is missing.
SetReady_Missing(t) ==
    /\ Goto(t, "rearm", "unlock")
    /\ Return(t, "nil")
    /\ UNCHANGED <<swVars, cfgVars, todo, mrVars, bkVars, histVars>>

SetReady(t) ==
    /\ Goto(t, "rearm", "unlock")
    /\ ready' = TRUE
    /\ Return(t, "nil")
    /\ UNCHANGED <<halted, isLocked, reason, cfgVars, todo, mrVars, bkVars, histVars>>

Unlock(t) ==
    /\ Goto(t, "unlock", "idle")
    /\ isLocked' = FALSE
    /\ UNCHANGED <<halted, ready, reason, cfgVars, todo, result, mrVars, bkVars, histVars>>

TriggerStep(t) ==
    \/ LoadHalted(t) \/ CompareAndSwap(t) \/ CheckReady(t) \/ ClearReady(t)
    \/ SetReason(t) \/ SetHalted(t) \/ CancelAllOrders(t) \/ CloseAllPositions(t)
    \/ CopyCallbacks(t) \/ RunCallback(t) \/ CallbackPanics(t)
    \/ CallbacksDone(t) \/ SetReady(t) \/ Unlock(t)

-----------------------------------------------------------------------------
(* Resume.                                                                 *)

ClearHalted(r) ==
    /\ Goto(r, "idle", "resume")
    /\ halted' = FALSE
    /\ UNCHANGED <<isLocked, ready, reason, cfgVars, todo, result, mrVars, bkVars, histVars>>

ClearReason(r) ==
    /\ Goto(r, "resume", "idle")
    /\ reason' = NoReason
    /\ UNCHANGED <<halted, isLocked, ready, cfgVars, todo, result, mrVars, bkVars, histVars>>

-----------------------------------------------------------------------------
(* MonitorRejectRate: the goroutine blocks in Trigger while it is not idle. *)

\* Mutant: the batch is compared with the threshold, not the running total.
ReceiveRejects_BatchOnly ==
    /\ pc[Monitor] = "idle"
    /\ \E count \in Batches :
          LET total == (IF windowOver THEN 0 ELSE rejectCount) + count
          IN  /\ total <= MaxRejects
              /\ rejectCount' = total
              /\ IF count > RejectThreshold
                   THEN Goto(Monitor, "idle", "load") /\ Return(Monitor, "none")
                   ELSE UNCHANGED <<pc, result>>
    /\ windowOver' = FALSE
    /\ UNCHANGED <<swVars, cfgVars, todo, bkVars, histVars>>

ReceiveRejects ==
    /\ pc[Monitor] = "idle"
    /\ \E count \in Batches :
          LET base == IF windowOver THEN 0 ELSE rejectCount
              total == base + count
          IN  /\ total <= MaxRejects
              /\ rejectCount' = total
              /\ IF total > RejectThreshold
                   THEN Goto(Monitor, "idle", "load") /\ Return(Monitor, "none")
                   ELSE UNCHANGED <<pc, result>>
    /\ windowOver' = FALSE
    /\ UNCHANGED <<swVars, cfgVars, todo, bkVars, histVars>>

\* The ticker notices that the window is over and starts a new one.
Tick ==
    /\ pc[Monitor] = "idle" /\ windowOver
    /\ rejectCount' = 0 /\ windowOver' = FALSE
    /\ UNCHANGED <<swVars, cfgVars, pc, todo, result, bkVars, histVars>>

WindowPasses ==
    /\ ~windowOver /\ windowOver' = TRUE
    /\ UNCHANGED <<swVars, cfgVars, pc, todo, result, rejectCount, bkVars, histVars>>

-----------------------------------------------------------------------------
(* The broker, external.                                                   *)

PlaceOrder(a) ==
    /\ a \notin orders
    /\ orders' = orders \cup {a}
    /\ undisturbed' = FALSE
    /\ UNCHANGED <<swVars, cfgVars, pc, todo, result, mrVars, positions, panicked>>

Fill(a) ==
    /\ a \in orders
    /\ positions' = positions \cup {a}
    /\ \/ orders' = orders \ {a}
       \/ orders' = orders        \* partially filled
    /\ UNCHANGED <<swVars, cfgVars, pc, todo, result, mrVars, histVars>>

-----------------------------------------------------------------------------
Next ==
    \/ SetAccountCanceller \/ OnTrigger
    \/ \E t \in Handlers : Call(t)
    \/ \E t \in Threads : TriggerStep(t)
    \/ \E r \in Resumers : ClearHalted(r) \/ ClearReason(r)
    \/ ReceiveRejects \/ Tick \/ WindowPasses
    \/ \E a \in Accounts : PlaceOrder(a) \/ Fill(a)

Spec == Init /\ [][Next]_vars

\* A goroutine inside Trigger or Resume keeps running: the Go scheduler is
\* fair, broker calls carry a 30 s context, callbacks return.
FairSpec ==
    /\ Spec
    /\ \A t \in Threads : WF_vars(TriggerStep(t))
    /\ \A r \in Resumers : WF_vars(ClearReason(r))

-----------------------------------------------------------------------------
(* Properties.                                                             *)

\* Type correctness of the switch, its callers and the broker.
TypeOK ==
    /\ halted \in BOOLEAN /\ isLocked \in BOOLEAN /\ ready \in BOOLEAN
    /\ reason \in Threads \cup {NoReason}
    /\ accountCancel \in BOOLEAN /\ onTrigger \in Nat
    /\ pc \in [Threads \cup Resumers -> TriggerSteps \cup {"idle", "resume"}]
    /\ \A t \in Threads : pc[t] # "resume"
    /\ todo \in [Threads -> Nat]
    /\ result \in [Threads -> Results]
    /\ rejectCount \in Nat /\ windowOver \in BOOLEAN
    /\ orders \subseteq Accounts /\ positions \subseteq Accounts
    /\ undisturbed \in BOOLEAN /\ panicked \in BOOLEAN

\* At most one goroutine executes the guarded part of Trigger, and the guard
\* is held exactly while one does: no interleaving of Trigger, Resume and a
\* panicking callback leaves isLocked set with nobody to clear it.
SingleFlight ==
    /\ \A t, u \in Threads : pc[t] \in InLock /\ pc[u] \in InLock => t = u
    /\ isLocked <=> \E t \in Threads : pc[t] \in InLock

\* No goroutine is between the two stores of killSwitchReady.
NobodyInFlight == \A t \in Threads : pc[t] \notin InFlight

\* killSwitchReady: "1=ready to fire, 0=already executing" (kill_switch.go:21).
\* It is 0 exactly while a goroutine is between its two stores, under every
\* interleaving of triggers, refusals and resumes, until a callback panics: a
\* panic that the HTTP layer recovers skips the second store, and from then on
\* the comment is false and no trigger gets past the check.
HonestFlightFlag == ~panicked => (~ready <=> ~NobodyInFlight)

\* A halt flattens: once both broker calls of a trigger have succeeded and
\* no order was placed since it set halted, the adapter's account has neither
\* resting orders nor positions, whatever was filled while it ran.
FlattenIsComplete ==
    \A t \in Threads :
        /\ \/ pc[t] \in {"copy", "callbacks", "rearm"}
           \/ pc[t] = "unlock" /\ result[t] = "nil"
        /\ undisturbed
        => Primary \notin orders \cup positions

\* With nobody resuming, a reader of Status() that sees halted also sees the
\* reason of a trigger: the reason is published before the flag.
HaltHasReason == Resumers = {} /\ halted => reason # NoReason

\* A resume is between its two steps.
Resuming == \E r \in Resumers : pc[r] = "resume"

\* If nobody ever resumes, trading is halted once any Trigger call has been
\* made, also when the call itself is refused: a refusal means that another
\* trigger has halted or will.
EveryTriggerHalts ==
    []~Resuming => \A t \in Threads : pc[t] = "load" ~> halted

\* If nobody ever resumes, a burst of more than three rejects inside one
\* window halts trading.
RejectSpikeHalts ==
    []~Resuming => (rejectCount > RejectThreshold ~> halted)
=============================================================================
