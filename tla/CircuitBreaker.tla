--------------------------- MODULE CircuitBreaker ---------------------------
(***************************************************************************)
(* The circuit breaker of internal/breaker, shared by the goroutines that  *)
(* call one remote service (VIX, sentiment, Telegram, LLM).  A caller asks *)
(* Allow, performs its request without the lock, and reports the outcome   *)
(* later: by then other callers may have opened, probed or closed the      *)
(* breaker.  Every transition is also notified to the audit observer, in a *)
(* step of its own after the lock has been released.                       *)
(***************************************************************************)
EXTENDS Integers, FiniteSets

CONSTANTS
    Callers,           \* goroutines sharing the breaker
    FailureThreshold,  \* consecutive failures that open it
    WarnThreshold,     \* failures at which it warns, 0: never
    ResetTimeout       \* clock ticks it stays open

ASSUME ConstantsAssumption ==
    /\ IsFiniteSet(Callers)
    /\ FailureThreshold \in Nat \ {0}
    /\ WarnThreshold \in 0..FailureThreshold
    /\ ResetTimeout \in Nat \ {0}

VARIABLES
    state, failureCount, successCount,
    age,            \* ticks since lastFailureTime, counted to ResetTimeout
    warnEmitted,
    pc,             \* where each caller is
    event,          \* the BreakerEvent a caller has yet to notify
    net,            \* audit trail: times a state was entered, less times left
    up              \* whether the remote service answers

cbVars == <<state, failureCount, successCount, age, warnEmitted>>
vars == <<cbVars, pc, event, net, up>>

CircuitState == {"closed", "open", "halfOpen"}
HalfOpenMaxSuccess == 1

Event(from, to) == [from |-> from, to |-> to]
NoEvent == Event("closed", "closed")

\* What event e says of state s: entered (1), left (-1), or neither, as for
\* a warning or a failure of a breaker that was open already.
Adds(e, s) == (IF s = e.to THEN 1 ELSE 0) - (IF s = e.from THEN 1 ELSE 0)

\* A count saturated at the threshold, above which no comparison tells two
\* values apart.
Counted(n) == IF n < FailureThreshold THEN n + 1 ELSE n

Init ==
    /\ state = "closed"
    /\ failureCount = 0
    /\ successCount = 0
    /\ age = 0
    /\ warnEmitted = FALSE
    /\ pc = [c \in Callers |-> "idle"]
    /\ event = [c \in Callers |-> NoEvent]
    /\ net = [s \in CircuitState |-> 0]
    /\ up = TRUE

-----------------------------------------------------------------------------
(***************************************************************************)
(* Allow.  A refusal changes nothing and is not an action.                 *)
(***************************************************************************)

\* Closed, or half-open with a trial left: the caller may go.
AllowPasses(c) ==
    /\ pc[c] = "idle"
    /\ \/ state = "closed"
       \/ state = "halfOpen" /\ successCount < HalfOpenMaxSuccess
    /\ pc' = [pc EXCEPT ![c] = "calling"]
    /\ UNCHANGED <<cbVars, event, net, up>>

\* Mutant: the trial counter of the last recovery is kept.
AllowProbesUncleared(c) ==
    /\ pc[c] = "idle"
    /\ state = "open"
    /\ age >= ResetTimeout
    /\ state' = "halfOpen"
    /\ pc' = [pc EXCEPT ![c] = "notifyProbe"]
    /\ event' = [event EXCEPT ![c] = Event("open", "halfOpen")]
    /\ UNCHANGED <<successCount, failureCount, age, warnEmitted, net, up>>

\* Open for long enough: this caller turns the breaker half-open.
AllowProbes(c) ==
    /\ pc[c] = "idle"
    /\ state = "open"
    /\ age >= ResetTimeout
    /\ state' = "halfOpen"
    /\ successCount' = 0
    /\ pc' = [pc EXCEPT ![c] = "notifyProbe"]
    /\ event' = [event EXCEPT ![c] = Event("open", "halfOpen")]
    /\ UNCHANGED <<failureCount, age, warnEmitted, net, up>>

\* The request ends: the client knows the outcome but has not reported it.
Answer(c) ==
    /\ pc[c] = "calling"
    /\ pc' = [pc EXCEPT ![c] = IF up THEN "succeeded" ELSE "failed"]
    /\ UNCHANGED <<cbVars, event, net, up>>

\* A request that could not be built is never reported.
Abandon(c) ==
    /\ pc[c] = "calling"
    /\ pc' = [pc EXCEPT ![c] = "idle"]
    /\ UNCHANGED <<cbVars, event, net, up>>

-----------------------------------------------------------------------------
(***************************************************************************)
(* RecordSuccess and RecordFailure.  Both may arrive in any state.         *)
(***************************************************************************)

\* Mutant: closes the breaker from any state.
RecordSuccessAnyState(c) ==
    /\ pc[c] = "succeeded"
    /\ failureCount' = 0
    /\ warnEmitted' = FALSE
    /\ successCount' = 1
    /\ state' = "closed"
    /\ IF state = "halfOpen" /\ state' = "closed"
       THEN /\ pc' = [pc EXCEPT ![c] = "notify"]
            /\ event' = [event EXCEPT ![c] = Event(state, state')]
       ELSE pc' = [pc EXCEPT ![c] = "idle"] /\ UNCHANGED event
    /\ UNCHANGED <<age, net, up>>

\* Mutant: a successful trial only ends the streak.
RecordSuccessStays(c) ==
    /\ pc[c] = "succeeded"
    /\ failureCount' = 0
    /\ warnEmitted' = FALSE
    /\ pc' = [pc EXCEPT ![c] = "idle"]
    /\ UNCHANGED <<state, successCount, age, event, net, up>>

\* RecordSuccess ends the streak; a success that reaches a half-open breaker
\* closes it, whenever its request was sent.
RecordSuccess(c) ==
    /\ pc[c] = "succeeded"
    /\ failureCount' = 0
    /\ warnEmitted' = FALSE
    /\ IF state = "halfOpen"
       THEN /\ successCount' = successCount + 1
            /\ state' = IF successCount' >= HalfOpenMaxSuccess
                        THEN "closed" ELSE state
       ELSE UNCHANGED <<successCount, state>>
    /\ IF state = "halfOpen" /\ state' = "closed"
       THEN /\ pc' = [pc EXCEPT ![c] = "notify"]
            /\ event' = [event EXCEPT ![c] = Event(state, state')]
       ELSE pc' = [pc EXCEPT ![c] = "idle"] /\ UNCHANGED event
    /\ UNCHANGED <<age, net, up>>

\* The next failure count opens the breaker: at the threshold, or at once
\* when a trial fails.
Opens == state = "halfOpen" \/ Counted(failureCount) >= FailureThreshold

\* It is time to warn, once per streak.
Warns ==
    /\ WarnThreshold > 0
    /\ Counted(failureCount) >= WarnThreshold
    /\ ~warnEmitted

\* RecordFailure restarts the cooling period, also while the breaker is
\* open already.
RecordFailure(c) ==
    /\ pc[c] = "failed"
    /\ failureCount' = Counted(failureCount)
    /\ age' = 0
    /\ state' = IF Opens THEN "open" ELSE state
    /\ warnEmitted' = (warnEmitted \/ (~Opens /\ Warns))
    /\ IF Opens \/ Warns
       THEN /\ pc' = [pc EXCEPT ![c] = "notify"]
            /\ event' = [event EXCEPT ![c] = Event(state, state')]
       ELSE pc' = [pc EXCEPT ![c] = "idle"] /\ UNCHANGED event
    /\ UNCHANGED <<successCount, net, up>>

\* notify: the observer runs outside the lock, in no particular order.
Notify(c) ==
    /\ pc[c] \in {"notify", "notifyProbe"}
    /\ net' = [s \in CircuitState |-> net[s] + Adds(event[c], s)]
    /\ event' = [event EXCEPT ![c] = NoEvent]
    /\ pc' = [pc EXCEPT ![c] = IF pc[c] = "notify" THEN "idle" ELSE "calling"]
    /\ UNCHANGED <<cbVars, up>>

-----------------------------------------------------------------------------
\* Time passes.
Tick ==
    /\ age < ResetTimeout
    /\ age' = age + 1
    /\ UNCHANGED <<state, failureCount, successCount, warnEmitted,
                   pc, event, net, up>>

\* The remote service fails and recovers.
RemoteChanges ==
    /\ up' = ~up
    /\ UNCHANGED <<cbVars, pc, event, net>>

Caller(c) ==
    \/ AllowPasses(c)
    \/ AllowProbes(c)
    \/ Answer(c)
    \/ Abandon(c)
    \/ RecordSuccess(c)
    \/ RecordFailure(c)
    \/ Notify(c)

Next == Tick \/ RemoteChanges \/ \E c \in Callers : Caller(c)

Spec == Init /\ [][Next]_vars

\* Time passes, a request ends (the clients' HTTP timeouts), a caller that
\* was let through finishes its report, and callers come back.  Requests that
\* cannot be built do not happen for ever, so an answered one is reported.
Fairness ==
    /\ WF_vars(Tick)
    /\ \A c \in Callers :
         /\ WF_vars(AllowPasses(c) \/ AllowProbes(c))
         /\ SF_vars(Answer(c))
         /\ WF_vars(RecordSuccess(c) \/ RecordFailure(c) \/ Notify(c))

FairSpec == Spec /\ Fairness

-----------------------------------------------------------------------------
(***************************************************************************)
(* Properties                                                              *)
(***************************************************************************)

TypeOK ==
    /\ state \in CircuitState
    /\ failureCount \in 0..FailureThreshold
    /\ successCount \in 0..HalfOpenMaxSuccess
    /\ age \in 0..ResetTimeout
    /\ warnEmitted \in BOOLEAN
    /\ pc \in [Callers -> {"idle", "calling", "succeeded", "failed",
                           "notify", "notifyProbe"}]
    /\ event \in [Callers -> [from : CircuitState, to : CircuitState]]
    /\ net \in [CircuitState -> Int]
    /\ up \in BOOLEAN

\* Whatever late reports arrive, a half-open breaker still lets a trial
\* through (the counter of an earlier recovery never blocks a new one), and
\* a closed one is below its failure threshold: it is never closed on a
\* streak that should have opened it.
NeverWedged ==
    /\ state = "halfOpen" => successCount < HalfOpenMaxSuccess
    /\ state = "closed" => failureCount < FailureThreshold

\* The callers whose pending notification adds n to the trail at s.
Owing(s, n) == Cardinality({c \in Callers : Adds(event[c], s) = n})

\* The audit trail, notified outside the lock and out of order, still adds
\* up: with the notifications on their way it says of every state whether
\* the breaker is in it.
AuditTrailBalances ==
    \A s \in CircuitState :
        net[s] + Owing(s, 1) - Owing(s, -1)
          = (IF s = state THEN 1 ELSE 0) - (IF s = "closed" THEN 1 ELSE 0)

\* The breaker follows the service: once the service stays up the breaker
\* ends closed for good, once it stays down it never stays closed.
FollowsRemote ==
    /\ <>[]up => <>[](state = "closed")
    /\ <>[]~up => <>[](state # "closed")
=============================================================================
