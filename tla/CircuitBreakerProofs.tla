------------------------ MODULE CircuitBreakerProofs ------------------------
(***************************************************************************)
(* Proofs about CircuitBreaker for any finite set of callers, any          *)
(* thresholds and any reset timeout.                                       *)
(***************************************************************************)
EXTENDS CircuitBreaker, FiniteSetTheorems, TLAPS

-----------------------------------------------------------------------------
(***************************************************************************)
(* Types                                                                   *)
(***************************************************************************)

\* Counted keeps a failure count within the threshold and never lowers it.
LEMMA CountedType ==
    ASSUME NEW n \in 0..FailureThreshold
    PROVE  /\ Counted(n) \in 0..FailureThreshold
           /\ Counted(n) > 0
  BY ConstantsAssumption DEF Counted

\* What an event adds to the trail at a state is -1, 0 or 1.
LEMMA AddsType ==
    ASSUME NEW e, NEW s
    PROVE  Adds(e, s) \in {-1, 0, 1}
  BY DEF Adds

\* Inductive part of the type invariant that the counters need: a half-open
\* breaker has a trial left.
TypeInv == TypeOK /\ (state = "halfOpen" => successCount < HalfOpenMaxSuccess)

\* The counters start within their types.
LEMMA TypeInit == Init => TypeInv
<1> SUFFICES ASSUME Init PROVE TypeInv
  OBVIOUS
<1>1. /\ state \in CircuitState
      /\ failureCount \in 0..FailureThreshold
      /\ successCount \in 0..HalfOpenMaxSuccess
      /\ age \in 0..ResetTimeout
      /\ state # "halfOpen"
  BY ConstantsAssumption DEF Init, CircuitState, HalfOpenMaxSuccess
<1>2. warnEmitted \in BOOLEAN /\ up \in BOOLEAN
  BY Zenon DEF Init
<1>3. /\ pc \in [Callers -> {"idle", "calling", "succeeded", "failed",
                             "notify", "notifyProbe"}]
      /\ event \in [Callers -> [from : CircuitState, to : CircuitState]]
      /\ net \in [CircuitState -> Int]
  BY DEF Init, CircuitState, NoEvent, Event
<1> QED
  BY <1>1, <1>2, <1>3 DEF TypeInv, TypeOK

\* Every step of CircuitBreaker preserves the types and the trial that a
\* half-open breaker still has.
LEMMA TypeStep == TypeInv /\ [Next]_vars => TypeInv'
<1> SUFFICES ASSUME TypeInv, [Next]_vars
             PROVE  TypeInv'
  OBVIOUS
<1> USE ConstantsAssumption DEF TypeInv, TypeOK, CircuitState
<1>1. CASE Tick
  BY <1>1 DEF Tick
<1>2. CASE RemoteChanges
  <2>1. up' \in BOOLEAN
    BY <1>2, Zenon DEF RemoteChanges
  <2> QED
    BY <1>2, <2>1 DEF RemoteChanges, cbVars
<1>3. ASSUME NEW c \in Callers, AllowPasses(c) \/ Answer(c) \/ Abandon(c)
      PROVE  TypeInv'
  BY <1>3 DEF AllowPasses, Answer, Abandon, cbVars
<1>4. ASSUME NEW c \in Callers, AllowProbes(c)
      PROVE  TypeInv'
  BY <1>4 DEF AllowProbes, Event, HalfOpenMaxSuccess
<1>5. ASSUME NEW c \in Callers, RecordSuccess(c)
      PROVE  TypeInv'
  <2>1. warnEmitted' \in BOOLEAN
    BY <1>5, Zenon DEF RecordSuccess
  <2>2. /\ state' \in CircuitState
        /\ successCount' \in 0..HalfOpenMaxSuccess
        /\ state' # "halfOpen"
    BY <1>5 DEF RecordSuccess, HalfOpenMaxSuccess
  <2> QED
    BY <1>5, <2>1, <2>2 DEF RecordSuccess, Event
<1>6. ASSUME NEW c \in Callers, RecordFailure(c)
      PROVE  TypeInv'
  <2>1. warnEmitted' \in BOOLEAN
    BY <1>6, Zenon DEF RecordFailure
  <2>2. Counted(failureCount) \in 0..FailureThreshold
    BY CountedType
  <2> QED
    BY <1>6, <2>1, <2>2 DEF RecordFailure, Event, Opens
<1>7. ASSUME NEW c \in Callers, Notify(c)
      PROVE  TypeInv'
  <2>1. net' \in [{"closed", "open", "halfOpen"} -> Int]
    BY <1>7, AddsType DEF Notify
  <2> QED
    BY <1>7, <2>1 DEF Notify, NoEvent, Event, cbVars
<1>8. CASE UNCHANGED vars
  BY <1>8 DEF vars, cbVars
<1> QED
  BY <1>1, <1>2, <1>3, <1>4, <1>5, <1>6, <1>7, <1>8 DEF Next, Caller

\* Types of the breaker's fields, its callers and the audit trail.
THEOREM BreakerTypeOK == Spec => []TypeOK
<1>1. Spec => []TypeInv
  BY TypeInit, TypeStep, PTL DEF Spec
<1> QED
  BY <1>1, PTL DEF TypeInv

-----------------------------------------------------------------------------
(***************************************************************************)
(* The breaker is never wedged                                             *)
(***************************************************************************)

\* For any number of callers reporting late and out of order, a half-open
\* breaker admits a trial and a closed one is below its threshold.
THEOREM BreakerNeverWedged == Spec => []NeverWedged
<1>1. Init => NeverWedged
  BY ConstantsAssumption DEF Init, NeverWedged
<1>2. TypeInv /\ NeverWedged /\ [Next]_vars => NeverWedged'
  <2> SUFFICES ASSUME TypeInv, NeverWedged, [Next]_vars
               PROVE  NeverWedged'
    OBVIOUS
  <2>0. TypeInv'
    BY TypeStep
  <2>1. state' = "closed" => failureCount' < FailureThreshold
    <3> USE ConstantsAssumption DEF TypeInv, TypeOK, NeverWedged
    <3>1. CASE Tick \/ RemoteChanges \/ UNCHANGED vars
      BY <3>1 DEF Tick, RemoteChanges, vars, cbVars
    <3>2. ASSUME NEW c \in Callers,
                 AllowPasses(c) \/ Answer(c) \/ Abandon(c) \/ Notify(c)
          PROVE  state' = "closed" => failureCount' < FailureThreshold
      BY <3>2 DEF AllowPasses, Answer, Abandon, Notify, cbVars
    <3>3. ASSUME NEW c \in Callers, AllowProbes(c) \/ RecordSuccess(c)
          PROVE  state' = "closed" => failureCount' < FailureThreshold
      BY <3>3 DEF AllowProbes, RecordSuccess
    <3>4. ASSUME NEW c \in Callers, RecordFailure(c)
          PROVE  state' = "closed" => failureCount' < FailureThreshold
      BY <3>4, CountedType DEF RecordFailure, Opens
    <3> QED
      BY <3>1, <3>2, <3>3, <3>4 DEF Next, Caller
  <2> QED
    BY <2>0, <2>1 DEF TypeInv, NeverWedged
<1> QED
  BY <1>1, <1>2, TypeInit, TypeStep, PTL DEF Spec

-----------------------------------------------------------------------------
(***************************************************************************)
(* The audit trail adds up                                                 *)
(***************************************************************************)

\* The callers other than c whose pending event adds n at s, for a function
\* f from callers to events.
Others(f, c, s, n) == {x \in Callers \ {c} : Adds(f[x], s) = n}

\* All callers whose event adds n at s.
All(f, s, n) == {x \in Callers : Adds(f[x], s) = n}

\* One if the event adds n at s.
One(e, s, n) == IF Adds(e, s) = n THEN 1 ELSE 0

\* Counting the owing callers with and without one of them.
LEMMA CountApart ==
    ASSUME NEW f, NEW c \in Callers, NEW s, NEW n
    PROVE  /\ Cardinality(Others(f, c, s, n)) \in Nat
           /\ Cardinality(All(f, s, n))
                = Cardinality(Others(f, c, s, n)) + One(f[c], s, n)
<1>1. IsFiniteSet(Others(f, c, s, n))
  BY ConstantsAssumption, FS_Subset DEF Others
<1>2. c \notin Others(f, c, s, n)
  BY DEF Others
<1>3. Cardinality(Others(f, c, s, n)) \in Nat
  BY <1>1, FS_CardinalityType
<1>4. CASE Adds(f[c], s) = n
  <2>1. All(f, s, n) = Others(f, c, s, n) \cup {c}
    BY <1>4 DEF All, Others
  <2>2. Cardinality(Others(f, c, s, n) \cup {c})
          = Cardinality(Others(f, c, s, n)) + 1
    BY <1>1, <1>2, FS_AddElement
  <2> QED
    BY <1>3, <1>4, <2>1, <2>2 DEF One
<1>5. CASE Adds(f[c], s) # n
  <2>1. All(f, s, n) = Others(f, c, s, n)
    BY <1>5 DEF All, Others
  <2> QED
    BY <1>3, <1>5, <2>1 DEF One
<1> QED
  BY <1>4, <1>5

\* The balance of pending notifications at s.
Pending(f, s) == Cardinality(All(f, s, 1)) - Cardinality(All(f, s, -1))

\* Replacing the pending event of one caller moves the balance by the
\* difference of the two events.
LEMMA PendingMoves ==
    \A f, g, s : \A c \in Callers :
        (\A x \in Callers \ {c} : g[x] = f[x]) =>
            /\ Pending(f, s) \in Int
            /\ Pending(g, s) = Pending(f, s) + Adds(g[c], s) - Adds(f[c], s)
<1> SUFFICES ASSUME NEW f, NEW g, NEW s, NEW c \in Callers,
                    \A x \in Callers \ {c} : g[x] = f[x]
             PROVE  /\ Pending(f, s) \in Int
                    /\ Pending(g, s)
                         = Pending(f, s) + Adds(g[c], s) - Adds(f[c], s)
  OBVIOUS
<1>1. /\ Others(g, c, s, 1) = Others(f, c, s, 1)
      /\ Others(g, c, s, -1) = Others(f, c, s, -1)
  BY DEF Others
<1>2. /\ One(f[c], s, 1) - One(f[c], s, -1) = Adds(f[c], s)
      /\ One(g[c], s, 1) - One(g[c], s, -1) = Adds(g[c], s)
      /\ One(f[c], s, 1) \in Int /\ One(f[c], s, -1) \in Int
      /\ One(g[c], s, 1) \in Int /\ One(g[c], s, -1) \in Int
  BY AddsType DEF One
<1>3. /\ Cardinality(Others(f, c, s, 1)) \in Nat
      /\ Cardinality(Others(f, c, s, -1)) \in Nat
      /\ Cardinality(All(f, s, 1))
           = Cardinality(Others(f, c, s, 1)) + One(f[c], s, 1)
      /\ Cardinality(All(f, s, -1))
           = Cardinality(Others(f, c, s, -1)) + One(f[c], s, -1)
      /\ Cardinality(All(g, s, 1))
           = Cardinality(Others(g, c, s, 1)) + One(g[c], s, 1)
      /\ Cardinality(All(g, s, -1))
           = Cardinality(Others(g, c, s, -1)) + One(g[c], s, -1)
  BY CountApart
<1> QED
  BY <1>1, <1>2, <1>3 DEF Pending

\* The state the breaker is in, as the trail would have it.
Net(st, s) == (IF s = st THEN 1 ELSE 0) - (IF s = "closed" THEN 1 ELSE 0)

\* A caller that has nothing to notify owes nothing, and the trail with the
\* pending notifications adds up.
AuditInv ==
    /\ \A c \in Callers :
         pc[c] \notin {"notify", "notifyProbe"} => event[c] = NoEvent
    /\ \A s \in CircuitState : net[s] + Pending(event, s) = Net(state, s)

\* A transition from st to st' notified as such moves the trail alike.
LEMMA EventIsTransition ==
    ASSUME NEW from, NEW to, NEW s
    PROVE  Adds(Event(from, to), s) = Net(to, s) - Net(from, s)
  BY DEF Adds, Event, Net

\* A caller without an event adds nothing.
LEMMA NoEventAddsNothing ==
    ASSUME NEW s
    PROVE  Adds(NoEvent, s) = 0
  BY DEF Adds, NoEvent, Event

\* Nothing is pending at the start.
LEMMA AuditInit == Init => AuditInv
<1> SUFFICES ASSUME Init PROVE AuditInv
  OBVIOUS
<1>1. ASSUME NEW s \in CircuitState
      PROVE  net[s] + Pending(event, s) = Net(state, s)
  <2>1. All(event, s, 1) = {} /\ All(event, s, -1) = {}
    BY NoEventAddsNothing DEF Init, All
  <2>2. Cardinality({}) = 0
    BY FS_EmptySet
  <2>3. Pending(event, s) = 0
    BY <2>1, <2>2 DEF Pending
  <2> QED
    BY <2>3 DEF Init, Net
<1> QED
  BY <1>1 DEF AuditInv, Init

\* A step in which caller c, owing nothing, moves the breaker from state to
\* state' and takes the event of that move upon itself keeps the balance.
LEMMA TransitionBalances ==
    ASSUME TypeInv, AuditInv, NEW c \in Callers, NEW s \in CircuitState,
           event[c] = NoEvent,
           net' = net,
           \/ event' = [event EXCEPT ![c] = Event(state, state')]
           \/ event' = event /\ state' = state
    PROVE  net'[s] + Pending(event', s) = Net(state', s)
<1>1. \A x \in Callers \ {c} : event'[x] = event[x]
  BY DEF TypeInv, TypeOK
<1>2. /\ Pending(event, s) \in Int
      /\ Pending(event', s)
           = Pending(event, s) + Adds(event'[c], s) - Adds(event[c], s)
  BY <1>1, PendingMoves, Zenon
<1>3. Adds(event[c], s) = 0
  BY NoEventAddsNothing
<1>4. Adds(event'[c], s) = Net(state', s) - Net(state, s)
  <2>1. CASE event' = [event EXCEPT ![c] = Event(state, state')]
    BY <2>1, EventIsTransition DEF TypeInv, TypeOK
  <2>2. CASE event' = event /\ state' = state
    BY <1>3, <2>2 DEF Net
  <2> QED
    BY <2>1, <2>2
<1>5. net'[s] \in Int /\ net'[s] + Pending(event, s) = Net(state, s)
  BY DEF TypeInv, TypeOK, AuditInv
<1>6. Net(state, s) \in Int /\ Net(state', s) \in Int
  BY DEF Net
<1> QED
  BY <1>2, <1>3, <1>4, <1>5, <1>6

\* Every step keeps the trail and the pending notifications in balance.
LEMMA AuditStep == TypeInv /\ AuditInv /\ [Next]_vars => AuditInv'
<1> SUFFICES ASSUME TypeInv, AuditInv, [Next]_vars
             PROVE  AuditInv'
  OBVIOUS
<1>1. CASE Tick \/ RemoteChanges \/ UNCHANGED vars
  BY <1>1 DEF Tick, RemoteChanges, vars, cbVars, AuditInv
<1>2. ASSUME NEW c \in Callers, AllowPasses(c) \/ Answer(c) \/ Abandon(c)
      PROVE  AuditInv'
  BY <1>2 DEF AllowPasses, Answer, Abandon, cbVars, AuditInv, TypeInv, TypeOK
<1>3. ASSUME NEW c \in Callers,
             AllowProbes(c) \/ RecordSuccess(c) \/ RecordFailure(c)
      PROVE  AuditInv'
  <2>1. event[c] = NoEvent /\ net' = net
    BY <1>3 DEF AllowProbes, RecordSuccess, RecordFailure, AuditInv
  <2>2. \/ event' = [event EXCEPT ![c] = Event(state, state')]
        \/ event' = event /\ state' = state
    BY <1>3 DEF AllowProbes, RecordSuccess, RecordFailure, Opens
  <2>3. \A s \in CircuitState : net'[s] + Pending(event', s) = Net(state', s)
    BY <2>1, <2>2, TransitionBalances
  <2>4. \A x \in Callers :
          pc'[x] \notin {"notify", "notifyProbe"} => event'[x] = NoEvent
    BY <1>3, <2>1
    DEF AllowProbes, RecordSuccess, RecordFailure, AuditInv, TypeInv, TypeOK
  <2> QED
    BY <2>3, <2>4 DEF AuditInv
<1>4. ASSUME NEW c \in Callers, Notify(c)
      PROVE  AuditInv'
  <2>1. ASSUME NEW s \in CircuitState
        PROVE  net'[s] + Pending(event', s) = Net(state', s)
    <3>1. \A x \in Callers \ {c} : event'[x] = event[x]
      BY <1>4 DEF Notify, TypeInv, TypeOK
    <3>2. /\ Pending(event, s) \in Int
          /\ Pending(event', s)
               = Pending(event, s) + Adds(event'[c], s) - Adds(event[c], s)
      BY <3>1, PendingMoves, Zenon
    <3>3. event'[c] = NoEvent /\ state' = state
      BY <1>4 DEF Notify, TypeInv, TypeOK, cbVars
    <3>4. Adds(event'[c], s) = 0
      BY <3>3, NoEventAddsNothing
    <3>5. net'[s] = net[s] + Adds(event[c], s)
      BY <1>4 DEF Notify
    <3>6. net[s] \in Int /\ net[s] + Pending(event, s) = Net(state, s)
      BY DEF TypeInv, TypeOK, AuditInv
    <3>7. Adds(event[c], s) \in Int
      BY AddsType
    <3>8. Net(state', s) = Net(state, s)
      BY <3>3
    <3> QED
      BY <3>2, <3>4, <3>5, <3>6, <3>7, <3>8
  <2>2. \A x \in Callers :
          pc'[x] \notin {"notify", "notifyProbe"} => event'[x] = NoEvent
    BY <1>4 DEF Notify, AuditInv, TypeInv, TypeOK
  <2> QED
    BY <2>1, <2>2 DEF AuditInv
<1> QED
  BY <1>1, <1>2, <1>3, <1>4 DEF Next, Caller

\* For any number of callers, the audit trail of the breaker and the
\* notifications still on their way agree with the state it is in.
THEOREM AuditTrailAddsUp == Spec => []AuditTrailBalances
<1>1. TypeInv /\ AuditInv => AuditTrailBalances
  <2> SUFFICES ASSUME TypeInv, AuditInv, NEW s \in CircuitState
               PROVE  net[s] + Owing(s, 1) - Owing(s, -1) = Net(state, s)
    BY DEF AuditTrailBalances, Net
  <2>1. net[s] \in Int /\ net[s] + Pending(event, s) = Net(state, s)
    BY DEF TypeInv, TypeOK, AuditInv
  <2>2. Owing(s, 1) \in Nat /\ Owing(s, -1) \in Nat
    BY ConstantsAssumption, FS_Subset, FS_CardinalityType DEF Owing
  <2> QED
    BY <2>1, <2>2 DEF Pending, All, Owing
<1>2. Spec => [](TypeInv /\ AuditInv)
  BY TypeInit, TypeStep, AuditInit, AuditStep, PTL DEF Spec
<1> QED
  BY <1>1, <1>2, PTL
=============================================================================
