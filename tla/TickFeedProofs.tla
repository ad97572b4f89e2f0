--------------------------- MODULE TickFeedProofs ---------------------------
(* Proofs about TickFeed, for every capacity: the slot a popped pointer     *)
(* points into is stable, no tick vanishes, and the buffer is a bounded     *)
(* first-in-first-out queue.                                                *)
EXTENDS TickFeed, SequenceTheorems, TLAPS

\* The cyclic successor, without the modulus.
LEMMA SuccIs ==
    ASSUME NEW i \in Slots
    PROVE  /\ Succ(i) = IF i = Capacity - 1 THEN 0 ELSE i + 1
           /\ Succ(i) \in Slots
<1>1. CASE i = Capacity - 1
    BY <1>1, CapacityAssumption, SMTT(20) DEF Succ, Slots
<1>2. CASE i # Capacity - 1
    BY <1>2, CapacityAssumption, SMTT(20) DEF Succ, Slots
<1> QED BY <1>1, <1>2

-----------------------------------------------------------------------------
(* The inductive invariant.                                                *)

\* Steps from a to b around the ring.
Dist(a, b) == IF b >= a THEN b - a ELSE b + Capacity - a

Pushing == {"push", "check", "write", "store"}

\* What the pipeline knows of head.
ConsInv ==
    /\ cons.pc = "store" => cons.slot = head /\ head # tail
    /\ cons.pc = "use" => head = Succ(cons.slot)
    /\ cons.pc = "pop" => cons.drained < DrainMax
    /\ cons.pc = "store" => cons.drained < DrainMax

\* What a push knows although its head may be stale: head has moved at most
\* up to tail since it was loaded, so a slot found free stays free.
ProdInv ==
    /\ prod.pc = "check" => Dist(prod.head, head) <= Dist(prod.head, tail)
    /\ prod.pc \in {"write", "store"} => Succ(tail) # head
    /\ prod.pc \in Pushing => prod.tick = fed /\ fed > 0
    /\ prod.pc = "store" => ticks[tail] = prod.tick

IInv == TypeOK /\ ConsInv /\ ProdInv

LEMMA InitIInv == Init => IInv
<1> SUFFICES ASSUME Init PROVE IInv
    OBVIOUS
<1>1. 0 \in Slots /\ 0 \in 0 .. DrainMax /\ 0 \in 0 .. MaxTicks
    BY CapacityAssumption, BoundsAssumption DEF Slots
<1>2. TypeOK
    BY <1>1 DEF Init, TypeOK, NoTick
<1>3. ConsInv /\ ProdInv
    BY DEF Init, ConsInv, ProdInv, Pushing
<1> QED BY <1>2, <1>3 DEF IInv

\* Moving head one step towards tail keeps it between a stale head and tail.
LEMMA DistHead ==
    ASSUME NEW a \in Slots, NEW h \in Slots, NEW t \in Slots, h # t,
           Dist(a, h) <= Dist(a, t)
    PROVE  Dist(a, Succ(h)) <= Dist(a, t)
BY SuccIs, CapacityAssumption DEF Dist, Slots

LEMMA DistSelf ==
    ASSUME NEW h \in Slots, NEW t \in Slots
    PROVE  Dist(h, h) <= Dist(h, t)
BY CapacityAssumption DEF Dist, Slots

\* A slot that a stale head left free is free.
LEMMA StaleIsSafe ==
    ASSUME NEW a \in Slots, NEW h \in Slots, NEW t \in Slots,
           Dist(a, h) <= Dist(a, t), Succ(t) # a
    PROVE  Succ(t) # h
BY SuccIs, CapacityAssumption DEF Dist, Slots

LEMMA SuccInjective ==
    ASSUME NEW h \in Slots, NEW t \in Slots, h # t
    PROVE  Succ(h) # Succ(t)
BY SuccIs, CapacityAssumption DEF Slots

LEMMA ReadLoopIInv == IInv /\ ReadLoop => IInv'
<1> SUFFICES ASSUME IInv, ReadLoop PROVE IInv'
    OBVIOUS
<1> USE DEF IInv, TypeOK, ConsInv, ProdInv, Pushing, ring, ProdAt, Connect
<1>1. CASE FirstConnect BY <1>1 DEF FirstConnect
<1>2. CASE LoopTop BY <1>2 DEF LoopTop
<1>3. CASE ReadTick
  <2>1. fed + 1 \in 0 .. MaxTicks /\ fed + 1 > 0 /\ fed + 1 \in Nat
      BY <1>3, BoundsAssumption DEF ReadTick
  <2> QED BY <1>3, <2>1 DEF ReadTick
<1>4. CASE ReadGarbage BY <1>4 DEF ReadGarbage
<1>5. CASE ReadFails BY <1>5 DEF ReadFails
<1>6. CASE Reconnect BY <1>6 DEF Reconnect
<1> QED BY <1>1, <1>2, <1>3, <1>4, <1>5, <1>6 DEF ReadLoop

LEMMA PushIInv == IInv /\ Push => IInv'
<1> SUFFICES ASSUME IInv, Push PROVE IInv'
    OBVIOUS
<1> USE DEF IInv, TypeOK, ConsInv, ProdInv, Pushing, ring, ProdAt
<1>1. CASE PushLoadHead
  <2>1. Dist(head, head) <= Dist(head, tail)
      BY DistSelf
  <2>2. Dist(prod.head, head)' <= Dist(prod.head, tail)'
      BY <1>1, <2>1 DEF PushLoadHead
  <2> QED BY <1>1, <2>2 DEF PushLoadHead
<1>2. CASE PushFull
  <2>1. overflowCount + 1 \in Nat
      OBVIOUS
  <2> QED BY <1>2, <2>1 DEF PushFull
<1>3. CASE PushFits
  <2>1. Succ(tail) # head
      BY <1>3, StaleIsSafe DEF PushFits
  <2> QED BY <1>3, <2>1 DEF PushFits
<1>4. CASE PushWrite BY <1>4 DEF PushWrite
<1>5. CASE PushStoreTail
  <2>1. tail' \in Slots /\ tail' # head
      BY <1>5, SuccIs DEF PushStoreTail
  <2> QED BY <1>5, <2>1 DEF PushStoreTail
<1> QED BY <1>1, <1>2, <1>3, <1>4, <1>5 DEF Push

LEMMA DrainIInv == IInv /\ (TimerFires \/ RunReturns \/ Drain \/ Shutdown) => IInv'
<1> SUFFICES ASSUME IInv, TimerFires \/ RunReturns \/ Drain \/ Shutdown PROVE IInv'
    OBVIOUS
<1> USE DEF IInv, TypeOK, ConsInv, ProdInv, Pushing, ring, ConsAt
<1>1. CASE TimerFires
  <2>1. 0 \in 0 .. DrainMax /\ 0 < DrainMax
      BY BoundsAssumption
  <2> QED BY <1>1, <2>1 DEF TimerFires
<1>2. CASE RunReturns BY <1>2 DEF RunReturns
<1>3. CASE PopEmpty BY <1>3 DEF PopEmpty
<1>4. CASE PopSlot BY <1>4 DEF PopSlot
<1>5. CASE PopStoreHead
  <2>1. head' \in Slots
      BY <1>5, SuccIs DEF PopStoreHead
  <2>2. ConsInv'
      BY <1>5 DEF PopStoreHead
  <2>3. prod.pc = "check" => Dist(prod.head, head') <= Dist(prod.head, tail)
      BY <1>5, DistHead DEF PopStoreHead
  <2>4. prod.pc \in {"write", "store"} => Succ(tail) # head'
    <3>1. Succ(tail) # Succ(head)
        BY <1>5, SuccInjective DEF PopStoreHead
    <3> QED BY <1>5, <3>1 DEF PopStoreHead
  <2>5. ProdInv'
      BY <1>5, <2>3, <2>4 DEF PopStoreHead, Dist
  <2>6. cons.drained + 1 \in 0 .. DrainMax
      BY <1>5, BoundsAssumption DEF PopStoreHead
  <2>7. TypeOK'
      BY <1>5, <2>1, <2>6 DEF PopStoreHead
  <2> QED BY <2>2, <2>5, <2>7
<1>6. CASE UseTick
  <2>1. delivered' \in Seq(Nat)
      BY <1>6 DEF UseTick
  <2>2. cons.drained < DrainMax \/ cons.drained = DrainMax
      BY BoundsAssumption
  <2> QED BY <1>6, <2>1, <2>2 DEF UseTick
<1>7. CASE BroadcastBars BY <1>7 DEF BroadcastBars
<1>8. CASE Shutdown BY <1>8 DEF Shutdown
<1> QED BY <1>1, <1>2, <1>3, <1>4, <1>5, <1>6, <1>7, <1>8 DEF Drain

LEMMA Inductive == Spec => []IInv
<1>1. IInv /\ UNCHANGED vars => IInv'
    BY DEF IInv, TypeOK, ConsInv, ProdInv, vars, ring, Pushing, Dist, Succ
<1>2. IInv /\ [Next]_vars => IInv'
    BY <1>1, ReadLoopIInv, PushIInv, DrainIInv DEF Next
<1> QED BY InitIInv, <1>2, PTL DEF Spec

\* Type correctness: in particular head, tail and the popped slot are
\* indices of the buffer, whatever the capacity.
THEOREM TickFeedTypeOK == Spec => []TypeOK
<1>1. IInv => TypeOK
    BY DEF IInv
<1> QED BY Inductive, <1>1, PTL

\* The producer never writes the slot the pipeline is reading through the
\* pointer Pop returned: the one slot Push keeps empty is exactly that one.
THEOREM SlotIsStable == Spec => []PoppedTickIsStable
<1>1. IInv => PoppedTickIsStable
    BY SuccIs DEF IInv, TypeOK, ConsInv, ProdInv, PoppedTickIsStable
<1> QED BY Inductive, <1>1, PTL

-----------------------------------------------------------------------------
(* Accounting.                                                             *)

StoredOf(h, t) == IF t >= h THEN t - h ELSE t + Capacity - h

LEMMA StoredIs ==
    ASSUME NEW h \in Slots, NEW t \in Slots
    PROVE  /\ StoredOf(h, t) \in 0 .. Capacity - 1
           /\ Succ(t) # h => StoredOf(h, Succ(t)) = StoredOf(h, t) + 1
           /\ h # t => StoredOf(Succ(h), t) = StoredOf(h, t) - 1
           /\ Succ(t) = h <=> StoredOf(h, t) = Capacity - 1
           /\ h # t <=> StoredOf(h, t) # 0
BY SuccIs, CapacityAssumption DEF StoredOf, Slots

ProdHand == IF prod.pc \in Pushing THEN 1 ELSE 0
ConsHand == IF cons.pc = "use" THEN 1 ELSE 0
Accounted == fed = Len(delivered) + StoredOf(head, tail) + overflowCount + ProdHand + ConsHand

LEMMA AccountedStep ==
    ASSUME IInv, Accounted, [Next]_vars
    PROVE  Accounted'
<1> DEFINE L == Len(delivered)
           S == StoredOf(head, tail)
<1>1. L \in Nat /\ S \in Nat /\ overflowCount \in Nat /\ fed \in Nat
    BY StoredIs, CapacityAssumption DEF IInv, TypeOK
<1>2. fed = L + S + overflowCount + ProdHand + ConsHand
    BY DEF Accounted
<1>3. ProdHand \in {0, 1} /\ ConsHand \in {0, 1}
    BY DEF ProdHand, ConsHand
<1> HIDE DEF L, S
<1> SUFFICES fed' = L' + S' + overflowCount' + ProdHand' + ConsHand'
    BY DEF Accounted, L, S
<1>4. CASE UNCHANGED vars
    BY <1>2, <1>4 DEF vars, ring, L, S, StoredOf, ProdHand, ConsHand
<1>5. CASE ReadTick
  <2>1. ProdHand = 0 /\ ProdHand' = 1 /\ ConsHand' = ConsHand
      BY <1>5 DEF ReadTick, ProdHand, ConsHand, Pushing, IInv, TypeOK
  <2>2. L' = L /\ S' = S /\ overflowCount' = overflowCount /\ fed' = fed + 1
      BY <1>5 DEF ReadTick, ring, L, S, StoredOf
  <2> QED BY <1>1, <1>2, <1>3, <2>1, <2>2
<1>6. CASE PushFull
  <2>1. ProdHand = 1 /\ ProdHand' = 0 /\ ConsHand' = ConsHand
      BY <1>6 DEF PushFull, ProdAt, ProdHand, ConsHand, Pushing, IInv, TypeOK
  <2>2. L' = L /\ S' = S /\ overflowCount' = overflowCount + 1 /\ fed' = fed
      BY <1>6 DEF PushFull, L, S, StoredOf
  <2> QED BY <1>1, <1>2, <1>3, <2>1, <2>2
<1>7. CASE PushStoreTail
  <2>1. ProdHand = 1 /\ ProdHand' = 0 /\ ConsHand' = ConsHand
      BY <1>7 DEF PushStoreTail, ProdAt, ProdHand, ConsHand, Pushing, IInv, TypeOK
  <2>2. StoredOf(head, Succ(tail)) = StoredOf(head, tail) + 1
      BY <1>7, StoredIs DEF PushStoreTail, ProdAt, IInv, TypeOK, ProdInv
  <2>3. L' = L /\ S' = S + 1 /\ overflowCount' = overflowCount /\ fed' = fed
      BY <1>7, <2>2 DEF PushStoreTail, L, S, StoredOf
  <2> QED BY <1>1, <1>2, <1>3, <2>1, <2>3
<1>8. CASE PopStoreHead
  <2>1. ConsHand = 0 /\ ConsHand' = 1 /\ ProdHand' = ProdHand
      BY <1>8 DEF PopStoreHead, ProdHand, ConsHand, Pushing, IInv, TypeOK
  <2>2. StoredOf(Succ(head), tail) = StoredOf(head, tail) - 1
      BY <1>8, StoredIs DEF PopStoreHead, IInv, TypeOK, ConsInv
  <2>3. L' = L /\ S' = S - 1 /\ overflowCount' = overflowCount /\ fed' = fed
      BY <1>8, <2>2 DEF PopStoreHead, L, S, StoredOf
  <2> QED BY <1>1, <1>2, <1>3, <2>1, <2>3
<1>9. CASE UseTick
  <2>1. ConsHand = 1 /\ ConsHand' = 0 /\ ProdHand' = ProdHand
      BY <1>9 DEF UseTick, ConsAt, ProdHand, ConsHand, Pushing, IInv, TypeOK
  <2>2. L' = L + 1
      BY <1>9 DEF UseTick, L, IInv, TypeOK
  <2>3. S' = S /\ overflowCount' = overflowCount /\ fed' = fed
      BY <1>9 DEF UseTick, S, StoredOf, ring
  <2> QED BY <1>1, <1>2, <1>3, <2>1, <2>2, <2>3
<1>10. CASE FirstConnect \/ LoopTop \/ ReadGarbage \/ ReadFails \/ Reconnect
            \/ PushLoadHead \/ PushFits \/ PushWrite
            \/ TimerFires \/ RunReturns \/ PopEmpty \/ PopSlot \/ BroadcastBars \/ Shutdown
  <2>1. L' = L /\ S' = S /\ overflowCount' = overflowCount /\ fed' = fed
      BY <1>10 DEF FirstConnect, LoopTop, ReadGarbage, ReadFails, Reconnect, PushLoadHead,
                   PushFits, PushWrite, TimerFires, RunReturns, PopEmpty, PopSlot,
                   BroadcastBars, Shutdown, ring, L, S, StoredOf
  <2>2. ProdHand' = ProdHand
      BY <1>10 DEF FirstConnect, LoopTop, ReadGarbage, ReadFails, Reconnect, PushLoadHead,
                   PushFits, PushWrite, TimerFires, RunReturns, PopEmpty, PopSlot,
                   BroadcastBars, Shutdown, ProdAt, ProdHand, Pushing, IInv, TypeOK
  <2>3. ConsHand' = ConsHand
      BY <1>10 DEF FirstConnect, LoopTop, ReadGarbage, ReadFails, Reconnect, PushLoadHead,
                   PushFits, PushWrite, TimerFires, RunReturns, PopEmpty, PopSlot,
                   BroadcastBars, Shutdown, ConsAt, ConsHand, IInv, TypeOK
  <2> QED BY <1>1, <1>2, <2>1, <2>2, <2>3
<1> QED BY <1>4, <1>5, <1>6, <1>7, <1>8, <1>9, <1>10 DEF Next, ReadLoop, Push, Drain

\* Every tick read from the connection is delivered, stored, in the hands of
\* one thread, or counted as an overflow: nothing is lost silently and
\* nothing is duplicated.
THEOREM NoTickVanishes == Spec => []EveryTickAccounted
<1>1. Init => Accounted
    BY CapacityAssumption DEF Init, Accounted, StoredOf, ProdHand, ConsHand, Pushing
<1>2. IInv /\ Accounted /\ [Next]_vars => Accounted'
    BY AccountedStep
<1>3. IInv /\ Accounted => EveryTickAccounted
  <2> SUFFICES ASSUME IInv, Accounted PROVE EveryTickAccounted
      OBVIOUS
  <2>1. Stored = StoredOf(head, tail)
      BY DEF Stored, StoredOf
  <2> QED BY <2>1 DEF Accounted, EveryTickAccounted, ProdHand, ConsHand, Pushing
<1> QED BY Inductive, <1>1, <1>2, <1>3, PTL DEF Spec

-----------------------------------------------------------------------------
(* The buffer is a bounded queue.                                          *)

SlotIn(h, i) == IF h + i - 1 < Capacity THEN h + i - 1 ELSE h + i - 1 - Capacity
ContentsOf(h, t, tk) == [i \in 1 .. StoredOf(h, t) |-> tk[SlotIn(h, i)]]

\* The stored slots are those from head up to, and without, tail.
LEMMA SlotInIs ==
    ASSUME NEW h \in Slots, NEW t \in Slots, NEW i \in 1 .. StoredOf(h, t)
    PROVE  /\ SlotIn(h, i) \in Slots
           /\ SlotIn(h, i) # t
           /\ i > 1 => SlotIn(Succ(h), i - 1) = SlotIn(h, i)
           /\ i = 1 => SlotIn(h, i) = h
BY SuccIs, CapacityAssumption DEF StoredOf, SlotIn, Slots

LEMMA SlotInEnd ==
    ASSUME NEW h \in Slots, NEW t \in Slots
    PROVE  SlotIn(h, StoredOf(h, t) + 1) = t
BY CapacityAssumption DEF StoredOf, SlotIn, Slots

LEMMA ContentsSeq ==
    ASSUME NEW h \in Slots, NEW t \in Slots, NEW tk \in [Slots -> Nat]
    PROVE  /\ ContentsOf(h, t, tk) \in Seq(Nat)
           /\ Len(ContentsOf(h, t, tk)) = StoredOf(h, t)
           /\ \A i \in 1 .. StoredOf(h, t) : ContentsOf(h, t, tk)[i] = tk[SlotIn(h, i)]
<1> DEFINE n == StoredOf(h, t)
           c == ContentsOf(h, t, tk)
<1>1. n \in Nat
    BY StoredIs, CapacityAssumption
<1>2. \A i \in 1 .. n : tk[SlotIn(h, i)] \in Nat
    BY SlotInIs
<1>3. c \in [1 .. n -> Nat] /\ \A i \in 1 .. n : c[i] = tk[SlotIn(h, i)]
    BY <1>2 DEF ContentsOf
<1> HIDE DEF n, c
<1>4. c \in Seq(Nat) /\ Len(c) = n
    BY <1>1, <1>3
<1> QED BY <1>3, <1>4 DEF n, c

\* Storing tail appends the tick the producer has written there.
LEMMA ContentsPut ==
    ASSUME NEW h \in Slots, NEW t \in Slots, NEW tk \in [Slots -> Nat], Succ(t) # h
    PROVE  ContentsOf(h, Succ(t), tk) = Append(ContentsOf(h, t, tk), tk[t])
<1> DEFINE n == StoredOf(h, t)
           c == ContentsOf(h, t, tk)
           d == ContentsOf(h, Succ(t), tk)
           e == Append(c, tk[t])
<1>1. n \in Nat /\ Succ(t) \in Slots /\ StoredOf(h, Succ(t)) = n + 1
    BY StoredIs, SuccIs, CapacityAssumption
<1>2. c \in Seq(Nat) /\ Len(c) = n /\ \A i \in 1 .. n : c[i] = tk[SlotIn(h, i)]
    BY ContentsSeq
<1>3. d \in Seq(Nat) /\ Len(d) = n + 1 /\ \A i \in 1 .. n + 1 : d[i] = tk[SlotIn(h, i)]
    BY <1>1, ContentsSeq
<1>4. tk[t] \in Nat /\ SlotIn(h, n + 1) = t
    BY SlotInEnd
<1> HIDE DEF c, d, n
<1>5. e \in Seq(Nat) /\ Len(e) = n + 1 /\ e[n + 1] = tk[t] /\ \A i \in 1 .. n : e[i] = c[i]
    BY <1>1, <1>2, <1>4, AppendProperties
<1> HIDE DEF e
<1>6. \A i \in 1 .. n + 1 : d[i] = e[i]
  <2> SUFFICES ASSUME NEW i \in 1 .. n + 1 PROVE d[i] = e[i]
      OBVIOUS
  <2>1. CASE i = n + 1
      BY <1>3, <1>4, <1>5, <2>1
  <2>2. CASE i \in 1 .. n
      BY <1>2, <1>3, <1>5, <2>2
  <2> QED BY <1>1, <2>1, <2>2
<1>7. d = e
    BY <1>3, <1>5, <1>6, SeqEqual
<1> QED BY <1>7 DEF d, e, c

\* Storing head drops the oldest tick.
LEMMA ContentsTake ==
    ASSUME NEW h \in Slots, NEW t \in Slots, NEW tk \in [Slots -> Nat], h # t
    PROVE  /\ ContentsOf(h, t, tk) # <<>>
           /\ Head(ContentsOf(h, t, tk)) = tk[h]
           /\ ContentsOf(Succ(h), t, tk) = Tail(ContentsOf(h, t, tk))
<1> DEFINE n == StoredOf(h, t)
           c == ContentsOf(h, t, tk)
           d == ContentsOf(Succ(h), t, tk)
           e == Tail(c)
<1>1. n \in Nat /\ n # 0 /\ Succ(h) \in Slots /\ StoredOf(Succ(h), t) = n - 1
    BY StoredIs, SuccIs, CapacityAssumption
<1>2. c \in Seq(Nat) /\ Len(c) = n /\ \A i \in 1 .. n : c[i] = tk[SlotIn(h, i)]
    BY ContentsSeq
<1>3. d \in Seq(Nat) /\ Len(d) = n - 1 /\ \A i \in 1 .. n - 1 : d[i] = tk[SlotIn(Succ(h), i)]
    BY <1>1, ContentsSeq
<1>4. \A i \in 1 .. n : /\ i > 1 => SlotIn(Succ(h), i - 1) = SlotIn(h, i)
                        /\ i = 1 => SlotIn(h, i) = h
    BY SlotInIs
<1> HIDE DEF c, d, n
<1>5. c # <<>> /\ Head(c) = c[1]
    BY <1>1, <1>2
<1>6. e \in Seq(Nat) /\ Len(e) = n - 1 /\ \A i \in 1 .. n - 1 : e[i] = c[i + 1]
    BY <1>1, <1>2, <1>5, HeadTailProperties
<1>7. Head(c) = tk[h]
    BY <1>1, <1>2, <1>4, <1>5
<1> HIDE DEF e
<1>8. \A i \in 1 .. n - 1 : d[i] = e[i]
  <2> SUFFICES ASSUME NEW i \in 1 .. n - 1 PROVE d[i] = e[i]
      OBVIOUS
  <2>1. i + 1 \in 1 .. n /\ i + 1 > 1 /\ (i + 1) - 1 = i
      BY <1>1
  <2>2. SlotIn(Succ(h), i) = SlotIn(h, i + 1)
      BY <1>4, <2>1
  <2> QED BY <1>2, <1>3, <1>6, <2>1, <2>2
<1>9. d = e
    BY <1>3, <1>6, <1>8, SeqEqual
<1> QED BY <1>5, <1>7, <1>9 DEF d, e, c

\* The refinement mapping, written with the operators above.
ArrivedBar == IF Undecided THEN fed - 1 ELSE fed
LostBar == IF Rejected THEN overflowCount + 1 ELSE overflowCount
TakenBar == delivered \o InHand
QueueBar == ContentsOf(head, tail, ticks)
QueueStep == [Queue!Next]_<<ArrivedBar, QueueBar, TakenBar, LostBar>>

LEMMA ContentsIs == Contents = QueueBar /\ Contents' = QueueBar'
BY DEF Contents, QueueBar, ContentsOf, Stored, StoredOf, SlotOf, SlotIn

LEMMA MappedInit == Init => Queue!Init
<1> SUFFICES ASSUME Init PROVE Queue!Init
    OBVIOUS
<1>1. ~Undecided /\ ~Rejected /\ InHand = <<>>
    BY DEF Init, Undecided, Rejected, InHand
<1>2. Stored = 0
    BY DEF Init, Stored
<1>3. Contents = <<>>
    BY <1>2 DEF Contents
<1> QED BY <1>1, <1>3 DEF Init, Queue!Init

\* Deciding that the buffer is full, when head is loaded, loses a tick.
LEMMA MappedLoad ==
    ASSUME IInv, PushLoadHead
    PROVE  QueueStep
<1> USE DEF IInv, TypeOK
<1>1. QueueBar' = QueueBar /\ TakenBar' = TakenBar
    BY DEF PushLoadHead, ring, QueueBar, TakenBar, InHand, ContentsOf, StoredOf, SlotIn
<1>2. Undecided /\ ~Rejected /\ fed \in Nat /\ fed > 0
    BY DEF PushLoadHead, Undecided, Rejected, ProdInv, Pushing
<1>3. Rejected' <=> Succ(tail) = head
    BY DEF PushLoadHead, ring, Rejected
<1>4. CASE Succ(tail) = head
  <2>1. ~Undecided'
      BY <1>3, <1>4 DEF Undecided
  <2>2. ArrivedBar = fed - 1 /\ ArrivedBar' = fed /\ LostBar' = LostBar + 1
      BY <1>2, <1>3, <1>4, <2>1 DEF PushLoadHead, ring, ArrivedBar, LostBar
  <2>3. Len(QueueBar) = Capacity - 1
    <3>1. StoredOf(head, tail) = Capacity - 1
        BY <1>4, StoredIs
    <3>2. Len(QueueBar) = StoredOf(head, tail)
        BY ContentsSeq DEF QueueBar
    <3> QED BY <3>1, <3>2
  <2>4. Queue!Lose
      BY <1>1, <1>2, <2>2, <2>3, ContentsIs DEF Queue!Lose, ArrivedBar, LostBar, TakenBar
  <2> QED BY <2>4 DEF QueueStep, Queue!Next
<1>5. CASE Succ(tail) # head
  <2>1. Undecided'
      BY <1>3, <1>5 DEF Undecided, PushLoadHead
  <2>2. ArrivedBar' = ArrivedBar /\ LostBar' = LostBar
      BY <1>2, <1>3, <1>5, <2>1 DEF PushLoadHead, ring, ArrivedBar, LostBar
  <2> QED BY <1>1, <2>2 DEF QueueStep
<1> QED BY <1>4, <1>5

\* Storing tail puts the tick.
LEMMA MappedPut ==
    ASSUME IInv, PushStoreTail
    PROVE  QueueStep
<1> USE DEF IInv, TypeOK
<1>1. TakenBar' = TakenBar
    BY DEF PushStoreTail, TakenBar, InHand
<1>2. Undecided /\ ~Rejected /\ ~Undecided' /\ ~Rejected' /\ fed \in Nat
    BY DEF PushStoreTail, ProdAt, Undecided, Rejected
<1>3. ArrivedBar = fed - 1 /\ ArrivedBar' = ArrivedBar + 1 /\ LostBar' = LostBar
    BY <1>2 DEF PushStoreTail, ArrivedBar, LostBar
<1>4. Succ(tail) # head /\ ticks[tail] = fed
    BY DEF PushStoreTail, ProdAt, ProdInv, Pushing
<1>5. Len(QueueBar) < Capacity - 1
  <2>1. StoredOf(head, tail) \in 0 .. Capacity - 1 /\ StoredOf(head, tail) # Capacity - 1
      BY <1>4, StoredIs
  <2>2. Len(QueueBar) = StoredOf(head, tail)
      BY ContentsSeq DEF QueueBar
  <2> QED BY <2>1, <2>2, CapacityAssumption
<1>6. QueueBar' = Append(QueueBar, ticks[tail])
  <2>1. QueueBar' = ContentsOf(head, Succ(tail), ticks)
      BY DEF PushStoreTail, QueueBar, ContentsOf, StoredOf, SlotIn
  <2> QED BY <1>4, <2>1, ContentsPut DEF QueueBar
<1>7. ArrivedBar + 1 = ticks[tail]
    BY <1>2, <1>3, <1>4
<1>8. Queue!Put
    BY <1>1, <1>3, <1>5, <1>6, <1>7, ContentsIs DEF Queue!Put, ArrivedBar, LostBar, TakenBar
<1> QED BY <1>8 DEF QueueStep, Queue!Next

\* Storing head takes the oldest tick, which is still in its slot.
LEMMA MappedTake ==
    ASSUME IInv, PopStoreHead
    PROVE  QueueStep
<1> USE DEF IInv, TypeOK
<1>1. ArrivedBar' = ArrivedBar /\ LostBar' = LostBar
    BY DEF PopStoreHead, ArrivedBar, LostBar, Undecided, Rejected, Succ
<1>2. head # tail /\ cons.slot = head
    BY DEF PopStoreHead, ConsInv
<1>3. InHand = <<>> /\ InHand' = <<ticks[head]>>
    BY <1>2 DEF PopStoreHead, InHand
<1>4. TakenBar = delivered /\ TakenBar' = Append(delivered, ticks[head])
    BY <1>3 DEF TakenBar, PopStoreHead
<1>5. QueueBar' = ContentsOf(Succ(head), tail, ticks)
    BY DEF PopStoreHead, QueueBar, ContentsOf, StoredOf, SlotIn
<1>6. QueueBar # <<>> /\ QueueBar' = Tail(QueueBar) /\ Head(QueueBar) = ticks[head]
    BY <1>2, <1>5, ContentsTake DEF QueueBar
<1>7. Queue!Take
    BY <1>1, <1>4, <1>6, ContentsIs DEF Queue!Take, ArrivedBar, LostBar, TakenBar
<1> QED BY <1>7 DEF QueueStep, Queue!Next

\* Every other step leaves the queue alone.
LEMMA MappedStutter ==
    ASSUME IInv, [Next]_vars, ~PushLoadHead, ~PushStoreTail, ~PopStoreHead
    PROVE  UNCHANGED <<ArrivedBar, QueueBar, TakenBar, LostBar>>
<1> USE DEF IInv, TypeOK
<1> USE DEF ArrivedBar, LostBar, TakenBar, QueueBar, Undecided, Rejected
<1>1. CASE UNCHANGED vars
    BY <1>1 DEF vars, ring, InHand, ContentsOf, StoredOf, SlotIn, Succ
<1>2. CASE FirstConnect \/ LoopTop \/ ReadGarbage \/ ReadFails \/ Reconnect
    BY <1>2 DEF FirstConnect, LoopTop, ReadGarbage, ReadFails, Reconnect, ProdAt, ring,
                InHand, ContentsOf, StoredOf, SlotIn, Succ
<1>3. CASE ReadTick
    BY <1>3 DEF ReadTick, ring, InHand, ContentsOf, StoredOf, SlotIn
<1>4. CASE PushFull \/ PushFits
    BY <1>4 DEF PushFull, PushFits, ProdAt, ring, InHand, ContentsOf, StoredOf, SlotIn, Succ
<1>5. CASE PushWrite
  <2>1. ContentsOf(head, tail, ticks') = ContentsOf(head, tail, ticks)
    <3>1. \A i \in Slots : i # tail => ticks'[i] = ticks[i]
        BY <1>5 DEF PushWrite
    <3>2. \A i \in 1 .. StoredOf(head, tail) : SlotIn(head, i) \in Slots /\ SlotIn(head, i) # tail
        BY SlotInIs
    <3>3. \A i \in 1 .. StoredOf(head, tail) : ticks'[SlotIn(head, i)] = ticks[SlotIn(head, i)]
        BY <3>1, <3>2
    <3> QED BY <3>3 DEF ContentsOf
  <2>2. QueueBar' = QueueBar
      BY <1>5, <2>1 DEF PushWrite, ContentsOf, StoredOf, SlotIn
  <2>3. cons.pc = "use" => ticks'[cons.slot] = ticks[cons.slot]
      BY <1>5, SuccIs DEF PushWrite, ConsInv, ProdInv, ProdAt
  <2>4. InHand' = InHand
      BY <1>5, <2>3 DEF PushWrite, InHand
  <2> QED BY <1>5, <2>2, <2>4 DEF PushWrite, ProdAt, Succ
<1>6. CASE TimerFires \/ RunReturns \/ PopEmpty \/ PopSlot \/ BroadcastBars \/ Shutdown
    BY <1>6 DEF TimerFires, RunReturns, PopEmpty, PopSlot, BroadcastBars, Shutdown, ConsAt,
                ring, InHand, ContentsOf, StoredOf, SlotIn, Succ
<1>7. CASE UseTick
  <2>1. InHand = <<ticks[cons.slot]>> /\ InHand' = <<>>
      BY <1>7 DEF UseTick, ConsAt, InHand
  <2>2. delivered' = Append(delivered, ticks[cons.slot]) /\ delivered' \in Seq(Nat)
      BY <1>7 DEF UseTick
  <2>3. TakenBar' = TakenBar
      BY <2>1, <2>2, ConcatEmptySeq, AppendIsConcat
  <2> QED BY <1>7, <2>3 DEF UseTick, ring, ContentsOf, StoredOf, SlotIn, Succ
<1> QED BY <1>1, <1>2, <1>3, <1>4, <1>5, <1>6, <1>7 DEF Next, ReadLoop, Push, Drain

\* The lock-free buffer, with its stale loads and the read through a pointer
\* into a slot already given back, implements the bounded queue, for every
\* capacity.
THEOREM RingIsFIFO == Spec => IsFIFO
<1>1. IInv /\ [Next]_vars => QueueStep
    BY MappedLoad, MappedPut, MappedTake, MappedStutter DEF QueueStep
<1>2. QueueStep => [Queue!Next]_<<IF Undecided THEN fed - 1 ELSE fed, Contents,
                                  delivered \o InHand,
                                  IF Rejected THEN overflowCount + 1 ELSE overflowCount>>
  <2> SUFFICES ASSUME QueueStep, ~Queue!Next
               PROVE  UNCHANGED <<IF Undecided THEN fed - 1 ELSE fed, Contents,
                                  delivered \o InHand,
                                  IF Rejected THEN overflowCount + 1 ELSE overflowCount>>
      OBVIOUS
  <2>1. UNCHANGED <<ArrivedBar, QueueBar, TakenBar, LostBar>>
      BY DEF QueueStep
  <2> QED BY <2>1, ContentsIs DEF ArrivedBar, LostBar, TakenBar
<1> QED BY Inductive, MappedInit, <1>1, <1>2, PTL DEF Spec, IsFIFO, Queue!Spec
=============================================================================
