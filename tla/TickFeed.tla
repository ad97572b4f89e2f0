------------------------------ MODULE TickFeed ------------------------------
(* The path of a market tick through the server: the WebSocket client's     *)
(* read loop (ingest/ws_client.go) pushes into the ring buffer              *)
(* (ingest/ring_buffer.go), and the data pipeline (monitor/datapipeline.go) *)
(* drains it on a timer. One goroutine pushes, one pops, and the buffer has *)
(* no lock: head, tail and the slots are shared, and every load or store of *)
(* the code is a step of its own here. A tick is its number in the stream.  *)
EXTENDS Naturals, Sequences

CONSTANTS
    Capacity,    \* slots of the buffer, a power of two
    DrainMax,    \* ticks one drain may pop (1000 in the code)
    MaxTicks     \* bound: ticks the exchange sends

ASSUME CapacityAssumption == Capacity \in Nat \ {0}
ASSUME BoundsAssumption == DrainMax \in Nat \ {0} /\ MaxTicks \in Nat

NoTick == 0
Slots == 0 .. Capacity - 1

VARIABLES
    head, tail,       \* rb.head, rb.tail
    ticks,            \* rb.ticks
    overflowCount,    \* rb.overflowCount
    conn,             \* the connection: "none", "up", "mute" (not subscribed), "down"
    prod,             \* the read loop: [pc, tick, head]
    cons,             \* the pipeline: [pc, slot, drained]
    fed,              \* ticks read from the connection so far
    delivered,        \* history: the ticks the pipeline has worked on
    stopped           \* the server's context is cancelled

ring == <<head, tail, ticks, overflowCount>>
vars == <<ring, conn, prod, cons, fed, delivered, stopped>>

Succ(i) == (i + 1) % Capacity

Init ==
    /\ head = 0 /\ tail = 0 /\ ticks = [i \in Slots |-> NoTick]
    /\ overflowCount = 0
    /\ conn = "none"
    /\ prod = [pc |-> "connect", tick |-> NoTick, head |-> 0]
    /\ cons = [pc |-> "wait", slot |-> 0, drained |-> 0]
    /\ fed = 0 /\ delivered = <<>> /\ stopped = FALSE

-----------------------------------------------------------------------------
(* The read loop.                                                          *)

ProdAt(here, there) == prod.pc = here /\ prod' = [prod EXCEPT !.pc = there]

\* Connect: the dial fails and the client keeps the connection it had, the
\* dial succeeds but the subscription cannot be sent, or all is well.
Connect ==
    \/ UNCHANGED conn
    \/ conn' = "mute"
    \/ conn' = "up"

\* The first connection is tried once: without it the loop never starts.
FirstConnect ==
    /\ prod.pc = "connect"
    /\ Connect
    /\ prod' = [prod EXCEPT !.pc = IF conn' = "up" THEN "top" ELSE "done"]
    /\ UNCHANGED <<ring, cons, fed, delivered, stopped>>

LoopTop ==
    /\ ProdAt("top", IF stopped THEN "done" ELSE "read")
    /\ UNCHANGED <<ring, conn, cons, fed, delivered, stopped>>

ReadTick ==
    /\ prod.pc = "read" /\ conn = "up" /\ fed < MaxTicks
    /\ fed' = fed + 1
    /\ prod' = [prod EXCEPT !.pc = "push", !.tick = fed + 1]
    /\ UNCHANGED <<ring, conn, cons, delivered, stopped>>

\* A message that is no tick is skipped.
ReadGarbage ==
    /\ conn \in {"up", "mute"} /\ ProdAt("read", "top")
    /\ UNCHANGED <<ring, conn, cons, fed, delivered, stopped>>

ReadFails ==
    /\ ProdAt("read", "backoff")
    /\ conn' = "down"
    /\ UNCHANGED <<ring, cons, fed, delivered, stopped>>

Reconnect ==
    /\ ProdAt("backoff", "top")
    /\ Connect
    /\ UNCHANGED <<ring, cons, fed, delivered, stopped>>

\* Push. Only this goroutine stores tail, so its load of tail reads the
\* present one; head may move after it was loaded.
PushLoadHead ==
    /\ prod.pc = "push"
    /\ prod' = [prod EXCEPT !.pc = "check", !.head = head]
    /\ UNCHANGED <<ring, conn, cons, fed, delivered, stopped>>

\* Mutant: a dropped tick is not counted.
PushFullUncounted ==
    /\ Succ(tail) = prod.head
    /\ ProdAt("check", "top")
    /\ UNCHANGED <<ring, conn, cons, fed, delivered, stopped>>

PushFull ==
    /\ Succ(tail) = prod.head
    /\ ProdAt("check", "top")
    /\ overflowCount' = overflowCount + 1
    /\ UNCHANGED <<head, tail, ticks, conn, cons, fed, delivered, stopped>>

PushFits ==
    /\ Succ(tail) # prod.head
    /\ ProdAt("check", "write")
    /\ UNCHANGED <<ring, conn, cons, fed, delivered, stopped>>

\* Mutant: the tick is written one slot too far.
PushWriteNext ==
    /\ ProdAt("write", "store")
    /\ ticks' = [ticks EXCEPT ![Succ(tail)] = prod.tick]
    /\ UNCHANGED <<head, tail, overflowCount, conn, cons, fed, delivered, stopped>>

PushWrite ==
    /\ ProdAt("write", "store")
    /\ ticks' = [ticks EXCEPT ![tail] = prod.tick]
    /\ UNCHANGED <<head, tail, overflowCount, conn, cons, fed, delivered, stopped>>

PushStoreTail ==
    /\ ProdAt("store", "top")
    /\ tail' = Succ(tail)
    /\ UNCHANGED <<head, ticks, overflowCount, conn, cons, fed, delivered, stopped>>

Push == PushLoadHead \/ PushFull \/ PushFits \/ PushWrite \/ PushStoreTail
ReadLoop == FirstConnect \/ LoopTop \/ ReadTick \/ ReadGarbage \/ ReadFails \/ Reconnect

-----------------------------------------------------------------------------
(* The pipeline: Run and drainAndBroadcast.                                *)

ConsAt(here, there) == cons.pc = here /\ cons' = [cons EXCEPT !.pc = there]

TimerFires ==
    /\ cons.pc = "wait"
    /\ cons' = [cons EXCEPT !.pc = "pop", !.drained = 0]
    /\ UNCHANGED <<ring, conn, prod, fed, delivered, stopped>>

RunReturns ==
    /\ stopped /\ ConsAt("wait", "done")
    /\ UNCHANGED <<ring, conn, prod, fed, delivered, stopped>>

\* Pop. Only this goroutine stores head.
PopEmpty ==
    /\ head = tail /\ ConsAt("pop", "bars")
    /\ UNCHANGED <<ring, conn, prod, fed, delivered, stopped>>

PopSlot ==
    /\ cons.pc = "pop" /\ head # tail
    /\ cons' = [cons EXCEPT !.pc = "store", !.slot = head]
    /\ UNCHANGED <<ring, conn, prod, fed, delivered, stopped>>

\* Pop returns a pointer into the slot, which it has just given back.
PopStoreHead ==
    /\ cons.pc = "store"
    /\ head' = Succ(head)
    /\ cons' = [cons EXCEPT !.pc = "use", !.drained = @ + 1]
    /\ UNCHANGED <<tail, ticks, overflowCount, conn, prod, fed, delivered, stopped>>

\* The body of the drain loop reads the tick through that pointer.
UseTick ==
    /\ ConsAt("use", IF cons.drained < DrainMax THEN "pop" ELSE "bars")
    /\ delivered' = Append(delivered, ticks[cons.slot])
    /\ UNCHANGED <<ring, conn, prod, fed, stopped>>

\* Mutant: Run returns after its first drain.
BroadcastBarsOnce ==
    /\ ConsAt("bars", "done")
    /\ UNCHANGED <<ring, conn, prod, fed, delivered, stopped>>

BroadcastBars ==
    /\ ConsAt("bars", "wait")
    /\ UNCHANGED <<ring, conn, prod, fed, delivered, stopped>>

Drain == PopEmpty \/ PopSlot \/ PopStoreHead \/ UseTick \/ BroadcastBars

-----------------------------------------------------------------------------
Shutdown ==
    /\ ~stopped /\ stopped' = TRUE
    /\ UNCHANGED <<ring, conn, prod, cons, fed, delivered>>

Next == ReadLoop \/ Push \/ TimerFires \/ RunReturns \/ Drain \/ Shutdown

Spec == Init /\ [][Next]_vars

\* A push and a drain that have begun are finished, and the 50 ms timer
\* fires; nothing is assumed of the exchange or of the connection.
FairSpec == Spec /\ WF_vars(Push) /\ WF_vars(Drain) /\ WF_vars(TimerFires)

-----------------------------------------------------------------------------
(* The buffer as a queue.                                                  *)

\* Number of stored ticks, and the slot of the i-th of them.
Stored == IF tail >= head THEN tail - head ELSE tail + Capacity - head
SlotOf(i) == IF head + i - 1 < Capacity THEN head + i - 1 ELSE head + i - 1 - Capacity
Contents == [i \in 1 .. Stored |-> ticks[SlotOf(i)]]

\* A push that found the buffer full when it loaded head, or has yet to.
Rejected == prod.pc = "check" /\ Succ(tail) = prod.head
Undecided == prod.pc \in {"push", "check", "write", "store"} /\ ~Rejected

InHand == IF cons.pc = "use" THEN <<ticks[cons.slot]>> ELSE <<>>

Queue == INSTANCE BoundedFIFO WITH
            Room <- Capacity - 1,
            arrived <- IF Undecided THEN fed - 1 ELSE fed,
            queue <- Contents,
            taken <- delivered \o InHand,
            lost <- IF Rejected THEN overflowCount + 1 ELSE overflowCount

-----------------------------------------------------------------------------
(* Properties.                                                             *)

\* Type correctness of the buffer and its two threads.
TypeOK ==
    /\ head \in Slots /\ tail \in Slots
    /\ ticks \in [Slots -> Nat] /\ overflowCount \in Nat
    /\ conn \in {"none", "up", "mute", "down"}
    /\ prod \in [pc : {"connect", "top", "read", "backoff", "push", "check", "write",
                       "store", "done"}, tick : Nat, head : Slots]
    /\ cons \in [pc : {"wait", "pop", "store", "use", "bars", "done"}, slot : Slots,
                 drained : 0 .. DrainMax]
    /\ fed \in 0 .. MaxTicks /\ delivered \in Seq(Nat) /\ stopped \in BOOLEAN

\* While the pipeline works through the pointer Pop gave it, Push never
\* writes that slot, although head has already moved past it: the slot Push
\* keeps empty is the one being read.
PoppedTickIsStable ==
    cons.pc \in {"store", "use"} /\ prod.pc \in {"write", "store"} => tail # cons.slot

\* No tick vanishes and none is taken twice: what was read from the
\* connection is delivered, stored, in the hands of one of the two threads, or
\* counted by overflowCount.
EveryTickAccounted ==
    fed = Len(delivered) + Stored + overflowCount
             + (IF prod.pc \in {"push", "check", "write", "store"} THEN 1 ELSE 0)
             + (IF cons.pc = "use" THEN 1 ELSE 0)

\* The lock-free buffer with its stale loads and its late read through the
\* pointer implements the bounded queue.
IsFIFO == Queue!Spec

\* A stored tick reaches the pipeline unless the server is shut down, however
\* the exchange and the connection behave.
StoredIsDelivered ==
    \A t \in 1 .. MaxTicks :
        (\E i \in 1 .. Stored : Contents[i] = t)
            ~> (stopped \/ \E i \in DOMAIN delivered : delivered[i] = t)
=============================================================================
