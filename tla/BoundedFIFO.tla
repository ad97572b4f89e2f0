---------------------------- MODULE BoundedFIFO ----------------------------
(* What the tick buffer promises its two threads: the ticks that arrive,    *)
(* numbered in the order of their arrival, are either stored or, only when  *)
(* Room ticks are waiting, lost and counted; the stored ones are taken in   *)
(* that order, each exactly once.                                           *)
EXTENDS Naturals, Sequences

CONSTANT Room

VARIABLES arrived, queue, taken, lost

Init == arrived = 0 /\ queue = <<>> /\ taken = <<>> /\ lost = 0

Put ==
    /\ Len(queue) < Room
    /\ arrived' = arrived + 1
    /\ queue' = Append(queue, arrived + 1)
    /\ UNCHANGED <<taken, lost>>

Lose ==
    /\ Len(queue) = Room
    /\ arrived' = arrived + 1
    /\ lost' = lost + 1
    /\ UNCHANGED <<queue, taken>>

Take ==
    /\ queue # <<>>
    /\ queue' = Tail(queue)
    /\ taken' = Append(taken, Head(queue))
    /\ UNCHANGED <<arrived, lost>>

Next == Put \/ Lose \/ Take

Spec == Init /\ [][Next]_<<arrived, queue, taken, lost>>
=============================================================================
