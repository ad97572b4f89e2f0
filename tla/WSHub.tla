------------------------------- MODULE WSHub -------------------------------
(* The WebSocket hub (monitor/ws_hub.go): producers put messages into a     *)
(* bounded broadcast channel, one goroutine copies each message into the    *)
(* send channel of every registered client and cuts off a client whose      *)
(* channel is full, and every client has a goroutine that writes to its     *)
(* connection and one that waits for it to fail. A message is its number    *)
(* among those the broadcast channel accepted. Sending on a closed channel  *)
(* and closing one twice would end the server.                              *)
EXTENDS Naturals, Sequences, FiniteSets

CONSTANTS
    Clients,        \* connections, each used once
    BroadcastCap,   \* capacity of hub.broadcast (1024)
    SendCap,        \* capacity of client.send (256)
    MaxMessages     \* bound: messages accepted for broadcast

ASSUME CapsAssumption ==
    BroadcastCap \in Nat \ {0} /\ SendCap \in Nat \ {0} /\ MaxMessages \in Nat

VARIABLES
    broadcast,   \* the broadcast channel
    accepted,    \* number of messages it has accepted
    clients,     \* hub.clients
    todo,        \* clients the hub has yet to copy its current message to
    message,     \* that message
    send,        \* send[c]: the client's channel
    closed,      \* closed[c]: the channel is closed
    conn,        \* conn[c]: "up", "failed" (by the peer), "closed" (by the server)
    reader,      \* reader[c]: readPump
    writer,      \* writer[c]: writePump
    last         \* last[c]: last message handed to the connection; at first the
                 \* last one the hub had copied when the client registered

hub == <<broadcast, accepted, clients, todo, message>>
pumps == <<conn, reader, writer, last>>
hubVars == <<hub, send, closed, pumps>>

HubInit ==
    /\ broadcast = <<>> /\ accepted = 0 /\ clients = {} /\ todo = {} /\ message = 0
    /\ send = [c \in Clients |-> <<>>]
    /\ closed = [c \in Clients |-> FALSE]
    /\ conn = [c \in Clients |-> "up"]
    /\ reader = [c \in Clients |-> "none"]
    /\ writer = [c \in Clients |-> "none"]
    /\ last = [c \in Clients |-> 0]

\* Messages the hub has taken from the broadcast channel.
Taken == accepted - Len(broadcast)

-----------------------------------------------------------------------------
(* Producers.                                                              *)

\* Broadcast. A message that finds the channel full is dropped before it has
\* a number, and changes nothing.
Broadcast ==
    /\ accepted < MaxMessages
    /\ Len(broadcast) < BroadcastCap
    /\ accepted' = accepted + 1
    /\ broadcast' = Append(broadcast, accepted + 1)
    /\ UNCHANGED <<clients, todo, message, send, closed, pumps>>

-----------------------------------------------------------------------------
(* The hub: run. It selects only when it has no message to copy.           *)

Selects == todo = {}

Register(c) ==
    /\ Selects /\ reader[c] = "none"
    /\ clients' = clients \cup {c}
    /\ reader' = [reader EXCEPT ![c] = "read"]
    /\ writer' = [writer EXCEPT ![c] = "range"]
    /\ last' = [last EXCEPT ![c] = Taken]
    /\ UNCHANGED <<broadcast, accepted, todo, message, send, closed, conn>>

Unregister(c) ==
    /\ Selects /\ reader[c] = "unregister"
    /\ reader' = [reader EXCEPT ![c] = "close"]
    /\ clients' = clients \ {c}
    /\ closed' = IF c \in clients THEN [closed EXCEPT ![c] = TRUE] ELSE closed
    /\ UNCHANGED <<broadcast, accepted, todo, message, send, conn, writer, last>>

TakeMessage ==
    /\ Selects /\ broadcast # <<>>
    /\ message' = Head(broadcast)
    /\ broadcast' = Tail(broadcast)
    /\ todo' = clients
    /\ UNCHANGED <<accepted, clients, send, closed, pumps>>

CopyMessage(c) ==
    /\ c \in todo /\ Len(send[c]) < SendCap
    /\ send' = [send EXCEPT ![c] = Append(@, message)]
    /\ todo' = todo \ {c}
    /\ UNCHANGED <<broadcast, accepted, clients, message, closed, pumps>>

\* Mutants: the channel is closed but the client not removed; the message is
\* left out for a slow client; the hub waits until there is room.
CutClientKeeps(c) ==
    /\ c \in todo /\ Len(send[c]) >= SendCap
    /\ closed' = [closed EXCEPT ![c] = TRUE]
    /\ todo' = todo \ {c}
    /\ UNCHANGED <<broadcast, accepted, clients, message, send, pumps>>

CutClientSkips(c) ==
    /\ c \in todo /\ Len(send[c]) >= SendCap
    /\ todo' = todo \ {c}
    /\ UNCHANGED <<broadcast, accepted, clients, message, send, closed, pumps>>

CutClientWaits(c) ==
    /\ c \in todo /\ Len(send[c]) < SendCap
    /\ UNCHANGED hubVars

\* A full channel: the client is removed and its channel closed.
CutClient(c) ==
    /\ c \in todo /\ Len(send[c]) >= SendCap
    /\ clients' = clients \ {c}
    /\ closed' = [closed EXCEPT ![c] = TRUE]
    /\ todo' = todo \ {c}
    /\ UNCHANGED <<broadcast, accepted, message, send, pumps>>

-----------------------------------------------------------------------------
(* A client's goroutines.                                                  *)

PeerFails(c) ==
    /\ conn[c] = "up" /\ reader[c] # "none"
    /\ conn' = [conn EXCEPT ![c] = "failed"]
    /\ UNCHANGED <<hub, send, closed, reader, writer, last>>

\* Mutant: readPump closes the connection and forgets to unregister.
ReadFailsSilently(c) ==
    /\ reader[c] = "read" /\ conn[c] # "up"
    /\ reader' = [reader EXCEPT ![c] = "close"]
    /\ UNCHANGED <<hub, send, closed, conn, writer, last>>

ReadFails(c) ==
    /\ reader[c] = "read" /\ conn[c] # "up"
    /\ reader' = [reader EXCEPT ![c] = "unregister"]
    /\ UNCHANGED <<hub, send, closed, conn, writer, last>>

ReaderCloses(c) ==
    /\ reader[c] = "close"
    /\ reader' = [reader EXCEPT ![c] = "done"]
    /\ conn' = [conn EXCEPT ![c] = "closed"]
    /\ UNCHANGED <<hub, send, closed, writer, last>>

WriterTakes(c) ==
    /\ writer[c] = "range" /\ send[c] # <<>>
    /\ writer' = [writer EXCEPT ![c] = "write"]
    /\ last' = [last EXCEPT ![c] = Head(send[c])]
    /\ send' = [send EXCEPT ![c] = Tail(@)]
    /\ UNCHANGED <<hub, closed, conn, reader>>

\* A write to a connection the peer has left may go unnoticed.
WriteSucceeds(c) ==
    /\ writer[c] = "write" /\ conn[c] # "closed"
    /\ writer' = [writer EXCEPT ![c] = "range"]
    /\ UNCHANGED <<hub, send, closed, conn, reader, last>>

WriterCloses(c) ==
    /\ \/ writer[c] = "write" /\ conn[c] # "up"
       \/ writer[c] = "range" /\ send[c] = <<>> /\ closed[c]
    /\ writer' = [writer EXCEPT ![c] = "done"]
    /\ conn' = [conn EXCEPT ![c] = "closed"]
    /\ UNCHANGED <<hub, send, closed, reader, last>>

-----------------------------------------------------------------------------
Hub ==
    \/ TakeMessage
    \/ \E c \in Clients : Register(c) \/ Unregister(c) \/ CopyMessage(c) \/ CutClient(c)

Pumps(c) ==
    \/ PeerFails(c) \/ ReadFails(c) \/ ReaderCloses(c)
    \/ WriterTakes(c) \/ WriteSucceeds(c) \/ WriterCloses(c)

HubNext == Broadcast \/ Hub \/ \E c \in Clients : Pumps(c)

HubSpec == HubInit /\ [][HubNext]_hubVars

\* The hub's goroutine runs, and a select does not pass over a client that
\* waits to unregister for ever. A failed read returns. Nothing is assumed of
\* a write, which has no deadline and may block while the peer is silent.
HubFairSpec ==
    /\ HubSpec
    /\ WF_hubVars(TakeMessage)
    /\ \A c \in Clients : /\ WF_hubVars(CopyMessage(c) \/ CutClient(c))
                          /\ SF_hubVars(Unregister(c))
                          /\ WF_hubVars(ReadFails(c))

-----------------------------------------------------------------------------
(* Properties.                                                             *)

\* Type correctness, with the two channels within their capacities.
HubTypeOK ==
    /\ broadcast \in Seq(1 .. MaxMessages) /\ Len(broadcast) <= BroadcastCap
    /\ accepted \in 0 .. MaxMessages /\ message \in 0 .. MaxMessages
    /\ clients \subseteq Clients /\ todo \subseteq Clients
    /\ send \in [Clients -> Seq(1 .. MaxMessages)]
    /\ \A c \in Clients : Len(send[c]) <= SendCap
    /\ closed \in [Clients -> BOOLEAN]
    /\ conn \in [Clients -> {"up", "failed", "closed"}]
    /\ reader \in [Clients -> {"none", "read", "unregister", "close", "done"}]
    /\ writer \in [Clients -> {"none", "range", "write", "done"}]
    /\ last \in [Clients -> 0 .. MaxMessages]

\* The hub never sends to a closed channel and never closes one twice: a
\* client it still knows, or is still copying to, has an open channel, though
\* the client may be cut off and ask to be unregistered in any order.
MembersAreOpen ==
    /\ todo \subseteq clients
    /\ \A c \in clients : ~closed[c]

\* A client sees a contiguous part of the accepted messages: its channel
\* continues where its connection is, and a registered client has missed
\* none since it registered. A client too slow for that is cut off, never
\* thinned out.
NoMessageSkipped ==
    \A c \in Clients :
        /\ \A i \in DOMAIN send[c] : send[c][i] = last[c] + i
        /\ c \in clients =>
              last[c] + Len(send[c]) + (IF c \in todo THEN 1 ELSE 0) = Taken

\* No client, however slow or dead, stops the hub: every accepted message is
\* taken from the broadcast channel.
HubNeverStalls ==
    \A m \in 1 .. MaxMessages : accepted = m ~> Taken >= m

\* A client whose connection failed leaves the hub.
FailedLeaves ==
    \A c \in Clients : conn[c] = "failed" ~> c \notin clients
=============================================================================
