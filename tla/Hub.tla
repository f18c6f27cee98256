--------------------------------- MODULE Hub ---------------------------------
(* The WebSocket hub, internal/api/ws/hub.go: one goroutine (Run) owns the   *)
(* set of clients and hands every event to each of them without waiting; each*)
(* client has a buffered send channel, a goroutine that writes to the socket *)
(* and one that reads from it only to notice its end.                        *)
(*                                                                           *)
(* register and unregister are unbuffered: sending on them and the hub's     *)
(* receiving are one step. A close or a send on a closed channel panics.     *)
EXTENDS Integers, Sequences, FiniteSets

CONSTANTS
    Clients,       \* connections that HandleWS may accept
    Streams,       \* stream ids of the events
    NoFilter,      \* a client without ?stream_id=
    Filter,        \* the filter each client asked for
    SendCap,       \* cap(client.send): 64 in the code
    BroadcastCap,  \* cap(hub.broadcast): 256 in the code
    MaxEvents      \* bound: events published

ASSUME HubAssumption ==
    /\ NoFilter \notin Streams
    /\ Filter \in [Clients -> Streams \cup {NoFilter}]
    /\ SendCap \in Nat \ {0}
    /\ BroadcastCap \in Nat \ {0}
    /\ MaxEvents \in Nat

VARIABLES
    published,  \* history: the stream of each event, in the order of BroadcastEvent
    broadcast,  \* Hub.broadcast: numbers of events
    clients,    \* Hub.clients
    current,    \* the event Run is handing out, 0 before the first
    todo,       \* the clients its loop has not reached yet; {}: Run is in its select
    send,       \* Client.send
    closed,     \* the channel is closed
    reader,     \* readPump, or HandleWS before it
    writer,     \* writePump
    inflight,   \* the event in WriteMessage
    socket,     \* FALSE once conn.Close was called
    gone,       \* the peer has left
    written,    \* history: events written to the socket
    joined,     \* history: the last event handed out before the client joined
    gauge,      \* observability.WSConnections
    panic       \* the process has crashed on a closed channel

hubVars    == <<clients, current, todo>>
clientVars == <<reader, writer, inflight, socket, gone, written>>
vars == <<published, broadcast, hubVars, send, closed, clientVars, joined, gauge, panic>>

Event == 1 .. MaxEvents

TypeOK ==
    /\ published \in Seq(Streams) /\ Len(published) <= MaxEvents
    /\ broadcast \in Seq(Event) /\ Len(broadcast) <= BroadcastCap
    /\ clients \in SUBSET Clients
    /\ current \in 0 .. MaxEvents
    /\ todo \in SUBSET Clients
    /\ send \in [Clients -> Seq(Event)]
    /\ \A c \in Clients : Len(send[c]) <= SendCap
    /\ closed \in [Clients -> BOOLEAN]
    /\ reader \in [Clients -> {"none", "register", "read", "unregister", "close", "done"}]
    /\ writer \in [Clients -> {"none", "receive", "write", "done"}]
    /\ inflight \in [Clients -> 0 .. MaxEvents]
    /\ socket \in [Clients -> BOOLEAN]
    /\ gone \in [Clients -> BOOLEAN]
    /\ written \in [Clients -> Seq(Event)]
    /\ joined \in [Clients -> 0 .. MaxEvents]
    /\ gauge \in Int
    /\ panic \in BOOLEAN

Init ==
    /\ published = << >> /\ broadcast = << >>
    /\ clients = {} /\ current = 0 /\ todo = {}
    /\ send = [c \in Clients |-> << >>]
    /\ closed = [c \in Clients |-> FALSE]
    /\ reader = [c \in Clients |-> "none"]
    /\ writer = [c \in Clients |-> "none"]
    /\ inflight = [c \in Clients |-> 0]
    /\ socket = [c \in Clients |-> TRUE]
    /\ gone = [c \in Clients |-> FALSE]
    /\ written = [c \in Clients |-> << >>]
    /\ joined = [c \in Clients |-> 0]
    /\ gauge = 0
    /\ panic = FALSE

-----------------------------------------------------------------------------
(* BroadcastEvent, called by the event consumer: waits while the channel is  *)
(* full.                                                                     *)
BroadcastEvent(s) ==
    /\ ~panic
    /\ Len(published) < MaxEvents
    /\ Len(broadcast) < BroadcastCap
    /\ published' = Append(published, s)
    /\ broadcast' = Append(broadcast, Len(published) + 1)
    /\ UNCHANGED <<hubVars, send, closed, clientVars, joined, gauge, panic>>

(* HandleWS has upgraded the connection and is at "h.register <- client".    *)
HandleWS(c) ==
    /\ ~panic
    /\ reader[c] = "none"
    /\ reader' = [reader EXCEPT ![c] = "register"]
    /\ UNCHANGED <<published, broadcast, hubVars, send, closed, writer, inflight,
                   socket, gone, written, joined, gauge, panic>>

-----------------------------------------------------------------------------
(* Hub.Run.                                                                  *)

InSelect == ~panic /\ todo = {}

(* close(client.send) for a channel that must still be open.                 *)
Close(c) ==
    /\ closed' = [closed EXCEPT ![c] = TRUE]
    /\ panic' = closed[c]

(* The receive lets HandleWS go on, which starts the two pumps.              *)
Register(c) ==
    /\ InSelect
    /\ reader[c] = "register"
    /\ clients' = clients \cup {c}
    /\ gauge' = gauge + 1
    /\ joined' = [joined EXCEPT ![c] = current]
    /\ reader' = [reader EXCEPT ![c] = "read"]
    /\ writer' = [writer EXCEPT ![c] = "receive"]
    /\ UNCHANGED <<published, broadcast, current, todo, send, closed, inflight,
                   socket, gone, written, panic>>

(* Mutant: without the look-up of hub.go:62.                                 *)
UnregisterUnchecked(c) ==
    /\ InSelect
    /\ reader[c] = "unregister"
    /\ clients' = clients \ {c}
    /\ Close(c)
    /\ gauge' = gauge - 1
    /\ reader' = [reader EXCEPT ![c] = "close"]
    /\ UNCHANGED <<published, broadcast, current, todo, send, writer, inflight,
                   socket, gone, written, joined>>

Unregister(c) ==
    /\ InSelect
    /\ reader[c] = "unregister"
    /\ clients' = clients \ {c}
    /\ IF c \in clients THEN Close(c) ELSE UNCHANGED <<closed, panic>>
    /\ gauge' = gauge - 1
    /\ reader' = [reader EXCEPT ![c] = "close"]
    /\ UNCHANGED <<published, broadcast, current, todo, send, writer, inflight,
                   socket, gone, written, joined>>

TakeMessage ==
    /\ InSelect
    /\ broadcast # << >>
    /\ current' = Head(broadcast)
    /\ broadcast' = Tail(broadcast)
    /\ todo' = clients
    /\ UNCHANGED <<published, clients, send, closed, clientVars, joined, gauge, panic>>

Wants(c, e) == Filter[c] \in {NoFilter, published[e]}

(* One client's turn in the loop over h.clients, in any order, and what may  *)
(* come of it.                                                               *)
Round(c) ==
    /\ ~panic
    /\ c \in todo
    /\ todo' = todo \ {c}
    /\ UNCHANGED <<published, broadcast, current, clientVars, joined>>

Skip == UNCHANGED <<send, clients, closed, panic>>

Give(c) ==
    /\ send' = [send EXCEPT ![c] = Append(@, current)]
    /\ panic' = closed[c]
    /\ UNCHANGED <<clients, closed>>

Drop(c) ==
    /\ clients' = clients \ {c}
    /\ Close(c)
    /\ UNCHANGED send

(* Mutant: a full buffer loses the event and keeps the client.               *)
OfferLossy(c) ==
    /\ Round(c)
    /\ IF Wants(c, current) /\ Len(send[c]) < SendCap THEN Give(c) ELSE Skip
    /\ UNCHANGED gauge

(* Mutant: the gauge goes down where the client is dropped, and again later. *)
OfferCounted(c) ==
    /\ Round(c)
    /\ IF ~Wants(c, current) THEN Skip /\ UNCHANGED gauge
       ELSE IF Len(send[c]) < SendCap THEN Give(c) /\ UNCHANGED gauge
       ELSE Drop(c) /\ gauge' = gauge - 1

(* Mutant: one event more than the buffer holds.                             *)
OfferOffByOne(c) ==
    /\ Round(c)
    /\ IF ~Wants(c, current) THEN Skip
       ELSE IF Len(send[c]) <= SendCap THEN Give(c) ELSE Drop(c)
    /\ UNCHANGED gauge

(* Mutant: a send that waits for the writer, no default branch.              *)
OfferBlocking(c) ==
    /\ Round(c)
    /\ IF ~Wants(c, current) THEN Skip ELSE Len(send[c]) < SendCap /\ Give(c)
    /\ UNCHANGED gauge

(* Skip an event it did not ask for, send without waiting, or drop it when   *)
(* its buffer is full.                                                       *)
Offer(c) ==
    /\ Round(c)
    /\ IF ~Wants(c, current) THEN Skip
       ELSE IF Len(send[c]) < SendCap THEN Give(c) ELSE Drop(c)
    /\ UNCHANGED gauge

Run ==
    \/ TakeMessage
    \/ \E c \in Clients : Register(c) \/ Unregister(c) \/ Offer(c)

-----------------------------------------------------------------------------
(* writePump.                                                                *)

WriterReceive(c) ==
    /\ ~panic
    /\ writer[c] = "receive"
    /\ send[c] # << >>
    /\ inflight' = [inflight EXCEPT ![c] = Head(send[c])]
    /\ send' = [send EXCEPT ![c] = Tail(@)]
    /\ writer' = [writer EXCEPT ![c] = "write"]
    /\ UNCHANGED <<published, broadcast, hubVars, closed, reader, socket, gone,
                   written, joined, gauge, panic>>

(* WriteMessage returns nil. No deadline is set: it may also never return.   *)
WriteSucceeds(c) ==
    /\ ~panic
    /\ writer[c] = "write"
    /\ socket[c]
    /\ written' = [written EXCEPT ![c] = Append(@, inflight[c])]
    /\ inflight' = [inflight EXCEPT ![c] = 0]
    /\ writer' = [writer EXCEPT ![c] = "receive"]
    /\ UNCHANGED <<published, broadcast, hubVars, send, closed, reader, socket,
                   gone, joined, gauge, panic>>

(* The write fails, or the closed channel is drained: conn.Close either way. *)
WriterEnds(c) ==
    /\ ~panic
    /\ \/ writer[c] = "write" /\ (gone[c] \/ ~socket[c])
       \/ writer[c] = "receive" /\ send[c] = << >> /\ closed[c]
    /\ writer' = [writer EXCEPT ![c] = "done"]
    /\ inflight' = [inflight EXCEPT ![c] = 0]
    /\ socket' = [socket EXCEPT ![c] = FALSE]
    /\ UNCHANGED <<published, broadcast, hubVars, send, closed, reader, gone,
                   written, joined, gauge, panic>>

-----------------------------------------------------------------------------
(* readPump.                                                                 *)

PeerLeaves(c) ==
    /\ ~panic
    /\ reader[c] = "read"
    /\ ~gone[c]
    /\ gone' = [gone EXCEPT ![c] = TRUE]
    /\ UNCHANGED <<published, broadcast, hubVars, send, closed, reader, writer,
                   inflight, socket, written, joined, gauge, panic>>

(* Mutant: a readPump that only closes the connection.                       *)
ReaderFailsSilently(c) ==
    /\ ~panic
    /\ reader[c] = "read"
    /\ gone[c] \/ ~socket[c]
    /\ reader' = [reader EXCEPT ![c] = "close"]
    /\ UNCHANGED <<published, broadcast, hubVars, send, closed, writer, inflight,
                   socket, gone, written, joined, gauge, panic>>

(* ReadMessage fails; the deferred function is at "h.unregister <- c".       *)
ReaderFails(c) ==
    /\ ~panic
    /\ reader[c] = "read"
    /\ gone[c] \/ ~socket[c]
    /\ reader' = [reader EXCEPT ![c] = "unregister"]
    /\ UNCHANGED <<published, broadcast, hubVars, send, closed, writer, inflight,
                   socket, gone, written, joined, gauge, panic>>

ReaderCloses(c) ==
    /\ ~panic
    /\ reader[c] = "close"
    /\ reader' = [reader EXCEPT ![c] = "done"]
    /\ socket' = [socket EXCEPT ![c] = FALSE]
    /\ UNCHANGED <<published, broadcast, hubVars, send, closed, writer, inflight,
                   gone, written, joined, gauge, panic>>

Pumps(c) ==
    \/ WriterReceive(c) \/ WriteSucceeds(c) \/ WriterEnds(c)
    \/ ReaderFails(c) \/ ReaderCloses(c)

Next ==
    \/ \E s \in Streams : BroadcastEvent(s)
    \/ \E c \in Clients : HandleWS(c) \/ PeerLeaves(c) \/ Pumps(c)
    \/ Run

Spec == Init /\ [][Next]_vars

(* The hub's goroutine and a readPump whose connection has ended run when    *)
(* they can. Nothing is assumed of writePump: a write has no deadline.       *)
FairSpec ==
    /\ Spec
    /\ WF_vars(Run)
    /\ \A c \in Clients : WF_vars(ReaderFails(c) \/ ReaderCloses(c))

-----------------------------------------------------------------------------
(* Properties.                                                               *)

(* A send channel is closed by Run in two places, and sent on in a third,    *)
(* without looking at it: the map of clients alone says that it is open      *)
(* (hub.go:60-95). Neither a close nor a send ever meets a closed channel.   *)
NeverPanics == ~panic

Elements(s) == {s[i] : i \in DOMAIN s}

(* The events a client got, in the order it was or will be sent them. Those  *)
(* that a dead writePump left behind will not be sent.                       *)
Given(c) ==
    IF writer[c] = "done" THEN written[c]
    ELSE written[c] \o (IF inflight[c] = 0 THEN << >> ELSE <<inflight[c]>>) \o send[c]

(* The events that have been handed out to the client: all up to the current *)
(* one, which it may still have to wait for.                                 *)
Due(c) ==
    {e \in joined[c] + 1 .. current :
        Wants(c, e) /\ (e = current => c \notin todo)}

(* A client gets the events it asked for in their order, none twice and none *)
(* left out, from the moment it joined: while it is connected all of them,   *)
(* after that a first part. In particular a full buffer ends the connection  *)
(* and never makes a hole in it (hub.go:83-93).                              *)
DeliveryIsGapFree ==
    \A c \in Clients :
        /\ \A i, j \in DOMAIN Given(c) : i < j => Given(c)[i] < Given(c)[j]
        /\ Elements(Given(c)) \subseteq Due(c)
        /\ \A d \in Due(c), e \in Elements(Given(c)) : d < e => d \in Elements(Given(c))
        /\ c \in clients /\ writer[c] # "done" => Elements(Given(c)) = Due(c)

(* The gauge, which goes down at unregister and not where a slow client is   *)
(* dropped, counts the clients again as soon as every dropped one has left   *)
(* its readPump (hub.go:57, 67, 89).                                         *)
GaugeSettles ==
    (\A c \in Clients : closed[c] => reader[c] \in {"close", "done"})
        => gauge = Cardinality(clients)

(* An event that BroadcastEvent accepted is handed out to every client,      *)
(* although writers may hang forever: Run waits for none of them.            *)
EventsAreHandedOut ==
    \A n \in Event : Len(published) >= n ~> (current >= n /\ todo = {})

(* A peer that left is forgotten: its channel is closed and its entry gone.  *)
LeaversAreForgotten ==
    \A c \in Clients : gone[c] ~> (c \notin clients /\ closed[c])
=============================================================================
