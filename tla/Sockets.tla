------------------------------ MODULE Sockets -------------------------------
(***************************************************************************)
(* The socket set of one process, kernel/src/socket.rs, as operators on    *)
(* values.  A queue of bytes is its length: the order of bytes is the      *)
(* subject of PassiveTcp.  An operation that the code refuses is disabled: *)
(* its guard is the predicate with the suffix Ok.                          *)
(***************************************************************************)
EXTENDS Naturals, Sequences

CONSTANTS
    SocketSlots,      \* 1 .. SOCKET_CAPACITY
    BufferCapacity,   \* SOCKET_BUFFER_CAPACITY
    BacklogCapacity,  \* SOCKET_LISTENER_BACKLOG_CAPACITY
    GenerationMax,    \* SOCKET_GENERATION_MAX
    NoValue           \* None

ASSUME SocketsAssumption ==
    /\ SocketSlots \subseteq Nat \ {0}
    /\ BufferCapacity \in Nat \ {0} /\ BacklogCapacity \in Nat \ {0}
    /\ GenerationMax \in Nat \ {0}

Protocols == {"Udp", "TcpStream"}
States == {"Open", "Connecting", "Established", "ReadClosed", "WriteClosed",
           "Closed", "Failed", "Bound", "Listening"}

NewSet == [entries |-> [s \in SocketSlots |-> NoValue], next_generation |-> 1]

\* A handle names a slot and the generation it was opened with.
Handle(s, generation) == [slot |-> s, generation |-> generation]

HandleOf(set, s) == Handle(s, set.entries[s].generation)
Live(set) == {s \in SocketSlots : set.entries[s] # NoValue}
Handles(set) == {HandleOf(set, s) : s \in Live(set)}

slot_for(set, h) == h.slot \in Live(set) /\ set.entries[h.slot].generation = h.generation

Entry(set, h) == set.entries[h.slot]
Put(set, h, e) == [set EXCEPT !.entries[h.slot] = e]
-----------------------------------------------------------------------------
(* Opening, binding and listening *)

OpenOk(set) == Live(set) # SocketSlots /\ set.next_generation <= GenerationMax

FreeSlot(set) ==
    CHOOSE s \in SocketSlots \ Live(set) : \A t \in SocketSlots \ Live(set) : s <= t

Opened(set) == Handle(FreeSlot(set), set.next_generation)

NewEntry(generation, protocol) ==
    [generation |-> generation, protocol |-> protocol, state |-> "Open",
     local_port |-> 0, backlog_limit |-> 0, backlog |-> <<>>, server_peer |-> NoValue,
     send |-> 0, in_flight_request |-> 0, in_flight_send |-> 0, receive |-> 0]

open(set, protocol) ==
    [entries |-> [set.entries EXCEPT ![FreeSlot(set)] =
                    NewEntry(set.next_generation, protocol)],
     next_generation |-> set.next_generation + 1]

ConnectOk(e) == e.state = "Open"

connect(e) ==
    [e EXCEPT !.state = IF e.protocol = "Udp" THEN "Established" ELSE "Connecting"]

BindOk(e) == e.protocol = "TcpStream" /\ e.state = "Open"
bind(e, port) == [e EXCEPT !.local_port = port, !.state = "Bound"]

ListenOk(e, limit) ==
    e.protocol = "TcpStream" /\ e.state = "Bound" /\ limit \in 1 .. BacklogCapacity
listen(e, limit) == [e EXCEPT !.backlog_limit = limit, !.state = "Listening"]

owns_local_port(set, port) ==
    \E s \in Live(set) : /\ set.entries[s].protocol = "TcpStream"
                         /\ set.entries[s].local_port = port
                         /\ set.entries[s].state \in {"Bound", "Listening"}

Listens(set, port) ==
    {s \in Live(set) : /\ set.entries[s].protocol = "TcpStream"
                       /\ set.entries[s].state = "Listening"
                       /\ set.entries[s].local_port = port}

listener_handle(set, port) ==
    IF Listens(set, port) = {} THEN NoValue
    ELSE HandleOf(set, CHOOSE s \in Listens(set, port) :
                         \A t \in Listens(set, port) : s <= t)
-----------------------------------------------------------------------------
(* The backlog of a listener *)

QueueOk(e, peer) ==
    /\ e.state = "Listening" /\ peer.port = e.local_port
    /\ Len(e.backlog) < e.backlog_limit

queue_incoming(e, peer) == [e EXCEPT !.backlog = Append(@, peer)]

DropOk(e, peer) ==
    e.state = "Listening" /\ \E i \in DOMAIN e.backlog : e.backlog[i] = peer

First(e, peer) ==
    CHOOSE i \in DOMAIN e.backlog :
        e.backlog[i] = peer /\ \A j \in 1 .. i - 1 : e.backlog[j] # peer

drop_incoming(e, peer) ==
    [e EXCEPT !.backlog = SubSeq(@, 1, First(e, peer) - 1)
                            \o SubSeq(@, First(e, peer) + 1, Len(@))]

AcceptOk(set, h) ==
    /\ Live(set) # SocketSlots
    /\ slot_for(set, h)
    /\ Entry(set, h).state = "Listening" /\ Entry(set, h).backlog # <<>>
    /\ OpenOk(set)

Accepted(generation, listener) ==
    [NewEntry(generation, "TcpStream") EXCEPT
        !.local_port = listener.local_port,
        !.server_peer = Head(listener.backlog),
        !.state = "Established"]

accept(set, h) ==
    LET listener == Entry(set, h)
        child == Opened(set)
    IN  Put(Put(open(set, "TcpStream"), h, [listener EXCEPT !.backlog = Tail(@)]),
            child, Accepted(child.generation, listener))
-----------------------------------------------------------------------------
(* Queues *)

SendOk(e, n) ==
    /\ e.state \in {"Connecting", "Established", "ReadClosed"}
    /\ n # 0 /\ n <= BufferCapacity - (e.send + e.in_flight_send)
send(e, n) == [e EXCEPT !.send = @ + n]

PushOk(e, n) == n # 0 /\ n <= BufferCapacity - e.receive

PushReceiveOk(e, n) == e.state \in {"Established", "WriteClosed"} /\ PushOk(e, n)
push_receive(e, n) == [e EXCEPT !.receive = @ + n]

ReceiveOk(e) == e.state \notin {"Open", "Connecting"} /\ e.receive # 0
receive(e, n) == [e EXCEPT !.receive = IF n < @ THEN @ - n ELSE 0]
-----------------------------------------------------------------------------
(* The client transport *)

PendingTransport(e) ==
    /\ e.server_peer = NoValue
    /\ e.state \in {"Connecting", "Established"}
    /\ e.send # 0 /\ e.in_flight_send = 0

\* The first socket that has bytes to send and none in flight.
pending_transport(set) ==
    LET due == {s \in Live(set) : PendingTransport(set.entries[s])}
    IN  IF due = {} THEN NoValue
        ELSE HandleOf(set, CHOOSE s \in due : \A t \in due : s <= t)

BeginOk(e) == PendingTransport(e) /\ e.in_flight_request = 0
begin_transport(e, id) ==
    [e EXCEPT !.send = 0, !.in_flight_request = id, !.in_flight_send = e.send]

transport_request_active(e, id, n) ==
    /\ e.server_peer = NoValue
    /\ e.state \in {"Connecting", "Established"}
    /\ e.in_flight_request = id /\ e.in_flight_send = n

Landed(e) == [e EXCEPT !.in_flight_request = 0, !.in_flight_send = 0]

\* A response that does not fit fails the socket.
complete_transport(e, n) ==
    IF ~PushOk(e, n) THEN [Landed(e) EXCEPT !.state = "Failed"]
    ELSE [Landed(e) EXCEPT !.receive = @ + n,
                           !.state = IF e.protocol = "TcpStream" THEN "Established" ELSE @]

fail_transport(e) == [Landed(e) EXCEPT !.state = "Failed"]
-----------------------------------------------------------------------------
(* Accepted streams *)

ServerStates == {"Established", "ReadClosed", "WriteClosed", "Closed"}

server_handle(set, peer) ==
    LET held == {s \in Live(set) : /\ set.entries[s].server_peer = peer
                                   /\ set.entries[s].state \in ServerStates}
    IN  IF held = {} THEN NoValue
        ELSE HandleOf(set, CHOOSE s \in held : \A t \in held : s <= t)

server_send_pending(e, peer) ==
    /\ e.server_peer = peer /\ e.state \in {"Established", "ReadClosed"}
    /\ e.send # 0 /\ e.in_flight_send = 0

BeginServerOk(e) == e.in_flight_request = 0
begin_server_send(e, id) == begin_transport(e, id)

server_send_active(e, peer, id, n) ==
    /\ e.server_peer = peer /\ e.state \in {"Established", "ReadClosed"}
    /\ e.in_flight_request = id /\ e.in_flight_send = n

complete_server_send(e) == Landed(e)

server_write_closed(e, peer) ==
    /\ e.server_peer = peer /\ e.state \in {"WriteClosed", "Closed"}
    /\ e.send = 0 /\ e.in_flight_send = 0

ReadCloseOk(e, peer) == e.server_peer = peer /\ e.state \in ServerStates
mark_server_read_closed(e) ==
    [e EXCEPT !.state = IF @ = "Established" THEN "ReadClosed" ELSE @]

mark_server_closed(e) == [Landed(e) EXCEPT !.send = 0, !.state = "Closed"]

fail(e) == [Landed(e) EXCEPT !.send = 0, !.state = "Failed"]
-----------------------------------------------------------------------------
(* Shutdown and close *)

ServerWriteBusy(e) ==
    e.server_peer # NoValue /\ (e.send # 0 \/ e.in_flight_send # 0)

ShutdownOk(e, read, write) ==
    /\ read \/ write
    /\ e.state \notin {"Closed", "Failed", "Bound", "Listening"}
    /\ ~(write /\ ServerWriteBusy(e))

\* Half a close on top of the other half.
AfterShutdown(e, read, write) ==
    IF \/ read /\ write
       \/ read /\ e.state = "WriteClosed"
       \/ write /\ e.state = "ReadClosed"
    THEN "Closed" ELSE IF read THEN "ReadClosed" ELSE "WriteClosed"

shutdown(e, read, write) ==
    LET drained == [e EXCEPT !.receive = IF read THEN 0 ELSE @]
    IN  IF e.server_peer # NoValue /\ write
        THEN [drained EXCEPT !.send = 0, !.state = "WriteClosed"]
        ELSE [(IF write THEN [Landed(drained) EXCEPT !.send = 0] ELSE drained)
                EXCEPT !.state = AfterShutdown(e, read, write)]

close(set, h) == Put(set, h, NoValue)
=============================================================================
