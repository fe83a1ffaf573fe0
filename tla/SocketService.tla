--------------------------- MODULE SocketService ----------------------------
(***************************************************************************)
(* The coordinator's socket service (kernel/src/runtime.rs) between the    *)
(* socket sets of the processes (Sockets) and the slots of the network     *)
(* (StreamSlot, and the handshake slots and SYN cells of network.rs).      *)
(*                                                                         *)
(* One advance of the coordinator is the stages "request" (the client      *)
(* transport), "streams", "event", "starts" and "handshakes" (the passive  *)
(* side, skipped while a client transport runs) and "poll" (one slice of   *)
(* one process).  A frame may arrive in each of the two pumps.             *)
(***************************************************************************)
EXTENDS Sockets, FiniteSets

CONSTANTS
    Procs,           \* process slots, numbered from 1
    IncMax,          \* incarnations of a slot
    RequestMax,      \* request ids of an incarnation (u64 in the code)
    Peers,           \* records [from, port, isn]: tuple and sequence numbers
    Ports,           \* ports a process may bind
    SynCells,        \* 1 .. length of pending_syns
    HandshakeSlots,  \* 1 .. PASSIVE_TCP_HANDSHAKE_SLOTS
    StreamSlots,     \* 1 .. PASSIVE_TCP_STREAM_SLOTS
    Budget,          \* PASSIVE_TCP_PER_PROCESS_BUDGET
    Protocol,        \* protocols a process opens
    Calls            \* the socket calls processes make

VARIABLES
    pc,          \* stage of the advance
    procs,       \* slot -> NoValue or [inc, sockets, next_request]
    incs,        \* incarnations used so far
    syns,        \* pending_syns
    passive,     \* passive_tcp: [peer, st]
    slots,       \* passive_streams: [peer, op]
    cursor,      \* passive_stream_cursor
    async,       \* the client operation of the network and the request it serves
    pending,     \* pending_socket_request
    started,     \* socket_transport_started
    handshakes,  \* tcp_handshakes: [peer, listener]
    streams      \* tcp_streams: [peer, listener, stream, send, close_started]

vars == <<pc, procs, incs, syns, passive, slots, cursor, async, pending, started,
          handshakes, streams>>

network == <<syns, passive, slots, cursor>>
mirrors == <<handshakes, streams>>
client == <<async, pending, started>>

Slot == INSTANCE StreamSlot WITH slot <- NoValue

Tuple(peer) == [from |-> peer.from, port |-> peer.port]
Filled(f) == {i \in DOMAIN f : f[i] # NoValue}
LowestOf(S) == CHOOSE i \in S : \A j \in S : i <= j
Empty(f) == DOMAIN f \ Filled(f)
-----------------------------------------------------------------------------
(* userspace.rs: what the coordinator asks of the processes *)

Running == Filled(procs)
Incarnation(p) == [slot |-> p, inc |-> procs[p].inc]

\* The process, its incarnation and the handle of a capability are live.
Holds(ps, cap) ==
    /\ ps[cap.slot] # NoValue /\ ps[cap.slot].inc = cap.inc
    /\ slot_for(ps[cap.slot].sockets, cap.handle)

EntryOf(ps, cap) == Entry(ps[cap.slot].sockets, cap.handle)
PutEntry(ps, cap, e) == [ps EXCEPT ![cap.slot].sockets = Put(@, cap.handle, e)]

Capability(p, h) == [slot |-> p, inc |-> procs[p].inc, handle |-> h]

tcp_listener(port) ==
    LET ls == {p \in Running : listener_handle(procs[p].sockets, port) # NoValue}
    IN  IF ls = {} THEN NoValue
        ELSE LET p == LowestOf(ls)
             IN  Capability(p, listener_handle(procs[p].sockets, port))

tcp_listener_active(ps, listener, port) ==
    /\ Holds(ps, listener)
    /\ listener_handle(ps[listener.slot].sockets, port) = listener.handle

tcp_stream(ps, peer) ==
    LET hs == {p \in Filled(ps) : server_handle(ps[p].sockets, peer) # NoValue}
    IN  IF hs = {} THEN NoValue
        ELSE LET p == LowestOf(hs)
             IN  [slot |-> p, inc |-> ps[p].inc,
                  handle |-> server_handle(ps[p].sockets, peer)]

tcp_stream_active(ps, stream, peer) ==
    Holds(ps, stream) /\ EntryOf(ps, stream).server_peer = peer

tcp_stream_send_active(ps, stream, peer, request) ==
    /\ Holds(ps, stream)
    /\ server_send_active(EntryOf(ps, stream), peer, request.id, request.len)

fail_tcp_stream(ps, stream, peer) ==
    IF tcp_stream_active(ps, stream, peer)
    THEN PutEntry(ps, stream, fail(EntryOf(ps, stream))) ELSE ps

drop_tcp_peer(ps, listener, peer) ==
    IF tcp_listener_active(ps, listener, peer.port) /\ DropOk(EntryOf(ps, listener), peer)
    THEN PutEntry(ps, listener, drop_incoming(EntryOf(ps, listener), peer)) ELSE ps

\* allocate_request_id, then the bytes move in flight under that id.
CanAllocate(p) == p.next_request <= RequestMax

Allocated(ps, cap, e) ==
    [PutEntry(ps, cap, begin_transport(e, ps[cap.slot].next_request))
        EXCEPT ![cap.slot].next_request = @ + 1]

socket_request_active(ps, request) ==
    /\ Holds(ps, request)
    /\ transport_request_active(EntryOf(ps, request), request.id, request.len)

\* None fails the socket, a response of n bytes completes it.
complete_request(ps, request, n) ==
    IF ~socket_request_active(ps, request) THEN ps
    ELSE PutEntry(ps, request,
                  IF n = NoValue THEN fail_transport(EntryOf(ps, request))
                  ELSE complete_transport(EntryOf(ps, request), n))
-----------------------------------------------------------------------------
(* The client transport: complete_socket_request *)

passive_service_active ==
    Filled(handshakes) # {} \/ Filled(passive) # {} \/ Filled(slots) # {}

After(stage) == pc' = IF started' THEN "poll" ELSE stage

NoRequest ==
    /\ pending = NoValue
    /\ UNCHANGED <<procs, async, pending, started>>

StaleRequest ==
    /\ pending # NoValue /\ ~socket_request_active(procs, pending)
    /\ async' = NoValue /\ pending' = NoValue /\ started' = FALSE
    /\ UNCHANGED procs

Active == pending # NoValue /\ socket_request_active(procs, pending)

RequestWaits ==
    /\ Active /\ ~started /\ passive_service_active
    /\ UNCHANGED <<procs, async, pending, started>>

\* The passive side is not asked before the client transport starts.
StartingBeside == Active /\ ~started

Starting == Active /\ ~started /\ ~passive_service_active

\* A refused start is tried again on the next tick.
TransportRefusedAgain ==
    Starting /\ UNCHANGED <<procs, pending, started, async>>

\* start_udp_async or start_tcp_async refuses: an operation is left over, or
\* the device is not available.
TransportRefused ==
    /\ Starting
    /\ procs' = complete_request(procs, pending, NoValue)
    /\ pending' = NoValue /\ started' = FALSE
    /\ UNCHANGED async

\* The operation runs on (the tick in which it starts polls it as well).
TransportPending ==
    /\ Active
    /\ \/ started /\ UNCHANGED async
       \/ /\ Starting /\ async = NoValue
          /\ async' = [slot |-> pending.slot, inc |-> pending.inc, id |-> pending.id]
    /\ started' = TRUE
    /\ UNCHANGED <<procs, pending>>

\* poll_udp_async and poll_tcp_async clear the operation they report the end of.
TransportEnds(n) ==
    /\ Active /\ (started \/ (Starting /\ async = NoValue))
    /\ procs' = complete_request(procs, pending, n)
    /\ async' = NoValue /\ pending' = NoValue /\ started' = FALSE

complete_socket_request ==
    /\ pc = "request"
    /\ \/ NoRequest
       \/ StaleRequest
       \/ RequestWaits
       \/ TransportRefused
       \/ TransportPending
       \/ \E n \in {NoValue} \cup 1 .. BufferCapacity : TransportEnds(n)
    /\ After("streams")
    /\ UNCHANGED <<incs, network, mirrors>>
-----------------------------------------------------------------------------
(* The wire: at most one frame in each pump *)

\* A peer begins a connection under sequence numbers of its own: none that an
\* accepted socket still carries (there is no TIME-WAIT in the code).
SynFrames ==
    [kind : {"syn"},
     peer : {peer \in Peers : \A p \in Running : \A s \in Live(procs[p].sockets) :
               procs[p].sockets.entries[s].server_peer # peer}]

\* What the handshake slot of the tuple makes of a frame (PassiveTcp).
HandshakeFrames ==
    {[kind |-> "handshake", i |-> i, st |-> st] :
        i \in {j \in Filled(passive) : passive[j].st = "wait"},
        st \in {"established", "failed"}}

StreamFrames ==
    UNION {{[kind |-> "stream", i |-> i, op |-> op] : op \in Slot!WireSteps(slots[i].op)} :
             i \in Filled(slots)}

Frames == {[kind |-> "none"]} \cup SynFrames \cup HandshakeFrames \cup StreamFrames

Routed(tuple) ==
    \/ \E i \in Filled(slots) : Tuple(slots[i].peer) = tuple
    \/ \E i \in Filled(passive) : Tuple(passive[i].peer) = tuple

AdmitsSyn(peer) ==
    /\ ~Routed(Tuple(peer))
    /\ \A i \in Filled(syns) : syns[i] # peer
    /\ Empty(syns) # {}

SynsAfter(f) ==
    IF f.kind = "syn" /\ AdmitsSyn(f.peer)
    THEN [syns EXCEPT ![LowestOf(Empty(syns))] = f.peer] ELSE syns

PassiveAfter(f) ==
    IF f.kind = "handshake" THEN [passive EXCEPT ![f.i].st = f.st] ELSE passive

SlotsAfter(f) == IF f.kind = "stream" THEN [slots EXCEPT ![f.i].op = f.op] ELSE slots
-----------------------------------------------------------------------------
(* complete_passive_tcp_stream: stale and newly accepted streams.  A world  *)
(* is what one pass over the mirrors changes.                               *)

World == [procs |-> procs, slots |-> slots, streams |-> streams]

Becomes(w) == procs' = w.procs /\ slots' = w.slots /\ streams' = w.streams

\* Step(w, i) for every mirror in order.
Pass(Step(_, _), from) ==
    LET upto[i \in {0} \cup StreamSlots] == IF i = 0 THEN from ELSE Step(upto[i - 1], i)
    IN  upto[Cardinality(StreamSlots)]

SlotsWithout(ss, peer) ==
    [i \in DOMAIN ss |-> IF ss[i] # NoValue /\ ss[i].peer = peer THEN NoValue ELSE ss[i]]

cancel_tcp_passive_stream(w, i) ==
    [w EXCEPT !.slots = SlotsWithout(@, w.streams[i].peer), !.streams[i] = NoValue]

\* The stream fails for its process as well.
Abort(w, i) ==
    cancel_tcp_passive_stream(
        [w EXCEPT !.procs = fail_tcp_stream(@, w.streams[i].stream, w.streams[i].peer)], i)

Claim(w, m) ==
    LET stream == tcp_stream(w.procs, m.peer)
    IN  IF m.stream # NoValue \/ stream = NoValue THEN m
        ELSE [m EXCEPT !.stream = stream, !.listener = NoValue]

Unclaimed(w, m) ==
    /\ m.stream = NoValue
    /\ m.listener = NoValue \/ ~tcp_listener_active(w.procs, m.listener, m.peer.port)

RefreshMirror(w, i) ==
    LET m == w.streams[i]
        claimed == Claim(w, m)
    IN  IF m = NoValue THEN w
        ELSE IF m.stream # NoValue /\ ~tcp_stream_active(w.procs, m.stream, m.peer)
        THEN cancel_tcp_passive_stream(w, i)
        ELSE IF Unclaimed(w, claimed) THEN cancel_tcp_passive_stream(w, i)
        ELSE IF /\ claimed.send # NoValue
                /\ ~tcp_stream_send_active(w.procs, claimed.stream, m.peer, claimed.send)
        THEN Abort(w, i)
        ELSE [w EXCEPT !.streams[i] = claimed]

\* A mirror whose slot is gone is forgotten first.
Pruned(w) ==
    [w EXCEPT !.streams =
        [i \in StreamSlots |->
            IF /\ w.streams[i] # NoValue
               /\ \A j \in Filled(w.slots) : w.slots[j].peer # w.streams[i].peer
            THEN NoValue ELSE w.streams[i]]]

refresh_streams ==
    /\ pc = "streams" /\ pc' = "event"
    /\ Becomes(Pass(RefreshMirror, Pruned(World)))
    /\ UNCHANGED <<incs, syns, passive, cursor, client, handshakes>>
-----------------------------------------------------------------------------
(* complete_passive_tcp_stream: one event of one slot *)

stream_index(peer) ==
    LET is == {i \in Filled(streams) : streams[i].peer = peer}
    IN  IF is = {} THEN 0 ELSE LowestOf(is)

\* The rotation from the cursor: the first slot that has an event or whose
\* time is up (expired: retries or idle ticks, PassiveTcp).
Distance(i) == (i - cursor + Cardinality(StreamSlots)) % Cardinality(StreamSlots)

CursorAfterFixed(i) == cursor
CursorAfter(i) == (i % Cardinality(StreamSlots)) + 1

EventOf(ss, i, expired) ==
    IF i = expired /\ ss[i].op.end = "live" THEN "failed" ELSE Slot!Event(ss[i].op)

Due(ss, expired) == {i \in Filled(ss) : EventOf(ss, i, expired) # "pending"}

Received(ss, i, stream, n) ==
    LET fits == /\ stream # NoValue /\ tcp_stream_active(procs, stream, ss[i].peer)
                /\ PushReceiveOk(EntryOf(procs, stream), n)
    IN  \/ /\ fits
           /\ procs' = PutEntry(procs, stream, push_receive(EntryOf(procs, stream), n))
           /\ \E op \in Slot!TakeSteps(ss[i].op) : slots' = [ss EXCEPT ![i].op = op]
           /\ UNCHANGED streams
        \/ ~fits /\ slots' = ss /\ UNCHANGED <<procs, streams>>

SendComplete(ss, i, m) ==
    IF /\ m # 0 /\ streams[m].send # NoValue
       /\ tcp_stream_send_active(procs, streams[m].stream, ss[i].peer, streams[m].send)
    THEN /\ procs' = PutEntry(procs, streams[m].stream,
                              complete_server_send(EntryOf(procs, streams[m].stream)))
         /\ slots' = [ss EXCEPT ![i].op = Slot!CompleteSend(@)]
         /\ streams' = [streams EXCEPT ![m].send = NoValue]
    ELSE slots' = ss /\ UNCHANGED <<procs, streams>>

PeerClosed(ss, i, stream) ==
    IF stream # NoValue /\ Holds(procs, stream) /\ ReadCloseOk(EntryOf(procs, stream), ss[i].peer)
    THEN /\ procs' = PutEntry(procs, stream, mark_server_read_closed(EntryOf(procs, stream)))
         /\ slots' = [ss EXCEPT ![i].op = Slot!TellPeerClosed(@)]
         /\ UNCHANGED streams
    ELSE slots' = ss /\ UNCHANGED <<procs, streams>>

Closed(ss, i, m, stream) ==
    /\ IF stream # NoValue /\ tcp_stream_active(procs, stream, ss[i].peer)
       THEN /\ procs' = PutEntry(procs, stream, mark_server_closed(EntryOf(procs, stream)))
            /\ slots' = [ss EXCEPT ![i] = NoValue]
       ELSE slots' = ss /\ UNCHANGED procs
    /\ streams' = IF m = 0 THEN streams ELSE [streams EXCEPT ![m] = NoValue]

\* A stream that ends before it is accepted stays in the backlog.
FailedUnaccepted(ps, m, peer) ==
    IF streams[m].stream # NoValue THEN fail_tcp_stream(ps, streams[m].stream, peer) ELSE ps

FailedFor(ps, m, peer) ==
    IF streams[m].stream # NoValue THEN fail_tcp_stream(ps, streams[m].stream, peer)
    ELSE IF streams[m].listener # NoValue THEN drop_tcp_peer(ps, streams[m].listener, peer)
    ELSE ps

ResetOrFailed(ss, i, m) ==
    /\ procs' = IF m = 0 THEN procs ELSE FailedFor(procs, m, ss[i].peer)
    /\ streams' = IF m = 0 THEN streams ELSE [streams EXCEPT ![m] = NoValue]
    /\ slots' = [ss EXCEPT ![i] = NoValue]

Answer(ss, i, event, n) ==
    LET m == stream_index(ss[i].peer)
        stream == IF m = 0 THEN NoValue ELSE streams[m].stream
    IN  \/ event = "received" /\ Received(ss, i, stream, n)
        \/ event = "send_complete" /\ SendComplete(ss, i, m)
        \/ event = "peer_closed" /\ PeerClosed(ss, i, stream)
        \/ event = "closed" /\ Closed(ss, i, m, stream)
        \/ event \in {"reset", "failed"} /\ ResetOrFailed(ss, i, m)

stream_event ==
    /\ pc = "event" /\ pc' = "starts"
    /\ \E f \in Frames, expired \in {0} \cup Filled(slots), n \in 1 .. BufferCapacity :
         LET ss == SlotsAfter(f)
             due == Due(ss, expired)
             i == CHOOSE j \in due : \A k \in due : Distance(j) <= Distance(k)
         IN  /\ syns' = SynsAfter(f) /\ passive' = PassiveAfter(f)
             /\ \/ /\ due = {}
                   /\ slots' = ss /\ UNCHANGED <<cursor, procs, streams>>
                \/ /\ due # {}
                   /\ cursor' = CursorAfter(i)
                   /\ Answer(ss, i, EventOf(ss, i, expired), n)
    /\ UNCHANGED <<incs, client, handshakes>>
-----------------------------------------------------------------------------
(* complete_passive_tcp_stream: sends and FINs that can start *)

StartSend(w, i, refused) ==
    LET m == w.streams[i]
        e == EntryOf(w.procs, m.stream)
        begun == [w EXCEPT !.procs = Allocated(@, m.stream, e)]
        j == CHOOSE k \in Filled(w.slots) : w.slots[k].peer = m.peer
    IN  IF refused \/ ~Slot!SendOk(w.slots[j].op) THEN Abort(begun, i)
        ELSE [begun EXCEPT
                !.slots[j].op = Slot!Send(@),
                !.streams[i].send = [id |-> w.procs[m.stream.slot].next_request, len |-> e.send]]

StartClose(w, i, refused) ==
    LET m == w.streams[i]
        j == CHOOSE k \in Filled(w.slots) : w.slots[k].peer = m.peer
    IN  IF refused \/ ~Slot!SendOk(w.slots[j].op) THEN Abort(w, i)
        ELSE [w EXCEPT !.slots[j].op = Slot!Close(@), !.streams[i].close_started = TRUE]

SendDue(w, m) ==
    /\ m.send = NoValue /\ Holds(w.procs, m.stream)
    /\ server_send_pending(EntryOf(w.procs, m.stream), m.peer)
    /\ BeginServerOk(EntryOf(w.procs, m.stream))
    /\ CanAllocate(w.procs[m.stream.slot])

CloseDue(w, m) ==
    /\ m.send = NoValue /\ ~m.close_started /\ Holds(w.procs, m.stream)
    /\ server_write_closed(EntryOf(w.procs, m.stream), m.peer)

\* A send leaves no close to start: it needs the socket's write side open.
StartsFor(w, i, refused) ==
    LET m == w.streams[i]
    IN  IF m = NoValue \/ m.stream = NoValue THEN w
        ELSE IF SendDue(w, m) THEN StartSend(w, i, refused)
        ELSE IF CloseDue(w, m) THEN StartClose(w, i, refused)
        ELSE w

stream_starts ==
    /\ pc = "starts" /\ pc' = "listeners"
    /\ \E bad \in SUBSET Filled(streams) :
         LET Step(w, i) == StartsFor(w, i, i \in bad)
         IN  Becomes(Pass(Step, World))
    /\ UNCHANGED <<incs, syns, passive, cursor, client, handshakes>>
-----------------------------------------------------------------------------
(* complete_passive_tcp *)

Stale(i) == ~tcp_listener_active(procs, handshakes[i].listener, handshakes[i].peer.port)

drop_stale_listeners ==
    /\ pc = "listeners" /\ pc' = "handshakes"
    /\ LET stale == {i \in Filled(handshakes) : Stale(i)}
       IN  /\ handshakes' = [i \in HandshakeSlots |->
                               IF i \in stale THEN NoValue ELSE handshakes[i]]
           /\ passive' = [j \in HandshakeSlots |->
                            IF /\ passive[j] # NoValue
                               /\ \E i \in stale :
                                    Tuple(handshakes[i].peer) = Tuple(passive[j].peer)
                            THEN NoValue ELSE passive[j]]
    /\ UNCHANGED <<incs, procs, syns, slots, cursor, client, streams>>

OwnedBy(cap, owner) == cap.slot = owner.slot /\ cap.inc = owner.inc

StreamOwner(m) == IF m.stream # NoValue THEN m.stream ELSE m.listener

passive_owner_count(owner) ==
    Cardinality({i \in Filled(handshakes) : OwnedBy(handshakes[i].listener, owner)})
      + Cardinality({i \in Filled(streams) : OwnedBy(StreamOwner(streams[i]), owner)})

\* Streams that were handed over are not counted.
BudgetLeftHandshakes(owner) ==
    Cardinality({i \in Filled(handshakes) : OwnedBy(handshakes[i].listener, owner)}) < Budget

BudgetLeft(owner) == passive_owner_count(owner) < Budget

AdmitsHandshake(ps, peer) ==
    LET listener == tcp_listener(peer.port)
    IN  /\ listener # NoValue /\ BudgetLeft(listener)
        /\ Empty(handshakes) # {} /\ Empty(ps) # {}
        /\ async = NoValue /\ ~Routed(Tuple(peer))

\* The SYN is accepted, or answered with a reset.
TakeSyn(ps, peer, refused) ==
    IF AdmitsHandshake(ps, peer) /\ ~refused
    THEN /\ passive' = [ps EXCEPT ![LowestOf(Empty(ps))] = [peer |-> peer, st |-> "wait"]]
         /\ handshakes' = [handshakes EXCEPT ![LowestOf(Empty(handshakes))] =
                             [peer |-> peer, listener |-> tcp_listener(peer.port)]]
    ELSE passive' = ps /\ UNCHANGED handshakes

handshake_index(peer) ==
    LET is == {i \in Filled(handshakes) : Tuple(handshakes[i].peer) = Tuple(peer)}
    IN  IF is = {} THEN 0 ELSE LowestOf(is)

StartsStream(ss, peer) ==
    /\ async = NoValue /\ Empty(ss) # {}
    /\ \A i \in Filled(ss) : Tuple(ss[i].peer) # Tuple(peer)

QueuesPeer(listener, peer) ==
    /\ tcp_listener_active(procs, listener, peer.port)
    /\ QueueOk(EntryOf(procs, listener), peer)

NewMirror(peer, listener) ==
    [peer |-> peer, listener |-> listener, stream |-> NoValue, send |-> NoValue,
     close_started |-> FALSE]

\* The stream is attached and queued on its listener, or refused.
Attach(ss, peer, listener) ==
    IF listener # NoValue /\ StartsStream(ss, peer) /\ Empty(streams) # {}
       /\ QueuesPeer(listener, peer)
    THEN /\ \E op \in Slot!Attached :
              slots' = [ss EXCEPT ![LowestOf(Empty(ss))] = [peer |-> peer, op |-> op]]
         /\ streams' = [streams EXCEPT ![LowestOf(Empty(streams))] = NewMirror(peer, listener)]
         /\ procs' = PutEntry(procs, listener, queue_incoming(EntryOf(procs, listener), peer))
    ELSE slots' = ss /\ UNCHANGED <<streams, procs>>

HandshakeEnds(ss, ps, i) ==
    LET peer == ps[i].peer
        h == handshake_index(peer)
    IN  /\ passive' = [ps EXCEPT ![i] = NoValue]
        /\ handshakes' = IF h = 0 THEN handshakes ELSE [handshakes EXCEPT ![h] = NoValue]
        /\ IF ps[i].st = "established"
           THEN Attach(ss, peer, IF h = 0 THEN NoValue ELSE handshakes[h].listener)
           ELSE slots' = ss /\ UNCHANGED <<streams, procs>>

\* The first handshake that ended (or whose retries are spent), else a SYN.
poll_handshakes ==
    /\ pc = "handshakes" /\ pc' = "poll"
    /\ \E f \in Frames, expired \in {0} \cup Filled(passive), refused \in BOOLEAN :
         LET ss == SlotsAfter(f)
             arrived == PassiveAfter(f)
             ps == IF expired = 0 \/ arrived[expired].st # "wait" THEN arrived
                   ELSE [arrived EXCEPT ![expired].st = "failed"]
             ended == {i \in Filled(ps) : ps[i].st # "wait"}
             cells == SynsAfter(f)
         IN  \/ /\ ended # {}
                /\ HandshakeEnds(ss, ps, LowestOf(ended))
                /\ syns' = cells
             \/ /\ ended = {} /\ Filled(cells) # {}
                /\ TakeSyn(ps, cells[LowestOf(Filled(cells))], refused)
                /\ syns' = [cells EXCEPT ![LowestOf(Filled(cells))] = NoValue]
                /\ slots' = ss /\ UNCHANGED <<streams, procs>>
             \/ /\ ended = {} /\ Filled(cells) = {}
                /\ passive' = ps /\ syns' = cells /\ slots' = ss
                /\ UNCHANGED <<handshakes, streams, procs>>
    /\ UNCHANGED <<incs, cursor, client>>
-----------------------------------------------------------------------------
(* ProcessManager::poll: one socket call of one process, then the client    *)
(* request that the call made due.  A call the code refuses changes nothing.*)

With(p, set) == [procs EXCEPT ![p].sockets = set]
WithEntry(p, h, e) == With(p, Put(procs[p].sockets, h, e))

local_port_is_available(port) ==
    \A p \in Running : ~owns_local_port(procs[p].sockets, port)

Outcomes(p, call) ==
    LET set == procs[p].sockets
        On(h) == Entry(set, h)
    IN  CASE call = "open" ->
               {With(p, open(set, protocol)) : protocol \in {q \in Protocol : OpenOk(set)}}
          [] call = "connect" ->
               {WithEntry(p, h, connect(On(h))) : h \in {g \in Handles(set) : ConnectOk(On(g))}}
          [] call = "bind" ->
               {WithEntry(p, b[1], bind(On(b[1]), b[2])) :
                  b \in {c \in Handles(set) \X Ports :
                           BindOk(On(c[1])) /\ local_port_is_available(c[2])}}
          [] call = "listen" ->
               {WithEntry(p, b[1], listen(On(b[1]), b[2])) :
                  b \in {c \in Handles(set) \X (1 .. BacklogCapacity) : ListenOk(On(c[1]), c[2])}}
          [] call = "accept" ->
               {With(p, accept(set, h)) : h \in {g \in Handles(set) : AcceptOk(set, g)}}
          [] call = "send" ->
               {WithEntry(p, b[1], send(On(b[1]), b[2])) :
                  b \in {c \in Handles(set) \X (1 .. BufferCapacity) : SendOk(On(c[1]), c[2])}}
          [] call = "receive" ->
               {WithEntry(p, b[1], receive(On(b[1]), b[2])) :
                  b \in {c \in Handles(set) \X (1 .. BufferCapacity) : ReceiveOk(On(c[1]))}}
          [] call = "shutdown" ->
               {WithEntry(p, b[1], shutdown(On(b[1]), b[2], b[3])) :
                  b \in {c \in Handles(set) \X BOOLEAN \X BOOLEAN :
                           ShutdownOk(On(c[1]), c[2], c[3])}}
          [] call = "close" -> {With(p, close(set, h)) : h \in Handles(set)}

\* begin_socket_request: the request that the slice of p made due.
RequestDue(ps, p) ==
    /\ pending_transport(ps[p].sockets) # NoValue
    /\ BeginOk(Entry(ps[p].sockets, pending_transport(ps[p].sockets)))
    /\ CanAllocate(ps[p])

Request(ps, p) ==
    LET h == pending_transport(ps[p].sockets)
    IN  [slot |-> p, inc |-> ps[p].inc, handle |-> h,
         id |-> ps[p].next_request, len |-> Entry(ps[p].sockets, h).send]

\* The coordinator holds one request; the next one fails.
StoreRequest(ps, request) ==
    IF pending = NoValue THEN pending' = request /\ procs' = ps
    ELSE procs' = complete_request(ps, request, NoValue) /\ UNCHANGED pending

Slice(ps, p) ==
    IF RequestDue(ps, p)
    THEN LET request == Request(ps, p)
         IN  StoreRequest(Allocated(ps, request, EntryOf(ps, request)), request)
    ELSE procs' = ps /\ UNCHANGED pending

poll ==
    /\ pc = "poll" /\ pc' = "request"
    /\ \/ UNCHANGED <<procs, pending>>
       \/ \E p \in Running : Slice(procs, p)
       \/ \E p \in Running, call \in Calls : \E ps \in Outcomes(p, call) : Slice(ps, p)
    /\ UNCHANGED <<incs, network, mirrors, async, started>>

\* A program is launched into a free slot, under a new incarnation.
launch(p) ==
    /\ pc = "request" /\ procs[p] = NoValue /\ incs[p] < IncMax
    /\ incs' = [incs EXCEPT ![p] = @ + 1]
    /\ procs' = [procs EXCEPT ![p] = [inc |-> incs'[p], sockets |-> NewSet, next_request |-> 1]]
    /\ UNCHANGED <<pc, network, mirrors, client>>

\* Exit, fault or kill: revoke_resources closes every socket of the process.
revoke_resources(p) ==
    /\ pc = "request" /\ p \in Running
    /\ procs' = [procs EXCEPT ![p] = NoValue]
    /\ UNCHANGED <<pc, incs, network, mirrors, client>>

Init ==
    /\ pc = "request"
    /\ procs = [p \in Procs |-> NoValue] /\ incs = [p \in Procs |-> 0]
    /\ syns = [i \in SynCells |-> NoValue]
    /\ passive = [i \in HandshakeSlots |-> NoValue]
    /\ handshakes = [i \in HandshakeSlots |-> NoValue]
    /\ slots = [i \in StreamSlots |-> NoValue]
    /\ streams = [i \in StreamSlots |-> NoValue]
    /\ cursor = 1
    /\ async = NoValue /\ pending = NoValue /\ started = FALSE

advance ==
    \/ complete_socket_request
    \/ refresh_streams
    \/ stream_event
    \/ stream_starts
    \/ drop_stale_listeners
    \/ poll_handshakes
    \/ poll

Next == advance \/ \E p \in Procs : launch(p) \/ revoke_resources(p)

Spec == Init /\ [][Next]_vars
-----------------------------------------------------------------------------
(* Safety *)

Images(f) == {f[i] : i \in Filled(f)}

\* The mirrors of the coordinator and the slots of the network name the same
\* connections, each once, whenever an advance begins: no slot is left without
\* a mirror that can free it, and no mirror outlives its slot.
MirrorsAgree ==
    pc = "request" =>
      /\ {m.peer : m \in Images(streams)} = {s.peer : s \in Images(slots)}
      /\ {Tuple(h.peer) : h \in Images(handshakes)} = {Tuple(s.peer) : s \in Images(passive)}
      /\ Cardinality({Tuple(s.peer) : s \in Images(slots)}) = Cardinality(Filled(slots))
      /\ Cardinality(Filled(streams)) = Cardinality(Filled(slots))

Backlog(p, s) == {procs[p].sockets.entries[s].backlog[i] :
                    i \in DOMAIN procs[p].sockets.entries[s].backlog}

\* A peer that waits in a backlog is connected: what accept hands out is a
\* stream the network still serves, never one that was reset or timed out.
BacklogIsConnected ==
    pc = "request" =>
      \A p \in Running : \A s \in Live(procs[p].sockets) :
        Backlog(p, s) \subseteq {x.peer : x \in Images(slots)}

\* A stream that no socket has claimed waits in the backlog of its listener,
\* was just accepted, or its listener is gone: no connection is lost between
\* the backlog and the accepted socket.
UnclaimedIsQueued ==
    pc = "request" =>
      \A m \in Images(streams) : m.stream = NoValue =>
        \/ ~tcp_listener_active(procs, m.listener, m.peer.port)
        \/ m.peer \in Backlog(m.listener.slot, m.listener.handle.slot)
        \/ tcp_stream(procs, m.peer) # NoValue

\* One incarnation never holds more than its budget of the passive slots,
\* counted over handshakes, waiting streams and accepted streams.
OwnerBudget ==
    \A p \in Running : passive_owner_count(Incarnation(p)) <= Budget

\* The client transport has the network to itself, and the operation the
\* network runs is the one of the request that waits for it: a response can
\* complete no other request.
ClientExclusive ==
    /\ (async # NoValue) = started
    /\ started =>
         /\ pending # NoValue
         /\ async = [slot |-> pending.slot, inc |-> pending.inc, id |-> pending.id]
         /\ ~passive_service_active

PortOwners(port) ==
    {<<p, s>> \in Running \X SocketSlots :
        /\ s \in Live(procs[p].sockets)
        /\ procs[p].sockets.entries[s].local_port = port
        /\ procs[p].sockets.entries[s].state \in {"Bound", "Listening"}}

\* One local port has one owner system-wide.
OnePortOwner == \A port \in Ports : Cardinality(PortOwners(port)) <= 1

\* The bytes in flight of an accepted socket are the send of its mirror, so
\* an acknowledgment, a reset or a time-out always finds them.
ServerSendIsMirrored ==
    pc = "request" =>
      \A p \in Running : \A s \in Live(procs[p].sockets) :
        LET e == procs[p].sockets.entries[s]
        IN  e.server_peer # NoValue /\ e.in_flight_send # 0 =>
              \E m \in Images(streams) :
                /\ m.stream = Capability(p, HandleOf(procs[p].sockets, s))
                /\ m.send = [id |-> e.in_flight_request, len |-> e.in_flight_send]

\* The tables of the network, of the coordinator and of the processes agree
\* whenever an advance begins, whoever has died or been reset meanwhile.
TablesAgree ==
    MirrorsAgree /\ BacklogIsConnected /\ UnclaimedIsQueued /\ ServerSendIsMirrored

-----------------------------------------------------------------------------
(* Liveness *)

HasEvent(i) == slots[i] # NoValue /\ Slot!Event(slots[i].op) # "pending"

\* The slot is the last one served, or has nothing to report any more.
Served(i) == ~HasEvent(i) \/ cursor = (i % Cardinality(StreamSlots)) + 1

Waits(p) == pending # NoValue /\ pending.slot = p

=============================================================================
