----------------------------- MODULE PassiveTcp -----------------------------
(***************************************************************************)
(* One passive TCP connection of kernel/src/network.rs: the handshake slot *)
(* that answers a SYN, the hand-over of early data, and the stream slot    *)
(* that receives, acknowledges, sends, retransmits and closes.             *)
(*                                                                         *)
(* The peer and the wire are external.  The peer's stream is the bytes     *)
(* 1 .. PeerBytes and a FIN; the byte at offset i carries the value i+1,   *)
(* so content and position are compared at once.  The wire may lose,       *)
(* duplicate, delay and reorder: a frame that arrives is any segment the   *)
(* peer may have sent at any time up to now.                               *)
(*                                                                         *)
(* Time is kept relative: a deadline is the number of ticks left to it.    *)
(***************************************************************************)
EXTENDS Integers, Sequences, FiniteSets

CONSTANTS
    Capacity,    \* PASSIVE_TCP_STREAM_BUFFER_CAPACITY, also the MSS
    SeqMod,      \* 2^32 in the code: sequence numbers wrap here
    PeerIsn,     \* initial sequence number of the peer
    LocalIsn,    \* initial sequence number of the kernel
    PeerBytes,   \* length of the peer's stream
    Cuts,        \* offsets at which the peer may begin or end a segment
    MaxSegment,  \* longest payload the peer puts in a segment
    AppBytes,    \* bytes the accepting process has to send
    Windows,     \* windows the peer may advertise
    Retries,     \* RETRIES
    RetryTicks,  \* PASSIVE_TCP_RETRY_TICKS
    MinRto,      \* lower clamp of the retransmission time-out
    IdleTicks,   \* PASSIVE_TCP_STREAM_IDLE_TICKS
    Faults,      \* {FALSE}, or BOOLEAN if the device may refuse a frame
    NoValue      \* None

ASSUME PassiveTcpAssumption ==
    /\ Capacity \in Nat \ {0} /\ SeqMod \in Nat
    /\ PeerBytes + AppBytes + 4 * Capacity + 2 < SeqMod \div 2
    /\ Cuts \subseteq 0 .. PeerBytes /\ {0, PeerBytes} \subseteq Cuts
    /\ FALSE \in Faults /\ Faults \subseteq BOOLEAN

VARIABLES
    phase,       \* "listen", "handshake", "stream" or how the slot was freed
    handshake,   \* PassiveTcpOperation
    stream,      \* PassiveTcpStreamOperation
    out,         \* data frames put on the wire by the last step
    edge,        \* highest offset of its stream the peer was ever allowed
    peer_rcv,    \* offset of the kernel's stream the peer has received up to
    delivered,   \* bytes handed to the accepted socket, in order
    accepted,    \* bytes of the process taken by start_tcp_passive_stream_send
    completed,   \* bytes of the process reported by SendComplete
    peer_closed  \* the process was told of the peer's FIN

vars == <<phase, handshake, stream, out, edge, peer_rcv, delivered, accepted,
          completed, peer_closed>>

ReceiveCapacity == 2 * Capacity
InitialCwnd == 2 * Capacity
MaxCwnd == 8 * Capacity
-----------------------------------------------------------------------------
(* Sequence arithmetic *)

Least(a, b) == IF a <= b THEN a ELSE b
Greatest(a, b) == IF a >= b THEN a ELSE b
wrapping_add(s, n) == (s + n) % SeqMod
wrapping_sub(s, t) == (s - t) % SeqMod

\* The value of a sequence number as an offset in one of the two streams.
PeerSeq(offset) == wrapping_add(PeerIsn, 1 + offset)
LocalSeq(offset) == wrapping_add(LocalIsn, 1 + offset)
PeerOffset(s) == wrapping_sub(s, PeerSeq(0))
LocalOffset(s) == wrapping_sub(s, LocalSeq(0))

sequence_after(value, reference) ==
    wrapping_sub(value, reference) \in 1 .. (SeqMod \div 2 - 1)

sequence_in_window(sequence, next, window) ==
    wrapping_sub(sequence, next) < Greatest(window, 1)

DeferredLen(op) == IF op.deferred = NoValue THEN 0 ELSE Len(op.deferred.bytes)

receive_window(op) == ReceiveCapacity - (Len(op.receive) + DeferredLen(op))

FinPending(op) == op.fin_sent /\ ~op.fin_acked

\* Any progress renews the deadline, also that of a retransmission.
RefreshAlways(op) == [op EXCEPT !.deadline = IdleTicks]

refresh_stream_idle(op) ==
    IF op.send_flight = 0 /\ ~FinPending(op)
    THEN [op EXCEPT !.deadline = IdleTicks] ELSE op
-----------------------------------------------------------------------------
(* Segments.  What the kernel emits is a record with the sequence number,  *)
(* the acknowledgment, the flags, the payload and the window.              *)

Frame(seq, ack, flags, data, window) ==
    [seq |-> seq, ack |-> ack, flags |-> flags, data |-> data, win |-> window]

StreamFrame(op, flags, data) ==
    Frame(op.local_sequence, op.remote_sequence, flags, data, receive_window(op))

StreamAck(op) == StreamFrame(op, {"ACK"}, <<>>)

\* send_tcp advertises the whole receive capacity, whatever is buffered.
StreamReset(op) ==
    Frame(op.local_sequence, op.remote_sequence, {"RST", "ACK"}, <<>>,
          ReceiveCapacity)

Bytes(from, to) == [k \in 1 .. to - from |-> from + k]

Result(op, frames) == [op |-> op, out |-> frames]

\* A frame the device refuses never reaches the wire.
Emit(refused, frames) == IF refused THEN {} ELSE frames
-----------------------------------------------------------------------------
(* handle_stream_segment, one operator per part of it *)

ResetSegment(op, seg, refused) ==
    IF seg.seq = op.remote_sequence
    THEN Result([op EXCEPT !.reset = TRUE], {})
    ELSE IF /\ sequence_in_window(seg.seq, op.remote_sequence, receive_window(op))
            /\ ~op.challenged
         THEN Result([op EXCEPT !.challenged = TRUE], Emit(refused, {StreamAck(op)}))
         ELSE Result(op, {})

SynSegment(op, seg, refused) ==
    IF op.challenged THEN Result(op, {})
    ELSE Result([op EXCEPT !.challenged = TRUE], Emit(refused, {StreamAck(op)}))

AcknowledgesFlight(op, seg) ==
    op.send_flight # 0 /\ seg.ack = wrapping_add(op.local_sequence, op.send_flight)

AcknowledgesFin(op, seg) ==
    FinPending(op) /\ seg.ack = wrapping_add(op.local_sequence, 1)

\* Karn's rule: only a flight that was sent once supplies a sample.
RtoAfterAck(op) ==
    IF op.attempts # 1 THEN op.rto_ticks
    ELSE Least(Greatest((3 * op.rto_ticks + 2 * Greatest(op.elapsed, 1)) \div 4, MinRto),
               2 * RetryTicks)

CwndAfterAck(op) ==
    Least(MaxCwnd,
          op.congestion_window +
            IF op.congestion_window < op.slow_start_threshold THEN Capacity
            ELSE Greatest((Capacity * Capacity) \div op.congestion_window, 1))

RetireFlight(op, seg) ==
    LET rest == SubSeq(op.send, op.send_flight + 1, Len(op.send))
    IN  refresh_stream_idle(
          [op EXCEPT !.rto_ticks = RtoAfterAck(op),
                     !.congestion_window = CwndAfterAck(op),
                     !.local_sequence = seg.ack,
                     !.send = rest,
                     !.send_flight = 0,
                     !.send_completed = (rest = <<>>),
                     !.attempts = 0])

RetireFin(op, seg) ==
    refresh_stream_idle([op EXCEPT !.local_sequence = seg.ack,
                                   !.fin_acked = TRUE,
                                   !.attempts = 0])

FollowsWindowUpdate(op, seg) ==
    \/ sequence_after(seg.seq, op.window_sequence)
    \/ /\ seg.seq = op.window_sequence
       /\ ~sequence_after(op.window_acknowledgment, seg.ack)

UpdateWindow(op, seg) ==
    IF FollowsWindowUpdate(op, seg)
    THEN [op EXCEPT !.peer_window = seg.win,
                    !.window_sequence = seg.seq,
                    !.window_acknowledgment = seg.ack]
    ELSE op

InWindow(op, seg) ==
    sequence_in_window(seg.seq, op.remote_sequence, receive_window(op))

AcknowledgmentValid(op, seg) ==
    /\ "ACK" \in seg.flags
    /\ InWindow(op, seg)
    /\ \/ seg.ack = op.local_sequence
       \/ AcknowledgesFlight(op, seg)
       \/ AcknowledgesFin(op, seg)

ProcessAcknowledgment(op, seg) ==
    IF ~AcknowledgmentValid(op, seg) THEN op
    ELSE UpdateWindow(IF seg.ack = op.local_sequence THEN op
                      ELSE IF AcknowledgesFlight(op, seg) THEN RetireFlight(op, seg)
                      ELSE RetireFin(op, seg), seg)

HasFin(seg) == "FIN" \in seg.flags
CarriesStream(seg) == seg.data # <<>> \/ HasFin(seg)

\* Nothing follows a FIN that was acknowledged, delivered or still deferred.
AfterPeerFin(op) ==
    op.peer_fin \/ (op.deferred # NoValue /\ op.deferred.acknowledged /\ op.deferred.fin)

OverlapsDeferred(op, seg) ==
    /\ seg.data # <<>> /\ op.deferred # NoValue
    /\ ~op.deferred.acknowledged
    /\ seg.seq = op.remote_sequence
    /\ Len(seg.data) > wrapping_sub(op.deferred.sequence, op.remote_sequence)

\* A held segment keeps its bytes; with no room at all nothing is taken.
NoRoom(op, seg) ==
    CarriesStream(seg) /\ (receive_window(op) = 0 \/ OverlapsDeferred(op, seg))

\* The join forgotten: the deferred bytes are never acknowledged.
NoJoin(op) == op

\* Arrival of the missing bytes makes the deferred segment contiguous.
JoinDeferred(op) ==
    IF op.deferred # NoValue /\ op.deferred.sequence = op.remote_sequence
    THEN [op EXCEPT !.deferred.acknowledged = TRUE,
                    !.remote_sequence = wrapping_add(@, Len(op.deferred.bytes) +
                                          (IF op.deferred.fin THEN 1 ELSE 0))]
    ELSE op

AcceptInOrder(op, seg) ==
    JoinDeferred(refresh_stream_idle(
        [op EXCEPT !.receive = seg.data,
                   !.remote_sequence = wrapping_add(@, Len(seg.data))]))

FitsWindow(op, seg) ==
    wrapping_sub(seg.seq, op.remote_sequence) + Len(seg.data)
      + (IF HasFin(seg) THEN 1 ELSE 0) <= receive_window(op)

Defer(op, seg) ==
    LET contiguous == seg.seq = op.remote_sequence
    IN  refresh_stream_idle(
          [op EXCEPT !.deferred = [sequence |-> seg.seq, bytes |-> seg.data,
                                   fin |-> HasFin(seg), acknowledged |-> contiguous],
                     !.remote_sequence =
                        IF contiguous
                        THEN wrapping_add(@, Len(seg.data) + (IF HasFin(seg) THEN 1 ELSE 0))
                        ELSE @])

TakesInOrder(op, seg) == seg.seq = op.remote_sequence /\ op.receive = <<>>
TakesDeferred(op, seg) == op.deferred = NoValue /\ FitsWindow(op, seg)

AcceptData(op, seg) ==
    IF seg.data = <<>> THEN op
    ELSE IF TakesInOrder(op, seg) THEN AcceptInOrder(op, seg)
    ELSE IF TakesDeferred(op, seg) THEN Defer(op, seg)
    ELSE op

AcceptFin(before, op, seg) ==
    IF /\ HasFin(seg)
       /\ ~(seg.data # <<>> /\ ~TakesInOrder(before, seg) /\ TakesDeferred(before, seg))
       /\ wrapping_add(seg.seq, Len(seg.data)) = op.remote_sequence
    THEN refresh_stream_idle(
           [op EXCEPT !.remote_sequence = wrapping_add(@, 1),
                      !.peer_fin = TRUE,
                      !.peer_fin_pending = TRUE])
    ELSE op

handle_stream_segment(before, seg, refused) ==
    IF "RST" \in seg.flags THEN ResetSegment(before, seg, refused)
    ELSE IF "SYN" \in seg.flags THEN SynSegment(before, seg, refused)
    ELSE LET op == ProcessAcknowledgment(before, seg)
             after == AcceptFin(op, AcceptData(op, seg), seg)
         IN  IF CarriesStream(seg) /\ (~AcknowledgmentValid(before, seg) \/ AfterPeerFin(op))
             THEN Result(op, Emit(refused, {StreamAck(op)}))
             ELSE IF Len(seg.data) > Capacity
             THEN Result([op EXCEPT !.failed = TRUE], Emit(refused, {StreamReset(op)}))
             ELSE IF NoRoom(op, seg)
             THEN Result(op, Emit(refused, {StreamAck(op)}))
             ELSE IF CarriesStream(seg)
             THEN Result([after EXCEPT !.failed = @ \/ refused],
                         Emit(refused, {StreamAck(after)}))
             ELSE Result(op, {})
-----------------------------------------------------------------------------
(* poll_tcp_passive_stream for this slot: what is sent, then one event *)

FlightLength(op) ==
    Least(Least(Len(op.send), op.peer_window), op.congestion_window)

transmit_stream_flight(op, refused) ==
    LET flying == [op EXCEPT !.send_flight = FlightLength(op),
                             !.attempts = 1,
                             !.elapsed = 0,
                             !.deadline = op.rto_ticks]
    IN  Result([flying EXCEPT !.failed = @ \/ refused],
               Emit(refused, {StreamFrame(flying, {"ACK", "PSH"},
                                          SubSeq(op.send, 1, FlightLength(op)))}))

\* A probe that spends the next byte of the queue.
ProbeWindowFresh(op, refused) ==
    LET attempts == Least(op.persist_attempts + 1, Retries)
    IN  Result([op EXCEPT !.persist_attempts = attempts,
                          !.persist_deadline = Least(op.rto_ticks * 2^attempts, IdleTicks),
                          !.failed = @ \/ refused],
               Emit(refused, {StreamFrame(op, {"ACK"}, <<0>>)}))

\* The probe repeats a sequence number the peer has already received.
ProbeWindow(op, refused) ==
    LET attempts == Least(op.persist_attempts + 1, Retries)
    IN  Result([op EXCEPT !.persist_attempts = attempts,
                          !.persist_deadline = Least(op.rto_ticks * 2^attempts, IdleTicks),
                          !.failed = @ \/ refused],
               Emit(refused, {[StreamFrame(op, {"ACK"}, <<0>>)
                                EXCEPT !.seq = wrapping_sub(op.local_sequence, 1)]}))

PumpSend(op, refused) ==
    IF op.send = <<>> \/ op.send_flight # 0 THEN Result(op, {})
    ELSE IF op.peer_window # 0 THEN transmit_stream_flight(op, refused)
    ELSE IF op.persist_deadline = 0 THEN ProbeWindow(op, refused)
    ELSE Result(op, {})

RetriesSpent(op) == op.attempts >= Retries

RetryDue(op) == op.deadline = 0 /\ (op.send_flight # 0 \/ FinPending(op))

Retransmit(op, refused) ==
    LET frame == IF op.send_flight # 0
                 THEN StreamFrame(op, {"ACK", "PSH"}, SubSeq(op.send, 1, op.send_flight))
                 ELSE StreamFrame(op, {"ACK", "FIN"}, <<>>)
        rto == Least(2 * op.rto_ticks, 4 * RetryTicks)
    IN  Result([op EXCEPT !.slow_start_threshold =
                              Least(Greatest(op.congestion_window \div 2, Capacity), MaxCwnd),
                          !.congestion_window = Capacity,
                          !.attempts = @ + 1,
                          !.elapsed = 0,
                          !.rto_ticks = rto,
                          !.deadline = rto],
               {frame})

\* The peer's FIN reported before the bytes in front of it.
StreamEventFinFirst(op) ==
    IF op.peer_fin_pending THEN "peer_closed"
    ELSE IF op.receive # <<>> THEN "received"
    ELSE IF op.send_completed THEN "send_complete"
    ELSE IF op.peer_fin /\ op.fin_sent /\ op.fin_acked THEN "closed"
    ELSE "pending"

StreamEvent(op) ==
    IF op.receive # <<>> THEN "received"
    ELSE IF op.send_completed THEN "send_complete"
    ELSE IF op.peer_fin /\ op.fin_sent /\ op.fin_acked THEN "closed"
    ELSE IF op.peer_fin_pending THEN "peer_closed"
    ELSE "pending"

\* Bytes that wait for the process keep the slot alive.
IdleExpiredDrained(op) ==
    /\ op.deadline = 0 /\ op.send_flight = 0 /\ ~FinPending(op)
    /\ op.receive = <<>>

IdleExpired(op) == op.deadline = 0 /\ op.send_flight = 0 /\ ~FinPending(op)

\* The event, the operation and the frames that one poll of the slot yields.
poll_stream(op, refused) ==
    IF op.reset THEN [event |-> "reset", op |-> op, out |-> {}]
    ELSE IF op.failed THEN [event |-> "failed", op |-> op, out |-> {}]
    ELSE IF IdleExpired(op)
    THEN [event |-> "failed", op |-> op, out |-> Emit(refused, {StreamReset(op)})]
    ELSE LET pumped == PumpSend(op, refused)
         IN  IF ~RetryDue(pumped.op)
             THEN [event |-> StreamEvent(pumped.op), op |-> pumped.op, out |-> pumped.out]
             ELSE IF RetriesSpent(pumped.op) \/ refused
             THEN [event |-> "failed", op |-> pumped.op, out |-> pumped.out]
             ELSE LET again == Retransmit(pumped.op, refused)
                  IN  [event |-> StreamEvent(again.op), op |-> again.op,
                       out |-> pumped.out \cup again.out]

\* consume_tcp_passive_stream_receive: a contiguous deferred segment moves up.
ConsumeReceive(op) ==
    IF op.deferred # NoValue /\ op.deferred.acknowledged
    THEN [op EXCEPT !.receive = op.deferred.bytes,
                    !.deferred = NoValue,
                    !.peer_fin = @ \/ op.deferred.fin,
                    !.peer_fin_pending = @ \/ op.deferred.fin]
    ELSE [op EXCEPT !.receive = <<>>]

-----------------------------------------------------------------------------
(* The handshake slot *)

HandshakeFrame(flags, seq, ack) == Frame(seq, ack, flags, <<>>, ReceiveCapacity)

SynAck == HandshakeFrame({"SYN", "ACK"}, LocalIsn, PeerSeq(0))

EarlyAck(hs) ==
    HandshakeFrame({"ACK"}, LocalSeq(0),
        PeerSeq(Len(hs.early) + (IF hs.early_fin THEN 1 ELSE 0)))

NewHandshake ==
    [established |-> FALSE, failed |-> FALSE, early |-> <<>>, early_fin |-> FALSE,
     early_window |-> 2 * Capacity, attempts |-> 1, deadline |-> RetryTicks]

AdmitsEarlyData(hs, seg) ==
    /\ seg.data # <<>> /\ hs.early = <<>> /\ ~hs.early_fin
    /\ Len(seg.data) <= Capacity

AdmitsEarlyFin(hs, seg) ==
    HasFin(seg) /\ ~hs.early_fin /\ (seg.data = <<>> \/ AdmitsEarlyData(hs, seg))

FinalAckValid(hs, seg) ==
    /\ "ACK" \in seg.flags /\ "SYN" \notin seg.flags
    /\ seg.ack = LocalSeq(0)
    /\ seg.seq = PeerSeq(Len(hs.early))

AdmitEarly(hs, seg) ==
    [hs EXCEPT !.early = IF AdmitsEarlyData(hs, seg) THEN seg.data ELSE @,
               !.early_fin = @ \/ AdmitsEarlyFin(hs, seg),
               !.established = TRUE,
               !.deadline = RetryTicks]

handle_handshake_segment(before, seg, refused) ==
    LET hs == [before EXCEPT !.early_window = seg.win]
    IN  IF "RST" \in seg.flags
        THEN Result([before EXCEPT !.failed = @ \/
                       seg.seq = PeerSeq(Len(before.early) +
                                         (IF before.early_fin THEN 1 ELSE 0))], {})
        ELSE IF seg.flags = {"SYN"}
        THEN IF refused THEN Result([before EXCEPT !.failed = TRUE], {})
             ELSE Result([before EXCEPT !.deadline = RetryTicks], {SynAck})
        ELSE IF ~FinalAckValid(before, seg) THEN Result(before, {})
        ELSE IF ~hs.established /\ ~CarriesStream(seg)
        THEN Result([hs EXCEPT !.established = TRUE], {})
        ELSE IF AdmitsEarlyData(hs, seg) \/ AdmitsEarlyFin(hs, seg)
        THEN LET admitted == AdmitEarly(hs, seg)
             IN  Result([admitted EXCEPT !.failed = @ \/ refused],
                        Emit(refused, {EarlyAck(admitted)}))
        ELSE Result(hs, {})

\* start_tcp_passive_stream, with the bytes the new slot starts from.
NewStream(hs, bytes) ==
    [remote_sequence |-> PeerSeq(Len(hs.early) + (IF hs.early_fin THEN 1 ELSE 0)),
     local_sequence |-> LocalSeq(0), receive |-> bytes, deferred |-> NoValue,
     send |-> <<>>, send_flight |-> 0, send_completed |-> FALSE, fin_sent |-> FALSE,
     fin_acked |-> FALSE, peer_fin |-> hs.early_fin, peer_fin_pending |-> hs.early_fin,
     reset |-> FALSE, failed |-> FALSE, attempts |-> 0, deadline |-> IdleTicks,
     elapsed |-> 0, rto_ticks |-> RetryTicks, peer_window |-> hs.early_window,
     window_sequence |-> PeerSeq(0), window_acknowledgment |-> LocalSeq(0),
     persist_deadline |-> RetryTicks, persist_attempts |-> 0, challenged |-> FALSE,
     congestion_window |-> InitialCwnd, slow_start_threshold |-> MaxCwnd]

\* The hand-over without the bytes that the handshake slot acknowledged.
SeedStreamEmpty(hs) == NewStream(hs, <<>>)

SeedStream(hs) == NewStream(hs, hs.early)
-----------------------------------------------------------------------------
(* The peer and the wire *)

\* Everything the peer may have sent so far: slices of its stream inside the
\* window it was given (or a one-byte probe just past it), with any
\* acknowledgment it has held, its FIN, its SYN again, or a reset.
DataSegments ==
    {[seq |-> PeerSeq(i), ack |-> LocalSeq(a), data |-> Bytes(i, j), win |-> w,
      flags |-> IF f THEN {"ACK", "FIN"} ELSE {"ACK"}] :
        <<i, j, a, w, f>> \in
          {t \in Cuts \X Cuts \X (0 .. peer_rcv) \X Windows \X BOOLEAN :
             /\ t[1] <= t[2] /\ t[2] - t[1] <= MaxSegment
             /\ t[2] <= edge \/ (t[1] = edge /\ t[2] = edge + 1)
             /\ t[5] => t[2] = PeerBytes}}

AfterFinSegments ==
    {[seq |-> PeerSeq(PeerBytes + 1), ack |-> LocalSeq(a), data |-> <<>>,
      win |-> w, flags |-> {"ACK"}] :
        a \in {b \in 0 .. peer_rcv : PeerBytes <= edge}, w \in Windows}

ControlSegments ==
    {[seq |-> PeerIsn, ack |-> 0, data |-> <<>>, win |-> 0, flags |-> {"SYN"}]}
      \cup {[seq |-> PeerSeq(i), ack |-> 0, data |-> <<>>, win |-> 0, flags |-> {"RST"}] :
              i \in {c \in Cuts : c <= edge}}

PeerSegments == DataSegments \cup AfterFinSegments \cup ControlSegments

\* The last offset of the kernel's stream that has been transmitted.
Transmitted ==
    IF phase # "stream" THEN peer_rcv
    ELSE LocalOffset(stream.local_sequence) + stream.send_flight
           + (IF FinPending(stream) THEN 1 ELSE 0)

PeerReceives ==
    /\ phase = "stream" /\ ~stream.failed
    /\ peer_rcv' \in peer_rcv + 1 .. Transmitted
    /\ UNCHANGED <<phase, handshake, stream, out, edge, delivered, accepted,
                   completed, peer_closed>>
-----------------------------------------------------------------------------
(* Actions *)

\* Records the data frames of a step and the room all its frames give the peer.
Puts(frames) ==
    /\ out' = {f \in frames : f.data # <<>>}
    /\ edge' = LET granted == {PeerOffset(f.ack) + f.win : f \in
                                  {g \in frames : "RST" \notin g.flags}}
               IN  CHOOSE e \in {edge} \cup {Least(g, PeerBytes + 1) : g \in granted} :
                     \A g \in granted \cup {edge} : Least(g, PeerBytes + 1) <= e

Free(how) == phase' = how /\ handshake' = NoValue /\ stream' = NoValue

Init ==
    /\ phase = "listen" /\ handshake = NoValue /\ stream = NoValue
    /\ out = {} /\ edge = 0 /\ peer_rcv = 0 /\ delivered = <<>>
    /\ accepted = 0 /\ completed = 0 /\ peer_closed = FALSE

start_tcp_passive(refused) ==
    /\ phase = "listen"
    /\ IF refused THEN Free("refused")
       ELSE phase' = "handshake" /\ handshake' = NewHandshake /\ stream' = NoValue
    /\ Puts(Emit(refused, {SynAck}))
    /\ UNCHANGED <<peer_rcv, delivered, accepted, completed, peer_closed>>

\* pump_passive_rx takes one frame and routes it to the slot that owns it.
pump_passive_rx(seg, refused) ==
    /\ \/ /\ phase = "handshake"
          /\ LET r == handle_handshake_segment(handshake, seg, refused)
             IN  handshake' = r.op /\ stream' = NoValue /\ Puts(r.out)
       \/ /\ phase = "stream"
          /\ LET r == handle_stream_segment(stream, seg, refused)
             IN  stream' = r.op /\ handshake' = NoValue /\ Puts(r.out)
    /\ UNCHANGED <<phase, peer_rcv, delivered, accepted, completed, peer_closed>>

\* The coordinator has a stream slot and a listener for it, or it has not.
poll_tcp_passive(refused, admitted) ==
    /\ phase = "handshake"
    /\ \/ /\ handshake.failed
          /\ Free("failed") /\ Puts({})
       \/ /\ ~handshake.failed /\ handshake.established /\ admitted
          /\ phase' = "stream" /\ stream' = SeedStream(handshake) /\ handshake' = NoValue
          /\ Puts({})
       \/ /\ ~handshake.failed /\ handshake.established /\ ~admitted
          /\ Free("refused")
          /\ Puts(Emit(refused, {HandshakeFrame({"RST", "ACK"}, LocalSeq(0), PeerSeq(0))}))
       \/ /\ ~handshake.failed /\ ~handshake.established /\ handshake.deadline = 0
          /\ IF RetriesSpent(handshake) \/ refused
             THEN Free("failed") /\ Puts({})
             ELSE /\ handshake' = [handshake EXCEPT !.attempts = @ + 1,
                                                    !.deadline = RetryTicks]
                  /\ Puts({SynAck}) /\ UNCHANGED <<phase, stream>>
    /\ UNCHANGED <<peer_rcv, delivered, accepted, completed, peer_closed>>

\* The poll of the stream slot and the coordinator's answer to its event;
\* taken: the accepted socket has room for the received bytes.
poll_tcp_passive_stream(refused, taken) ==
    /\ phase = "stream"
    /\ LET r == poll_stream(stream, refused)
           consumed == ConsumeReceive(r.op)
       IN  /\ \/ /\ r.event \in {"reset", "failed", "closed"}
                 /\ Free(r.event) /\ Puts(r.out)
                 /\ UNCHANGED <<delivered, completed, peer_closed>>
              \/ /\ r.event = "received" /\ taken
                 /\ stream' = consumed /\ delivered' = delivered \o r.op.receive
                 /\ Puts(r.out \cup Emit(refused, {StreamAck(consumed)}))
                 /\ UNCHANGED <<phase, handshake, completed, peer_closed>>
              \/ /\ r.event = "pending" \/ (r.event = "received" /\ ~taken)
                 /\ stream' = r.op /\ Puts(r.out)
                 /\ UNCHANGED <<phase, handshake, delivered, completed, peer_closed>>
              \/ /\ r.event = "send_complete"
                 /\ stream' = [r.op EXCEPT !.send_completed = FALSE]
                 /\ completed' = accepted /\ Puts(r.out)
                 /\ UNCHANGED <<phase, handshake, delivered, peer_closed>>
              \/ /\ r.event = "peer_closed"
                 /\ stream' = [r.op EXCEPT !.peer_fin_pending = FALSE]
                 /\ peer_closed' = TRUE /\ Puts(r.out)
                 /\ UNCHANGED <<phase, handshake, delivered, completed>>
    /\ UNCHANGED <<peer_rcv, accepted>>

start_tcp_passive_stream_send(n, refused) ==
    /\ phase = "stream"
    /\ stream.send = <<>> /\ ~stream.send_completed /\ ~stream.fin_sent
    /\ n <= Least(Capacity, stream.congestion_window) /\ accepted + n <= AppBytes
    /\ LET queued == [stream EXCEPT !.send = Bytes(accepted, accepted + n),
                                    !.deadline = IdleTicks,
                                    !.persist_deadline = stream.rto_ticks,
                                    !.persist_attempts = 0]
           r == IF stream.peer_window = 0 THEN Result(queued, {})
                ELSE transmit_stream_flight(queued, refused)
       IN  IF r.op.failed THEN Free("failed") /\ Puts({})
           ELSE stream' = r.op /\ Puts(r.out) /\ UNCHANGED <<phase, handshake>>
    /\ accepted' = accepted + n
    /\ UNCHANGED <<peer_rcv, delivered, completed, peer_closed>>

start_tcp_passive_stream_close(refused) ==
    /\ phase = "stream"
    /\ stream.send = <<>> /\ ~stream.send_completed /\ ~stream.fin_sent
    /\ IF refused THEN Free("failed") /\ Puts({})
       ELSE /\ stream' = [stream EXCEPT !.fin_sent = TRUE, !.attempts = 1,
                                        !.deadline = RetryTicks]
            /\ Puts({[StreamFrame(stream, {"ACK", "FIN"}, <<>>) EXCEPT !.win = ReceiveCapacity]})
            /\ UNCHANGED <<phase, handshake>>
    /\ UNCHANGED <<peer_rcv, delivered, accepted, completed, peer_closed>>

cancel_tcp_passive_stream(refused) ==
    /\ phase = "stream"
    /\ Free("cancelled") /\ Puts(Emit(refused, {StreamReset(stream)}))
    /\ UNCHANGED <<peer_rcv, delivered, accepted, completed, peer_closed>>

cancel_tcp_passive(refused) ==
    /\ phase = "handshake"
    /\ Free("cancelled")
    /\ Puts(Emit(refused, {HandshakeFrame({"RST", "ACK"}, LocalSeq(0), PeerSeq(0))}))
    /\ UNCHANGED <<peer_rcv, delivered, accepted, completed, peer_closed>>

Countdown(n) == IF n = 0 THEN 0 ELSE n - 1

\* A sample longer than this is clamped to the same time-out.
MaxElapsed == 4 * RetryTicks

Tick ==
    /\ \/ /\ phase = "handshake"
          /\ handshake' = [handshake EXCEPT !.deadline = Countdown(@)]
          /\ UNCHANGED stream
       \/ /\ phase = "stream"
          /\ stream' = [stream EXCEPT !.deadline = Countdown(@),
                                      !.persist_deadline = Countdown(@),
                                      !.elapsed = IF stream.send_flight = 0 THEN 0
                                                  ELSE Least(@ + 1, MaxElapsed),
                                      !.challenged = FALSE]
          /\ UNCHANGED handshake
    /\ UNCHANGED <<phase, out, edge, peer_rcv, delivered, accepted, completed,
                   peer_closed>>

Next ==
    \/ \E refused \in Faults :
         \/ start_tcp_passive(refused)
         \/ \E seg \in PeerSegments : pump_passive_rx(seg, refused)
         \/ \E admitted \in BOOLEAN : poll_tcp_passive(refused, admitted)
         \/ \E taken \in BOOLEAN : poll_tcp_passive_stream(refused, taken)
         \/ \E n \in 1 .. AppBytes : start_tcp_passive_stream_send(n, refused)
         \/ start_tcp_passive_stream_close(refused)
         \/ cancel_tcp_passive_stream(refused)
         \/ cancel_tcp_passive(refused)
    \/ PeerReceives
    \/ Tick

Spec == Init /\ [][Next]_vars
-----------------------------------------------------------------------------
(* Safety *)

\* What the receiver holds in front of the next sequence number it asks for.
Held ==
    delivered \o stream.receive \o
      (IF stream.deferred # NoValue /\ stream.deferred.acknowledged
       THEN stream.deferred.bytes ELSE <<>>)

\* Every byte the kernel has acknowledged, in the handshake slot or in the
\* stream slot, was delivered to the socket or is still buffered, in the order
\* of the peer's stream, once, whatever is lost, repeated or reordered.
AcknowledgedIsHeld ==
    /\ delivered = Bytes(0, Len(delivered))
    /\ phase = "handshake" => handshake.early = Bytes(0, Len(handshake.early))
    /\ phase = "stream" =>
         /\ Held = Bytes(0, Len(Held))
         /\ PeerOffset(stream.remote_sequence)
              = Len(Held) + (IF AfterPeerFin(stream) THEN 1 ELSE 0)

\* SendComplete means the peer has received every byte of the send, and the
\* slot is closed only when the peer has received the FIN as well.
CompletionIsAcknowledged ==
    /\ completed <= peer_rcv
    /\ phase = "closed" => peer_rcv = completed + 1 /\ completed = accepted

\* Every byte put on the wire at an offset the peer still waits for is the
\* byte of the process's stream at that offset: a flight, its retransmission
\* and a window probe never disagree.
WireMatchesStream ==
    \A f \in out : \A k \in 1 .. Len(f.data) :
        LocalOffset(f.seq) + k \in peer_rcv + 1 .. AppBytes
            => f.data[k] = LocalOffset(f.seq) + k

Unacknowledged(op) == op.send_flight # 0 \/ FinPending(op)

\* While a flight or a FIN waits for its acknowledgment only its own
\* retransmission moves the deadline away: received bytes never postpone it.
RetransmissionNotPostponed ==
    [][(/\ phase = "stream" /\ phase' = "stream"
        /\ Unacknowledged(stream) /\ Unacknowledged(stream')
        /\ stream.local_sequence = stream'.local_sequence
        /\ stream.fin_sent = stream'.fin_sent
        /\ stream.send_flight = stream'.send_flight
        /\ stream.attempts = stream'.attempts)
       => stream'.deadline <= stream.deadline]_vars
\* The stream slot as the coordinator sees it.
SlotView(op) ==
    [receive |-> op.receive # <<>>,
     send |-> IF op.send # <<>> THEN "queued"
              ELSE IF op.send_completed THEN "completed" ELSE "none",
     fin |-> IF op.fin_acked THEN "acked" ELSE IF op.fin_sent THEN "sent" ELSE "open",
     peer_fin |-> IF ~op.peer_fin THEN "open"
                  ELSE IF op.peer_fin_pending THEN "pending" ELSE "told",
     end |-> IF op.reset THEN "reset" ELSE IF op.failed THEN "failed" ELSE "live"]

Promise == INSTANCE StreamSlot
    WITH slot <- IF phase = "stream" THEN SlotView(stream) ELSE NoValue

\* The stream slot keeps the promise the coordinator is built on: its events
\* come in the order received, sent, closed, and no flag moves back.
SlotRefined == Promise!Spec
-----------------------------------------------------------------------------
(* Liveness *)

\* The first cut after an offset: where the peer ends the segment it repeats.
NextCut(i) == CHOOSE c \in Cuts : c > i /\ \A d \in Cuts : d > i => c <= d

\* The segment a peer repeats until it is acknowledged: the one at the next
\* sequence number asked for, with the FIN when the stream ends there.
RepeatedSegments ==
    LET i == PeerOffset(IF phase = "stream" THEN stream.remote_sequence ELSE PeerSeq(0))
        j == IF i < PeerBytes THEN NextCut(i) ELSE PeerBytes
    IN  {[seq |-> PeerSeq(i), ack |-> LocalSeq(peer_rcv), data |-> Bytes(i, j), win |-> w,
          flags |-> IF j = PeerBytes THEN {"ACK", "FIN"} ELSE {"ACK"}] :
            w \in {v \in Windows : i <= PeerBytes /\ (j <= edge \/ (i = edge /\ j = i + 1))}}

\* The coordinator polls every tick; nothing is asked of the wire.
FairClock ==
    /\ WF_vars(Tick)
    /\ WF_vars(\E refused \in Faults, admitted \in BOOLEAN : poll_tcp_passive(refused, admitted))
    /\ WF_vars(\E refused \in Faults, taken \in BOOLEAN : poll_tcp_passive_stream(refused, taken))

FairClockSpec == Spec /\ FairClock

\* The handshake slot is always given back ("Passive retry and idle lifetimes are
\* finite", docs/TCP_REQUIREMENTS.md).  A SYN that is repeated before the
\* deadline renews the deadline and is not counted as an attempt.
HandshakeIsReleased == phase = "handshake" ~> phase # "handshake"

=============================================================================
