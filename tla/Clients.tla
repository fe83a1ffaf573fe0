------------------------------ MODULE Clients ------------------------------
(* The client side of the network: the address from DHCP, the echo request    *)
(* that confirms it, the requests of processes over UDP and TCP that the      *)
(* coordinator polls once in a tick, and the exchanges that a system call     *)
(* waits for.  A waiting exchange may run while a polled operation is under   *)
(* way.                                                                       *)
(*                                                                            *)
(* The wire is the set of frames that servers may have sent so far: each can  *)
(* be received at any time, any number of times, or never.  That stands for   *)
(* loss, duplication and reordering in both directions and for a server that  *)
(* cuts its stream into segments as it likes, resets, or stays silent.        *)
EXTENDS Integers, Sequences, SequencesExt

CONSTANTS
    Ports,          \* the local ports allocate_port hands out, in turn
    SeqSpace,       \* 2^32
    RETRIES,        \* attempts of each step
    RetryTicks,     \* ASYNC_UDP_RETRY_TICKS, ASYNC_TCP_RETRY_TICKS
    Polls,          \* POLL_LIMIT, POLL_LIMIT / RETRIES: polls of a waiting step
    Capacity,       \* ASYNC_TCP_BUFFER_CAPACITY and the caller's buffer
    Lengths,        \* port -> bytes that a server answers on it
    Servers,        \* DHCP servers
    NoValue

VARIABLES
    config,     \* [available, address]
    next_port,
    async,      \* async_udp or async_tcp
    waiting,    \* the exchange that runs to its end, with the kernel
    wire,
    results,    \* history: the answers handed to callers
    offered     \* history: DHCP servers that were asked for their address

vars == <<config, next_port, async, waiting, wire, results, offered>>

(***************************************************************************)
(* Frames                                                                  *)
(***************************************************************************)
Request == 2    \* length of a request

Bytes(port) == [i \in 1 .. Lengths[port] |-> <<port, i>>]
Isn(port) == (SeqSpace - 2 + port) % SeqSpace
LocalSeq(port) == (Isn(port) + 1 + Request) % SeqSpace
ServerIsn(port) == (SeqSpace - 3 + port) % SeqSpace

Segment(port, seq, ack, flags, data) ==
    [kind |-> "tcp", port |-> port, seq |-> seq % SeqSpace, ack |-> ack % SeqSpace,
     flags |-> flags, data |-> data]

\* What a server may answer to a frame.
SynAnswers(port) ==
    {Segment(port, ServerIsn(port), Isn(port) + 1, {"S", "A"}, <<>>),
     Segment(port, 0, Isn(port) + 1, {"R", "A"}, <<>>)}

RequestAnswers(port) ==
    LET s == Bytes(port)
        at(i, j, flags) ==
            Segment(port, ServerIsn(port) + 1 + i, LocalSeq(port), flags, SubSeq(s, i + 1, j))
    IN  {at(i, j, {"A"}) : i, j \in 0 .. Len(s)}
        \cup {at(i, Len(s), {"A", "F"}) : i \in 0 .. Len(s)}
        \cup {Segment(port, ServerIsn(port) + 1, Isn(port) + 1, {"A"}, <<>>)}

Answers(out) ==
    CASE out[1] = "arp" -> {[kind |-> "arp"]}
      [] out[1] = "echo" -> {[kind |-> "echo"]}
      [] out[1] = "discover" -> {[kind |-> "offer", server |-> s] : s \in Servers}
      [] out[1] = "request" -> {[kind |-> "ack", server |-> out[2]]}
      [] out[1] = "udp" -> {[kind |-> "udp", port |-> out[2], data |-> Bytes(out[2])]}
      [] out[1] = "syn" -> SynAnswers(out[2])
      [] out[1] = "data" -> RequestAnswers(out[2])
      [] out[1] = "tcp ack" -> {}

Truncated(data, room) == SubSeq(data, 1, IF Len(data) < room THEN Len(data) ELSE room)

(***************************************************************************)
(* An operation, and what a step leaves of it: the operation, the frames   *)
(* sent, and the answer or the failure that ends it.                       *)
(***************************************************************************)
Operation(call, port, phase) ==
    [call |-> call, port |-> port, phase |-> phase, attempts |-> 0, left |-> 0,
     bytes |-> <<>>, remote_seq |-> 0, age |-> 0]

Goes(o, out) == [op |-> o, out |-> out, answer |-> NoValue]
Ends(out, data) == [op |-> NoValue, out |-> out, answer |-> [ok |-> TRUE, data |-> data]]
Fails(out) == [op |-> NoValue, out |-> out, answer |-> [ok |-> FALSE]]

Phase(o, phase, left) == [o EXCEPT !.phase = phase, !.attempts = 1, !.left = left]

Is(frame, kind) == frame # NoValue /\ frame.kind = kind

PortIgnored(o, frame) == Is(frame, "tcp")       \* mutant of decode_tcp_reply
decode_tcp_reply(o, frame) == Is(frame, "tcp") /\ frame.port = o.port

parse_dhcp(frame, expected_type) == Is(frame, expected_type)

UdpReply(o, frame) == Is(frame, "udp") /\ frame.port = o.port

\* The next hop answered: the request goes out, or the connection is opened.
Resolved(o, left) ==
    CASE o.call = "ping" -> Goes(Phase(o, "Response", left), <<<<"echo">>>>)
      [] o.call = "udp" -> Goes(Phase(o, "Response", left), <<<<"udp", o.port>>>>)
      [] o.call = "tcp" -> Goes(Phase(o, "Syn", left), <<<<"syn", o.port>>>>)

Accepts(o, frame) ==
    {"S", "A"} \subseteq frame.flags /\ frame.ack = (Isn(o.port) + 1) % SeqSpace

\* The server accepted: acknowledge, and send the request.
Connected(o, frame, left) ==
    Goes([Phase(o, "Response", left) EXCEPT !.remote_seq = (frame.seq + 1) % SeqSpace],
         <<<<"tcp ack", o.port>>, <<"data", o.port>>>>)

(***************************************************************************)
(* Polled operations: a frame, then the deadline                           *)
(***************************************************************************)
Repeats(o) ==
    CASE o.phase = "Resolve" -> <<"arp">>
      [] o.phase = "Syn" -> <<"syn", o.port>>
      [] o.call = "udp" -> <<"udp", o.port>>
      [] o.bytes = <<>> -> <<"data", o.port>>
      [] OTHER -> <<"tcp ack", o.port>>

Retry(r) ==
    CASE r.op = NoValue \/ r.op.left > 0 -> r
      [] r.op.attempts >= RETRIES -> Fails(r.out)
      [] OTHER -> Goes([r.op EXCEPT !.attempts = @ + 1, !.left = RetryTicks],
                       Append(r.out, Repeats(r.op)))

poll_udp_async(o, frame) ==
    Retry(CASE o.phase = "Resolve" /\ Is(frame, "arp") -> Resolved(o, RetryTicks)
            [] o.phase = "Response" /\ UdpReply(o, frame) ->
                 Ends(<<>>, Truncated(frame.data, Capacity))
            [] OTHER -> Goes(o, <<>>))

SynSegment(o, frame) ==
    CASE "R" \in frame.flags -> Fails(<<>>)
      [] Accepts(o, frame) -> Connected(o, frame, RetryTicks)
      [] OTHER -> Goes(o, <<>>)

ResponseSegment(o, frame) ==
    LET fin == "F" \in frame.flags
        n == Len(frame.data)
        took == [o EXCEPT !.bytes = @ \o frame.data,
                          !.remote_seq = (@ + n + (IF fin THEN 1 ELSE 0)) % SeqSpace,
                          !.left = IF n # 0 \/ fin THEN RetryTicks ELSE @]
        ack == <<<<"tcp ack", o.port>>>>
    IN  CASE "R" \in frame.flags -> Fails(<<>>)
          [] "A" \in frame.flags /\ frame.ack # LocalSeq(o.port) -> Goes(o, <<>>)
          [] frame.seq # o.remote_seq -> Goes(o, ack)
          [] Len(took.bytes) > Capacity -> Fails(<<>>)
          [] fin -> IF took.bytes = <<>> THEN Fails(ack)
                    ELSE Ends(ack \o ack, took.bytes)
          [] OTHER -> Goes(took, IF n # 0 THEN ack ELSE <<>>)

poll_tcp_async(o, frame) ==
    Retry(CASE o.phase = "Resolve" /\ Is(frame, "arp") -> Resolved(o, RetryTicks)
            [] o.phase = "Syn" /\ decode_tcp_reply(o, frame) -> SynSegment(o, frame)
            [] o.phase = "Response" /\ decode_tcp_reply(o, frame) -> ResponseSegment(o, frame)
            [] OTHER -> Goes(o, <<>>))

(***************************************************************************)
(* Operations that wait: each attempt sends, then polls a bounded number    *)
(* of times                                                                 *)
(***************************************************************************)
Polled(o) == [o EXCEPT !.left = @ - 1]

Again(o, out) ==
    IF o.attempts >= RETRIES THEN Fails(<<>>)
    ELSE Goes([o EXCEPT !.attempts = @ + 1, !.left = Polls], out)

\* A whole attempt is repeated.  The transaction is the same in every attempt,
\* so that a late answer counts.
dhcp_attempt(o, frame) ==
    CASE o.left = 0 -> Again([o EXCEPT !.phase = "Offer"], <<<<"discover">>>>)
      [] o.phase = "Offer" /\ parse_dhcp(frame, "offer") ->
           Goes([o EXCEPT !.phase = "Ack", !.left = Polls], <<<<"request", frame.server>>>>)
      [] o.phase = "Ack" /\ parse_dhcp(frame, "ack") -> Ends(<<>>, frame.server)
      [] OTHER -> Goes(Polled(o), <<>>)

resolve_arp(o, frame) ==
    CASE o.left = 0 -> Again(o, <<<<"arp">>>>)
      [] Is(frame, "arp") -> Resolved(o, Polls)
      [] OTHER -> Goes(Polled(o), <<>>)

ping(o, frame) ==
    CASE o.left = 0 -> Fails(<<>>)
      [] Is(frame, "echo") -> Ends(<<>>, <<>>)
      [] OTHER -> Goes(Polled(o), <<>>)

udp_exchange(o, frame) ==
    CASE o.left = 0 -> Again(o, <<<<"udp", o.port>>>>)
      [] UdpReply(o, frame) -> Ends(<<>>, Truncated(frame.data, Capacity))
      [] OTHER -> Goes(Polled(o), <<>>)

\* The first segment decides whether the connection is open.
tcp_connect(o, frame) ==
    CASE o.left = 0 -> Again(o, <<<<"syn", o.port>>>>)
      [] ~decode_tcp_reply(o, frame) -> Goes(Polled(o), <<>>)
      [] Accepts(o, frame) -> Connected(o, frame, Polls)
      [] OTHER -> Fails(<<>>)

\* Any segment may end the stream, and what does not fit the caller's buffer
\* is dropped.
ExchangeSegment(o, frame) ==
    LET fin == "F" \in frame.flags
        inOrder == frame.data # <<>> /\ frame.seq = o.remote_seq
        took == IF inOrder
                THEN [o EXCEPT !.bytes = Truncated(@ \o frame.data, Capacity),
                               !.remote_seq = (@ + Len(frame.data)) % SeqSpace]
                ELSE o
        ack == <<<<"tcp ack", o.port>>>>
        out == (IF inOrder THEN ack ELSE <<>>) \o (IF fin THEN ack ELSE <<>>)
    IN  CASE "R" \in frame.flags -> Fails(<<>>)
          [] fin /\ took.bytes # <<>> -> Ends(out, took.bytes)
          [] fin -> Fails(out)
          [] OTHER -> Goes(took, out)

tcp_exchange(o, frame) ==
    CASE o.left = 0 -> Again(o, IF o.bytes = <<>> THEN <<<<"data", o.port>>>> ELSE <<>>)
      [] decode_tcp_reply(o, frame) -> ExchangeSegment(Polled(o), frame)
      [] OTHER -> Goes(Polled(o), <<>>)

WaitStep(o, frame) ==
    CASE o.call = "dhcp" -> dhcp_attempt(o, frame)
      [] o.phase = "Resolve" -> resolve_arp(o, frame)
      [] o.call = "ping" -> ping(o, frame)
      [] o.call = "udp" -> udp_exchange(o, frame)
      [] o.phase = "Syn" -> tcp_connect(o, frame)
      [] OTHER -> tcp_exchange(o, frame)

(***************************************************************************)
(* Actions                                                                 *)
(***************************************************************************)
Init ==
    /\ config = [available |-> FALSE, address |-> NoValue]
    /\ next_port = 1 /\ async = NoValue /\ wire = {} /\ results = {} /\ offered = {}
    /\ waiting = Operation("dhcp", 0, "Offer")

\* A frame that the device refuses to send fails the operation; of DHCP, the
\* attempt.
Sent(r, transmitted) ==
    CASE r.out = <<>> \/ transmitted -> r
      [] r.op # NoValue /\ r.op.call = "dhcp" ->
           Goes([r.op EXCEPT !.phase = "Offer", !.left = 0], <<>>)
      [] OTHER -> Fails(<<>>)

\* What the frames bring onto the wire, and the histories.
Record(o, polled, r) ==
    /\ wire' = wire \cup UNION {Answers(r.out[i]) : i \in DOMAIN r.out}
    /\ offered' = offered \cup {out[2] : out \in {out \in Range(r.out) : out[1] = "request"}}
    /\ results' = IF r.op = NoValue /\ r.answer.ok /\ o.call \in {"udp", "tcp"}
                  THEN results \cup {[call |-> o.call, port |-> o.port, polled |-> polled,
                                      data |-> r.answer.data]}
                  ELSE results

allocate_port == next_port \in Ports /\ next_port' = next_port + 1

\* One polled operation at a time.
start_udp_async ==
    /\ config.available /\ async = NoValue /\ waiting = NoValue
    /\ allocate_port
    /\ async' = Operation("udp", next_port, "Resolve")
    /\ UNCHANGED <<config, waiting, wire, results, offered>>

start_tcp_async ==
    /\ config.available /\ async = NoValue /\ waiting = NoValue
    /\ allocate_port
    /\ async' = Operation("tcp", next_port, "Resolve")
    /\ UNCHANGED <<config, waiting, wire, results, offered>>

\* The coordinator polls once in a tick, with the frame that arrived, if any.
poll(frame, transmitted) ==
    /\ async # NoValue /\ waiting = NoValue
    /\ LET o == [async EXCEPT !.age = @ + 1, !.left = IF @ > 0 THEN @ - 1 ELSE 0]
           r == Sent(IF o.call = "udp" THEN poll_udp_async(o, frame)
                     ELSE poll_tcp_async(o, frame), transmitted)
       IN  async' = r.op /\ Record(o, TRUE, r)
    /\ UNCHANGED <<config, next_port, waiting>>

cancel_socket_async ==
    /\ async # NoValue /\ waiting = NoValue
    /\ async' = NoValue
    /\ UNCHANGED <<config, next_port, waiting, wire, results, offered>>

\* A process calls udp_exchange or tcp_exchange.
exchange(call) ==
    /\ config.available /\ waiting = NoValue
    /\ allocate_port
    /\ waiting' = Operation(call, next_port, "Resolve")
    /\ UNCHANGED <<config, async, wire, results, offered>>

\* A poll of the operation that waits, or the next attempt of it.  Once DHCP
\* has an address the gateway is pinged, and without an answer it is given up.
wait(frame, transmitted) ==
    /\ waiting # NoValue
    /\ LET r == Sent(WaitStep([waiting EXCEPT !.age = @ + 1], frame), transmitted)
           leased == r.op = NoValue /\ waiting.call = "dhcp" /\ r.answer.ok
           unreachable == r.op = NoValue /\ waiting.call = "ping" /\ ~r.answer.ok
       IN  /\ waiting' = IF leased THEN Operation("ping", 0, "Resolve") ELSE r.op
           /\ config' = IF leased THEN [available |-> TRUE, address |-> r.answer.data]
                        ELSE IF unreachable THEN [config EXCEPT !.available = FALSE] ELSE config
           /\ Record(waiting, FALSE, r)
    /\ UNCHANGED <<next_port, async>>

Next ==
    \/ start_udp_async \/ start_tcp_async \/ cancel_socket_async
    \/ \E call \in {"udp", "tcp"} : exchange(call)
    \/ \E frame \in wire \cup {NoValue}, transmitted \in BOOLEAN :
           poll(frame, transmitted) \/ wait(frame, transmitted)

Spec == Init /\ [][Next]_vars

(***************************************************************************)
(* Property                                                                *)
(***************************************************************************)
\* An operation ends after at most this many polls, whatever arrives.
Longest(o) ==
    CASE o.call \in {"dhcp", "ping"} -> 2 * RETRIES * (Polls + 1) + 1
      [] OTHER -> 3 * RETRIES * (Polls + 1) + 1
LongestPolled(o) ==
    IF o.call = "udp" THEN 2 * RETRIES * RetryTicks + 1
    ELSE (3 * RETRIES + Capacity) * RetryTicks + 1

\* An answer handed to a caller (poll_udp_async, poll_tcp_async, udp_exchange,
\* tcp_exchange) is the one the server gave on the port of this very operation,
\* whatever earlier operations left on the wire; the polled stream is complete,
\* the waiting one a beginning of it.  The address in use is one that was asked
\* for by name.  And every operation is over after a bounded number of polls.
ClientsAreAnswered ==
    /\ \A r \in results :
         CASE r.call = "udp" -> r.data = Truncated(Bytes(r.port), Capacity)
           [] r.polled -> r.data = Bytes(r.port)
           [] OTHER -> r.data # <<>> /\ IsPrefix(r.data, Bytes(r.port))
    /\ config.available => config.address \in offered
    /\ async # NoValue => async.attempts <= RETRIES /\ async.age <= LongestPolled(async)
    /\ waiting # NoValue => waiting.attempts <= RETRIES /\ waiting.age <= Longest(waiting)
=============================================================================
