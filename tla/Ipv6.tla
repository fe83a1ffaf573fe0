------------------------------- MODULE Ipv6 -------------------------------
(* The IPv6 host: it probes its link-local address for a duplicate, asks     *)
(* for a router, takes an address from the router's prefix, probes that, and *)
(* uses it until its lifetime ends.  Frames arrive between the polls of the  *)
(* control timer; the peers on the link send what they like.                 *)
(*                                                                           *)
(* A deadline is kept as the number of ticks to it.  All addresses of the    *)
(* host end in its interface identifier, so they share one solicited-node    *)
(* group.                                                                    *)
EXTENDS Naturals

CONSTANTS
    Prefixes,       \* addresses that the routers' prefixes lead to
    DadTicks,       \* DAD_TICKS
    RsTicks,        \* RS_TICKS
    Lifetimes,      \* ticks that a router or a prefix is valid, 0 among them
    MaxElapsed,     \* ticks that may pass between two polls
    MaxSolicitations,   \* 3
    NoValue

VARIABLES
    host,       \* [state, route, pending, attempts, left, echo_sent, echo_reply]
    age,        \* history: ticks since configuration began, until it is over
    probe,      \* history: address -> ticks since its probe was sent
    conflicted, \* history: addresses whose probe was answered in time
    refused,    \* history: the device refused the link-local probe
    used        \* history: the source of the last frame sent

vars == <<host, age, probe, conflicted, refused, used>>

LinkLocal == "link-local"
Addresses == Prefixes \cup {LinkLocal}
Configuring == {"LinkLocalDad", "RouterSolicitation", "GlobalDad"}

Minus(n, k) == IF n > k THEN n - k ELSE 0

(***************************************************************************)
(* Frames on the link                                                      *)
(***************************************************************************)
Advertisements ==
    [kind : {"ra"}, options : {"complete"},
     address : Prefixes, valid : Lifetimes, lifetime : Lifetimes]
    \cup
    [kind : {"ra"}, options : {"no prefix", "no link address", "malformed"},
     address : Prefixes, valid : {1}, lifetime : {1}]

\* Solicitations and advertisements of a neighbour; a solicitation without a
\* source is itself the probe of an address.
Neighbours ==
    [kind : {"ns"}, source : {"unspecified", "peer"}, source_option : BOOLEAN,
     target : Addresses \cup {"other"}, destination : Addresses \cup {"solicited", "all nodes"}]
    \cup
    [kind : {"na"}, solicited : BOOLEAN,
     target : Addresses \cup {"other"}, destination : Addresses \cup {"solicited", "all nodes"}]

Echoes ==
    [kind : {"echo request", "echo reply"}, destination : Addresses, from_router : BOOLEAN]

Messages == Advertisements \cup Neighbours \cup Echoes

\* What surrounds a message: the extension headers before it and its checksum.
Envelopes ==
    [headers : {<<>>, <<"hop", "options">>, <<"options", "hop">>}, checksum : {TRUE}]
    \cup [headers : {<<>>}, checksum : {FALSE}]

\* One hop-by-hop header, then one of destination options, and nothing else.
parse_frame(e) == e.headers \in {<<>>, <<"hop">>, <<"options">>, <<"hop", "options">>}

valid_transport(e) == e.checksum

\* Of a frame that is dropped it makes no difference what it carries.
Carried(e) == IF parse_frame(e) /\ valid_transport(e) THEN Messages ELSE Echoes

(***************************************************************************)
(* Host                                                                    *)
(***************************************************************************)
Init ==
    /\ host = [state |-> "LinkLocalDad", route |-> NoValue, pending |-> TRUE, attempts |-> 0,
               left |-> DadTicks, echo_sent |-> FALSE, echo_reply |-> FALSE]
    /\ age = 0 /\ probe = [a \in Addresses |-> NoValue] /\ conflicted = {}
    /\ refused = FALSE /\ used = NoValue

\* The deadline of the state has passed.
Deadline(h) ==
    CASE h.pending \/ h.left > 0 -> h
      [] h.state = "LinkLocalDad" -> [h EXCEPT !.state = "RouterSolicitation", !.pending = TRUE]
      [] h.state = "GlobalDad" -> [h EXCEPT !.state = "Ready"]
      [] h.state = "RouterSolicitation" ->
           IF h.attempts >= MaxSolicitations THEN [h EXCEPT !.state = "Unavailable"]
           ELSE [h EXCEPT !.pending = TRUE]
      [] OTHER -> h

\* A used route whose router or prefix is no longer valid is given up.
Expires(h) ==
    IF h.state = "Ready" /\ h.route # NoValue /\ h.route.left = 0
    THEN [h EXCEPT !.route = NoValue, !.state = "RouterSolicitation", !.pending = TRUE,
                   !.attempts = 0, !.echo_reply = FALSE, !.echo_sent = FALSE]
    ELSE h

Tentative(h) == IF h.state = "LinkLocalDad" THEN LinkLocal ELSE h.route.address

\* At most one frame in a poll: the probe, the solicitation or the echo.
poll(h0) ==
    LET h == Expires(Deadline(h0))
        Sends(next, source, target) == [host |-> next, source |-> source, target |-> target]
    IN  CASE h.pending /\ h.state \in {"LinkLocalDad", "GlobalDad"} ->
               Sends([h EXCEPT !.pending = FALSE, !.left = DadTicks], "unspecified", Tentative(h))
          [] h.pending /\ h.state = "RouterSolicitation" ->
               Sends([h EXCEPT !.pending = FALSE, !.attempts = @ + 1, !.left = RsTicks],
                     LinkLocal, NoValue)
          [] h.state = "Ready" /\ ~h.echo_sent ->
               Sends([h EXCEPT !.pending = FALSE, !.echo_sent = TRUE], h.route.address, NoValue)
          [] OTHER -> Sends([h EXCEPT !.pending = FALSE], NoValue, NoValue)

\* The route that an advertisement leads to: neither the router nor its prefix
\* may have ended, and it is good until the first of them does.
router_advertisement(f) ==
    IF f.options = "complete" /\ f.lifetime > 0 /\ f.valid > 0
    THEN [address |-> f.address, left |-> IF f.valid < f.lifetime THEN f.valid ELSE f.lifetime]
    ELSE NoValue

Accepted(h, f) ==
    /\ \/ f.destination \in {LinkLocal, "all nodes"}
       \/ f.destination = "solicited" /\ f.target # "other"
       \/ h.route # NoValue /\ h.route.address = f.destination
    /\ f.kind = "ns" /\ f.source = "unspecified" => f.destination = "solicited" /\ ~f.source_option
    /\ f.kind = "na" /\ f.destination \in {"solicited", "all nodes"} => ~f.solicited

\* Mutant: another host that probes the same address is not a conflict.
ConflictsAnswered(h, f) ==
    /\ h.state \in {"LinkLocalDad", "GlobalDad"} /\ f.target = Tentative(h)
    /\ f.kind = "na"

\* Somebody else has or wants the address that is being probed.
Conflicts(h, f) ==
    /\ h.state \in {"LinkLocalDad", "GlobalDad"} /\ f.target = Tentative(h)
    /\ f.kind = "na" \/ f.source = "unspecified"

OwnsTarget(h, f) ==
    \/ f.target = LinkLocal /\ h.state \notin {"LinkLocalDad", "Duplicate"}
    \/ h.state = "Ready" /\ h.route # NoValue /\ h.route.address = f.target

\* The host after a frame, and the source of the reply.
receive(h, f) ==
    LET Replies(source) == [host |-> h, source |-> source]
        Silent(next) == [host |-> next, source |-> NoValue]
    IN  CASE f.kind = "ra" ->
               IF h.state = "RouterSolicitation" /\ router_advertisement(f) # NoValue
               THEN Silent([h EXCEPT !.state = "GlobalDad", !.pending = TRUE,
                                     !.route = router_advertisement(f)])
               ELSE Silent(h)
          [] f.kind \in {"ns", "na"} ->
               CASE ~Accepted(h, f) -> Silent(h)
                 [] Conflicts(h, f) -> Silent([h EXCEPT !.state = "Duplicate", !.route = NoValue])
                 [] f.kind = "ns" /\ OwnsTarget(h, f) /\ f.destination \in {f.target, "solicited"} ->
                      Replies(f.target)
                 [] OTHER -> Silent(h)
          [] h.state # "Ready" -> Silent(h)
          [] f.kind = "echo reply" ->
               IF h.echo_sent /\ f.from_router /\ f.destination = h.route.address
               THEN Silent([h EXCEPT !.echo_reply = TRUE]) ELSE Silent(h)
          [] f.kind = "echo request" ->
               IF f.destination \in {h.route.address, LinkLocal}
               THEN Replies(f.destination) ELSE Silent(h)

(***************************************************************************)
(* Actions                                                                 *)
(***************************************************************************)
\* A turn of the control work: the clock, one poll, and its frame, which the
\* device may refuse.
advance_control(elapsed, transmitted) ==
    LET passed ==
            [host EXCEPT !.left = Minus(@, elapsed),
                         !.route = IF @ = NoValue THEN @ ELSE [@ EXCEPT !.left = Minus(@, elapsed)]]
        p == poll(passed)
        fails == p.source # NoValue /\ ~transmitted
        older == [a \in Addresses |->
                     CASE probe[a] = NoValue -> NoValue
                       [] probe[a] + elapsed >= DadTicks -> DadTicks
                       [] OTHER -> probe[a] + elapsed]
        expired == host.route # NoValue /\ p.host.route = NoValue
    IN  /\ host' = IF fails THEN [p.host EXCEPT !.state = "Unavailable", !.route = NoValue]
                   ELSE p.host
        /\ probe' = [a \in Addresses |->
                        CASE p.target = a -> IF fails THEN NoValue ELSE 0
                          [] expired /\ host.route.address = a -> NoValue
                          [] OTHER -> older[a]]
        /\ refused' = (refused \/ (fails /\ p.target = LinkLocal))
        /\ used' = IF fails \/ p.source \notin Addresses THEN NoValue ELSE p.source
        /\ age' = IF host'.state \notin Configuring \/ expired THEN 0 ELSE age + elapsed
        /\ UNCHANGED conflicted

\* A frame for the host arrives; whether the reply goes out is not looked at.
receive_ipv4(e, f, transmitted) ==
    LET r == IF parse_frame(e) /\ valid_transport(e) THEN receive(host, f)
             ELSE [host |-> host, source |-> NoValue]
    IN  /\ host' = r.host
        /\ used' = IF transmitted THEN r.source ELSE NoValue
        /\ conflicted' = conflicted \cup
             {a \in Addresses : /\ parse_frame(e) /\ valid_transport(e)
                                /\ f.kind \in {"ns", "na"} /\ Accepted(host, f) /\ f.target = a
                                /\ f.kind = "na" \/ f.source = "unspecified"
                                /\ probe[a] # NoValue /\ probe[a] < DadTicks}
        /\ UNCHANGED <<age, probe, refused>>

Next ==
    \/ \E elapsed \in 0..MaxElapsed, transmitted \in BOOLEAN : advance_control(elapsed, transmitted)
    \/ \E e \in Envelopes, transmitted \in BOOLEAN :
         \E f \in Carried(e) : receive_ipv4(e, f, transmitted)

Spec == Init /\ [][Next]_vars

(***************************************************************************)
(* Property                                                                *)
(***************************************************************************)
\* Duplicate address detection (Host::poll, Host::receive): no frame carries
\* an address of the host as its source before the address was probed for the
\* whole time without an answer, with one exception: when the device refused
\* the very first probe the link-local address is used unprobed.  A conflict
\* leaves no route, a ready host has one, and configuration is over after a
\* bounded time, whatever arrives.
AddressesAreVerified ==
    /\ used # NoValue =>
         /\ used \notin conflicted
         /\ probe[used] = DadTicks \/ (refused /\ used = LinkLocal)
    /\ host.state = "Ready" => host.route # NoValue /\ host.route.address \notin conflicted
    /\ host.state = "Duplicate" => host.route = NoValue
    /\ host.attempts <= MaxSolicitations
    /\ age <= 2 * DadTicks + MaxSolicitations * RsTicks
                + (MaxSolicitations + 3) * MaxElapsed
=============================================================================
