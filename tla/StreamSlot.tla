----------------------------- MODULE StreamSlot -----------------------------
(***************************************************************************)
(* What one stream slot of network.rs promises the coordinator: a few      *)
(* flags that the wire may only move forward, and the order in which they  *)
(* are reported.  PassiveTcp implements it; SocketService is built on it.  *)
(***************************************************************************)
CONSTANT NoValue

VARIABLE slot

Slots ==
    [receive : BOOLEAN,                          \* bytes for the socket
     send : {"none", "queued", "completed"},     \* the one send
     fin : {"open", "sent", "acked"},            \* the kernel's FIN
     peer_fin : {"open", "pending", "told"},     \* the peer's FIN
     end : {"live", "reset", "failed"}]

\* A slot starts from the early data and FIN of its handshake.
Attached ==
    {s \in Slots : /\ s.send = "none" /\ s.fin = "open" /\ s.end = "live"
                   /\ s.peer_fin \in {"open", "pending"}}

\* A frame may deliver bytes and a FIN, acknowledge, or end the stream.
WireStep(s, t) ==
    /\ t.receive # s.receive => t.receive /\ s.peer_fin = "open"
    /\ t.send # s.send => s.send = "queued" /\ t.send = "completed"
    /\ t.fin # s.fin => s.fin = "sent" /\ t.fin = "acked"
    /\ t.peer_fin # s.peer_fin => s.peer_fin = "open" /\ t.peer_fin = "pending"
    /\ t.end # s.end => s.end # "reset" /\ t.end # "live"

WireSteps(s) == {t \in Slots : WireStep(s, t)}

\* A poll may find the device closed to it.
PollSteps(s) == {s, [s EXCEPT !.end = IF @ = "live" THEN "failed" ELSE @]}

Event(s) ==
    IF s.end # "live" THEN s.end
    ELSE IF s.receive THEN "received"
    ELSE IF s.send = "completed" THEN "send_complete"
    ELSE IF s.peer_fin # "open" /\ s.fin = "acked" THEN "closed"
    ELSE IF s.peer_fin = "pending" THEN "peer_closed"
    ELSE "pending"

\* Bytes behind the ones that are taken, and a FIN behind those, move up.
TakeSteps(s) ==
    IF s.peer_fin # "open" THEN {[s EXCEPT !.receive = FALSE]}
    ELSE {[s EXCEPT !.receive = more, !.peer_fin = fin] :
            more \in BOOLEAN, fin \in {"open", "pending"}}

CompleteSend(s) == [s EXCEPT !.send = "none"]
TellPeerClosed(s) == [s EXCEPT !.peer_fin = "told"]

SendOk(s) == s.send = "none" /\ s.fin = "open"
Send(s) == [s EXCEPT !.send = "queued"]
Close(s) == [s EXCEPT !.fin = "sent"]

Answers(s) ==
    CASE Event(s) = "received" -> TakeSteps(s) \cup {s}
      [] Event(s) = "send_complete" -> {CompleteSend(s)}
      [] Event(s) = "peer_closed" -> {TellPeerClosed(s)}
      [] OTHER -> {s}

Init == slot = NoValue

Next ==
    \/ slot = NoValue /\ slot' \in Attached
    \/ slot' = NoValue
    \/ slot # NoValue /\ slot' \in Slots /\ WireStep(slot, slot')
    \/ /\ slot # NoValue /\ slot.end = "live"
       /\ \E s \in Answers(slot) : slot' \in PollSteps(s)
    \/ slot # NoValue /\ SendOk(slot) /\ slot' = Send(slot)
    \/ slot # NoValue /\ SendOk(slot) /\ slot' = Close(slot)

Spec == Init /\ [][Next]_slot
=============================================================================
