---------------------------- MODULE MCPassiveTcp ----------------------------
(* Three connections for TLC: the constants of the configuration describe a  *)
(* peer that sends to a process that only reads, Sending a process that      *)
(* sends to a peer whose window opens and closes, Both a peer and a process  *)
(* that send at once, through a device that may refuse a frame.              *)
EXTENDS PassiveTcp

VARIABLE question

AllCuts == 0 .. PeerBytes
NoFaults == {FALSE}

Sending == INSTANCE PassiveTcp
    WITH PeerBytes <- 0, Cuts <- {0}, MaxSegment <- 1, AppBytes <- 2, Windows <- {0, 2}

Both == INSTANCE PassiveTcp
    WITH PeerBytes <- 1, Cuts <- {0, 1}, MaxSegment <- 1, AppBytes <- 1, Faults <- BOOLEAN

MCInit == Init /\ question \in {"receive", "send", "both"}

MCNext ==
    /\ \/ question = "receive" /\ Next
       \/ question = "send" /\ Sending!Next
       \/ question = "both" /\ Both!Next
    /\ UNCHANGED question

MCSpec == MCInit /\ [][MCNext]_<<vars, question>>

\* The bytes of the process: what is on the wire is the process's stream, and
\* what is reported as sent was acknowledged.
SentIsAcknowledged ==
    CASE question = "receive" -> WireMatchesStream /\ CompletionIsAcknowledged
      [] question = "send" -> Sending!WireMatchesStream /\ Sending!CompletionIsAcknowledged
      [] question = "both" -> Both!WireMatchesStream /\ Both!CompletionIsAcknowledged
=============================================================================
