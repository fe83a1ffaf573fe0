---------------------------- MODULE MCVirtioNet ----------------------------
(* Small instances of VirtioNet: the ring has two entries and its indices   *)
(* wrap at four, so that a few frames take both of them round.  The         *)
(* constants of the configuration describe a device that only receives.     *)
EXTENDS VirtioNet

VARIABLE question

Sending == INSTANCE VirtioNet WITH MaxFrames <- 1, MaxSends <- 5, Lossy <- TRUE
RogueRx == INSTANCE VirtioNet WITH MaxFrames <- 1, MaxSends <- 0, Rogue <- TRUE
RogueTx == INSTANCE VirtioNet WITH MaxFrames <- 0, MaxSends <- 1, Rogue <- TRUE
Polled == INSTANCE VirtioNet WITH MaxFrames <- 2, MaxSends <- 1, Lossy <- TRUE

MCInit == Init /\ question \in {"receive", "send", "rogue_rx", "rogue_tx", "poll"}

MCNext ==
    /\ \/ question = "receive" /\ Next
       \/ question = "send" /\ Sending!Next
       \/ question = "rogue_rx" /\ RogueRx!Next
       \/ question = "rogue_tx" /\ RogueTx!Next
       \/ question = "poll" /\ Polled!Next
    /\ UNCHANGED question

\* The coordinator polls the device on every iteration, and every call ends.
MCSpec ==
    /\ MCInit /\ [][MCNext]_<<vars, question>>
    /\ WF_vars(question = "poll" /\ Receive)
    /\ WF_vars(question = "poll" /\ (ReadIndex \/ Admit \/ Copy \/ Repost \/ Publish))
    /\ WF_vars(question = "poll" /\ (Fill \/ Notify \/ Spin \/ ReadUsed))

\* A frame the device completed is taken, even if its interrupt was lost, or
\* the queue is quarantined.
FrameIsTaken ==
    \A n \in 1..2 : (question = "poll" /\ Len(hist.arrived) >= n) ~> Taken(n)
=============================================================================
