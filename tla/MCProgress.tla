----------------------------- MODULE MCProgress -----------------------------
(* What must go on, for TLC.  Two connections, each under the fairness its    *)
(* question assumes: a peer that repeats its segments to a process that reads *)
(* (the constants of the configuration), and a wire and a peer that promise   *)
(* nothing.  And the kernel's loop: three processes for the turns they get,   *)
(* with the calls that use the queues; a pair with every call and every way   *)
(* back into the kernel, for what they wait for.  One question is asked in a  *)
(* behaviour; v1 to v12 are the variables of the loop.                        *)
EXTENDS PassiveTcp

VARIABLES
    question,
    repeated,   \* the last step took the segment that the peer repeats
    v1, v2, v3, v4, v5, v6, v7, v8, v9, v10, v11, v12

Loop == <<v1, v2, v3, v4, v5, v6, v7, v8, v9, v10, v11, v12>>
all == <<question, repeated, vars, Loop>>

-----------------------------------------------------------------------------
PairCuts == {c \in 0 .. PeerBytes : c % 2 = 0 \/ c = PeerBytes}
NoFaults == {FALSE}

Careless == INSTANCE PassiveTcp
    WITH PeerBytes <- 1, Cuts <- {0, 1}, MaxSegment <- 1, AppBytes <- 1,
         Windows <- {0, 1}, Capacity <- 1

Every == {"abi_version", "yield", "console", "sleep", "wait_input", "socket_wait",
          "socket_receive", "socket_send", "vfs", "launch", "kill", "reap", "exit", "fault"}

Turns == INSTANCE Dispatch
    WITH procs <- v1, current <- v2, root <- v3, clock <- v4, loop <- v5, schedule <- v6,
         socket_wait_schedule <- v7, pending <- v8, dropped <- v9, passed <- v10,
         skipped <- v11, slice <- v12,
         WakeBudget <- 2, BatchCapacity <- 4, FallbackPeriod <- 2, MaxSleep <- 1,
         MaxLag <- 1, Consoles <- {0}, Masks <- {{"key"}},
         N <- 3, Returns <- {"bounded"}, Calls <- {"abi_version", "socket_wait", "console", "launch"}

Pairs == INSTANCE Dispatch
    WITH procs <- v1, current <- v2, root <- v3, clock <- v4, loop <- v5, schedule <- v6,
         socket_wait_schedule <- v7, pending <- v8, dropped <- v9, passed <- v10,
         skipped <- v11, slice <- v12,
         WakeBudget <- 2, BatchCapacity <- 4, FallbackPeriod <- 2, MaxSleep <- 1,
         MaxLag <- 1, Consoles <- {0}, Masks <- {{"key"}},
         N <- 2, Returns <- {"bounded", "stray"}, Calls <- Every

-----------------------------------------------------------------------------
MCInit ==
    /\ Init /\ repeated = FALSE
    /\ \/ /\ question \in {"served", "released"}
          /\ v1 = NoValue /\ v2 = NoValue /\ v3 = NoValue /\ v4 = NoValue
          /\ v5 = NoValue /\ v6 = NoValue /\ v7 = NoValue /\ v8 = NoValue
          /\ v9 = NoValue /\ v10 = NoValue /\ v11 = NoValue /\ v12 = NoValue
       \/ question = "turns" /\ Turns!Init
       \/ question = "dispatch" /\ Pairs!Init

TakeRepeated == \E seg \in RepeatedSegments : pump_passive_rx(seg, FALSE)

MCNext ==
    /\ \/ /\ UNCHANGED Loop
          /\ \/ question = "served" /\ Next /\ repeated' = FALSE
             \/ question = "served" /\ TakeRepeated /\ repeated' = TRUE
             \/ question = "released" /\ Careless!Next /\ UNCHANGED repeated
       \/ /\ UNCHANGED <<vars, repeated>>
          /\ \/ question = "turns" /\ Turns!Next
             \/ question = "dispatch" /\ Pairs!Next
    /\ UNCHANGED question

Served(A) == question = "served" /\ A
Released(A) == question = "released" /\ A
Dispatched(A) == question = "dispatch" /\ A

\* The first connection has a wire that delivers what is repeated (as fair as
\* WF_vars(TakeRepeated)) and a process that reads and stays; of the second
\* only the clock and the coordinator's polls are fair.
StreamRuns ==
    /\ []<>(question = "served" => repeated \/ ~ENABLED <<TakeRepeated>>_vars)
    /\ WF_vars(Served(start_tcp_passive(FALSE)))
    /\ WF_vars(Served(PeerReceives /\ peer_rcv' = Transmitted))
    /\ WF_vars(Released(Tick))
    /\ WF_vars(\/ Served(poll_tcp_passive(FALSE, TRUE))
               \/ Released(\E admitted \in BOOLEAN :
                             Careless!poll_tcp_passive(FALSE, admitted)))
    /\ WF_vars(\/ Served(poll_tcp_passive_stream(FALSE, TRUE))
               \/ Released(\E taken \in BOOLEAN :
                             Careless!poll_tcp_passive_stream(FALSE, taken)))

\* The kernel's own steps never wait, and the timer interrupts for ever.
LoopRuns ==
    /\ WF_Loop(Dispatched(Pairs!poll_fallback \/ Pairs!advance \/ Pairs!scan_on \/ Pairs!halt))
    /\ WF_Loop(Dispatched(Pairs!genos_irq0))

\* Assumed of the programs, for the timer takes the processor only from an armed
\* one: a program arms preemption or ends its slice by a call.
ProgramsReturn == []<>(question = "dispatch" => ~Pairs!Unarmed)

MCSpec == MCInit /\ [][MCNext]_all /\ StreamRuns /\ LoopRuns /\ ProgramsReturn

-----------------------------------------------------------------------------
\* A ready process is passed over by at most a full round of the others, and one
\* whose socket is ready by at most a full round of the wake budget, whatever the
\* others do.  A program runs as the process the kernel chose, under its address
\* space and from a frame inside its own bounds, and a suspended process is
\* recorded where its wake-up looks for it, whose places are never overrun.
SlicesAreFair ==
    /\ question = "turns" => Turns!BoundedService /\ Turns!SliceIsOwned /\ Turns!WaitsAreHeld
    /\ question = "dispatch" => Pairs!BoundedService /\ Pairs!SliceIsOwned /\ Pairs!WaitsAreHeld

\* The timer and the round robins keep the machine going: no process stays ready
\* without a slice, asleep or waiting for a socket for ever, unless the kernel
\* leaves its loop.  (P ~> ~P, written as []<>~P.)
ProcessesProgress ==
    \A p \in 0..1 :
        /\ []<>(question = "dispatch" => ~Pairs!Runnable(p) \/ Pairs!Halted)
        /\ []<>(question = "dispatch" => ~Pairs!Suspended(p) \/ Pairs!Halted)

\* With a wire that delivers and a process that reads, the stream is served
\* to its end unless the slot is freed first: no mix of lost, late and
\* repeated segments leaves the receiver refusing the segment it asks for.
\* With nothing asked of the wire or the peer, the slot is given back: retries
\* are counted, and idle time runs out because only progress of one of the two
\* finite streams renews it.  (P ~> Q \/ ~P, written as []<>(Q \/ ~P).)
StreamProgresses == []<>((question = "served" /\ peer_closed) \/ phase # "stream")
=============================================================================
