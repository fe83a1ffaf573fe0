--------------------------- MODULE MCSocketService --------------------------
(* Five small systems for TLC, one for each question: the constants of the   *)
(* configuration describe a process that serves one peer, across a restart.  *)
EXTENDS SocketService

VARIABLE question

Peer(from, isn) == [from |-> from, port |-> 1, isn |-> isn]

OnePeer == {Peer(1, 1)}
TwoPeers == {Peer(1, 1), Peer(2, 1)}

\* Two peers compete for the budget of one process.
Budgets == INSTANCE SocketService
    WITH Peers <- TwoPeers, GenerationMax <- 2, SynCells <- {1, 2},
         HandshakeSlots <- {1, 2}, StreamSlots <- {1, 2},
         Calls <- {"open", "bind", "listen", "accept", "close"}

\* Two processes share the client transport beside the passive side.
Clients == INSTANCE SocketService
    WITH Procs <- {1, 2}, SocketSlots <- {1}, BufferCapacity <- 2, GenerationMax <- 1,
         Protocol <- {"Udp", "TcpStream"},
         Calls <- {"open", "bind", "listen", "connect", "send", "shutdown", "close"}

\* A process accepts two streams and never reads.
Siblings == INSTANCE SocketService
    WITH Peers <- TwoPeers, BacklogCapacity <- 2, GenerationMax <- 2, IncMax <- 1,
         RequestMax <- 0, HandshakeSlots <- {1, 2}, StreamSlots <- {1, 2}, Budget <- 2,
         Calls <- {"open", "bind", "listen", "accept"}

\* Two processes wait for the client transport.
Waiting == INSTANCE SocketService
    WITH Procs <- {1, 2}, SocketSlots <- {1}, GenerationMax <- 1, IncMax <- 1,
         Calls <- {"open", "bind", "listen", "connect", "send"}

MCInit ==
    \/ question = "streams" /\ Init
    \/ question = "budgets" /\ Budgets!Init
    \/ question = "clients" /\ Clients!Init
    \/ question = "siblings" /\ Siblings!Init
    \/ question = "waiting" /\ Waiting!Init

MCNext ==
    /\ \/ question = "streams" /\ Next
       \/ question = "budgets" /\ Budgets!Next
       \/ question = "clients" /\ Clients!Next
       \/ question = "siblings" /\ Siblings!Next
       \/ question = "waiting" /\ Waiting!Next
    /\ UNCHANGED question

\* The kernel loop runs the coordinator on and on: advance is always enabled,
\* so its weak fairness is that both ends of the loop are reached again.  The
\* client transport gets its turn only if the passive side is idle again and
\* again and the operation of the network ends.
MCSpec ==
    /\ MCInit /\ [][MCNext]_<<vars, question>>
    /\ []<>(pc = "request") /\ []<>(pc = "poll")
    /\ []<>(question = "waiting" => pc = "request" /\ ~Waiting!passive_service_active)
    /\ []<>(question = "waiting" => ~started)

\* The tables agree for one connection at a time and for two, and with two peers
\* no process holds more of the passive slots than its budget.
SocketTablesAgree ==
    /\ question = "streams" => TablesAgree
    /\ question = "siblings" => Siblings!TablesAgree
    /\ question = "budgets" => Budgets!OwnerBudget

\* The client transport and the ports, with two processes.
ClientOwnsTransport ==
    question = "clients" => Clients!ClientExclusive /\ Clients!OnePortOwner

\* A stream slot that has something to report is polled: a sibling whose
\* process never reads reports the same bytes again and again and starves
\* nobody.  A client request that waits for the network is resolved.
SocketsProgress ==
    \A i \in {1, 2} :
      /\ (question = "siblings" /\ Siblings!HasEvent(i))
           ~> (question = "siblings" => Siblings!Served(i))
      /\ (question = "waiting" /\ Waiting!Waits(i)) ~> ~Waiting!Waits(i)
=============================================================================
