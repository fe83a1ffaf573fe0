------------------------------ MODULE Endpoint ------------------------------
(***************************************************************************)
(* The per-process endpoint authority of kernel/src/endpoint.rs, the       *)
(* unified handle registry of kernel/src/capability.rs and the fair        *)
(* message queue of kernel/src/ipc.rs, as operators on values.             *)
(*                                                                         *)
(* An EndpointState is a record                                            *)
(*   handles          the fixed capability array, NoCap in a free slot     *)
(*   next_generation  the next generation to hand out                      *)
(*   published        the generation published now, 0 for none             *)
(*   queue            the published endpoint's messages, oldest first      *)
(*   pending          the handle a receive is parked on, NoHandle for none *)
(* The owner pid of the source is the pid of the process the record        *)
(* belongs to, so an endpoint handle is the pair of its generation and its *)
(* slot: the bit packing of endpoint_handle is injective on them.          *)
(***************************************************************************)
EXTENDS Naturals, FiniteSets, Sequences

CONSTANTS
  Pids,             \* the runtime pids 1..255 a process can be given
  Slots,            \* 1..MAX_ASYNC_PROCESSES
  IncarnationMax,   \* the last value of a u64 slot incarnation
  HandleCapacity,   \* ENDPOINT_HANDLE_CAPACITY
  QueueCapacity,    \* ENDPOINT_QUEUE_CAPACITY
  GenerationMax,    \* ENDPOINT_GENERATION_MAX
  TableCapacity,    \* HANDLE_TABLE_CAPACITY
  NoCap,
  NoHandle

ASSUME EndpointConstants ==
  /\ HandleCapacity \in Nat \ {0}
  /\ QueueCapacity \in Nat \ {0}
  /\ GenerationMax \in Nat \ {0}
  /\ TableCapacity \in Nat
  /\ Slots \subseteq Nat
  /\ IsFiniteSet(Slots)
  /\ IncarnationMax \in Nat \ {0}

\* ProcessKey: a slot and how often it had been filled, never reused.
Key == [slot : Slots, incarnation : 1..IncarnationMax]

CapSlots == 1..HandleCapacity

Generations == 1..GenerationMax

Handle == [gen : Generations, slot : CapSlots]

\* A capability.  A receive capability publishes its own generation; a send
\* capability names the pid and the generation observed when it connected.
\* "target" is history: which process that was; no operation reads it.
SendCap == [role : {"Send"}, gen : Generations,
            target_pid : Pids, target_generation : Generations, target : Key]
ReceiveCap == [role : {"Receive"}, gen : Generations]

ASSUME NoCapIsNoCapability == NoCap \notin SendCap \cup ReceiveCap
ASSUME NoHandleIsNoHandle == NoHandle \notin Handle

Kind(cap) == IF cap.role = "Send" THEN "EndpointSend" ELSE "EndpointReceive"

NewEndpointState ==
  [handles |-> [s \in CapSlots |-> NoCap], next_generation |-> 1,
   published |-> 0, queue |-> << >>, pending |-> NoHandle]

-----------------------------------------------------------------------------
(* The unified registry: a set of entries, bounded by its capacity.        *)

EndpointEntry(kind, h) == [kind |-> kind, gen |-> h.gen, slot |-> h.slot]

\* Handle values of different families carry different tags; the two endpoint
\* kinds share one family.
Family(kind) ==
  IF kind \in {"EndpointSend", "EndpointReceive"} THEN "Endpoint" ELSE kind

SameValue(a, b) ==
  Family(a.kind) = Family(b.kind) /\ a.gen = b.gen /\ a.slot = b.slot

CanRegister(table, entry) ==
  /\ \A e \in table : ~SameValue(e, entry)
  /\ Cardinality(table) < TableCapacity

-----------------------------------------------------------------------------
(* Resolution of a handle the process presents.                            *)

\* EndpointState::capability: the slot holds a capability of exactly this
\* generation, and the registry still allows it.
Resolves(e, table, h) ==
  LET cap == e.handles[h.slot] IN
  /\ cap # NoCap
  /\ cap.gen = h.gen
  /\ EndpointEntry(Kind(cap), h) \in table

ResolvesSend(e, table, h) ==
  Resolves(e, table, h) /\ e.handles[h.slot].role = "Send"

\* EndpointState::receive_generation
ResolvesReceive(e, table, h) ==
  /\ Resolves(e, table, h)
  /\ e.handles[h.slot].role = "Receive"
  /\ e.published = h.gen

-----------------------------------------------------------------------------
(* State changes.                                                          *)

IsFirstFree(e, s) ==
  /\ e.handles[s] = NoCap
  /\ \A t \in CapSlots : t < s => e.handles[t] # NoCap

TakeGeneration(e) == [e EXCEPT !.next_generation = e.next_generation + 1]

\* EndpointState::allocate, after the generation was taken and registered.
WithCapability(e, s, cap) == [TakeGeneration(e) EXCEPT !.handles[s] = cap]

\* EndpointState::create, after the generation was taken and registered.
WithPublished(e, s) ==
  [WithCapability(e, s, [role |-> "Receive", gen |-> e.next_generation])
     EXCEPT !.published = e.next_generation, !.queue = << >>]

\* EndpointState::close of a handle that resolves.
Closed(e, h) ==
  IF e.handles[h.slot].role = "Receive"
  THEN [e EXCEPT !.handles[h.slot] = NoCap, !.published = 0,
                 !.queue = << >>, !.pending = NoHandle]
  ELSE [e EXCEPT !.handles[h.slot] = NoCap]

\* EndpointState::clear and clear_payload: everything but the generation.
Cleared(e) == [NewEndpointState EXCEPT !.next_generation = e.next_generation]

\* A capability that names an endpoint in a set of pid and generation pairs.
Names(cap, targets) ==
  /\ cap # NoCap
  /\ cap.role = "Send"
  /\ <<cap.target_pid, cap.target_generation>> \in targets

\* EndpointState::revoke_send_handles, for every target of a set at once.
Revoked(e, targets) ==
  [e EXCEPT !.handles =
     [s \in CapSlots |-> IF Names(e.handles[s], targets)
                         THEN NoCap ELSE e.handles[s]]]

\* Mutant of RevokedEntries: forgets to unregister what it revokes.
RevokedEntriesLeft(e, table, targets) == table

RevokedEntries(e, table, targets) ==
  {en \in table : ~ \E s \in CapSlots :
      /\ Names(e.handles[s], targets)
      /\ en = EndpointEntry("EndpointSend", [gen |-> e.handles[s].gen, slot |-> s])}

\* Mutant of ContainsSender: admission does not look at the producer.
ContainsSenderNever(q, pid) == FALSE

\* ChannelQueue::contains_sender
ContainsSender(q, pid) == \E k \in 1..Len(q) : q[k].sender_pid = pid

\* EndpointState::enqueue admits the message.
Admits(e, msg) ==
  /\ e.published # 0
  /\ ~ContainsSender(e.queue, msg.sender_pid)
  /\ Len(e.queue) < QueueCapacity

Enqueued(e, msg) == [e EXCEPT !.queue = Append(e.queue, msg)]
=============================================================================
