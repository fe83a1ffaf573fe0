-------------------------- MODULE ProcessResources --------------------------
(***************************************************************************)
(* What one process holds, as values: its record p, its endpoint state e,  *)
(* its registry t and its process handles own.  A step of ProcessManager   *)
(* changes the values of each slot in one of a few ways; every one of them *)
(* keeps the values in order.                                              *)
(***************************************************************************)
EXTENDS ProcessTypes

Capability == SendCap \cup ReceiveCap

\* The registry entries of an array of endpoint capabilities, of an array of
\* process capabilities and of a shell's rights.
CapEntry(cap, s) == [kind |-> Kind(cap), gen |-> cap.gen, slot |-> s]
EndpointEntries(caps) ==
  {CapEntry(caps[s], s) : s \in {c \in CapSlots : caps[c] # NoCap}}

ProcEntry(cap, s) == [kind |-> "Process", gen |-> cap.gen, slot |-> s]
ProcEntries(own) ==
  {ProcEntry(own[s], s) : s \in {c \in ProcSlots : own[c] # NoCap}}

Rights(p) == IF p # NoProc /\ ~p.completed /\ p.supervisor THEN ShellEntries ELSE {}

\* RegistryAgrees, for one process.
Agree(p, caps, t, own) == t = EndpointEntries(caps) \cup ProcEntries(own) \cup Rights(p)

\* FairQueue, for one endpoint.
Fair(e) ==
  /\ Len(e.queue) <= QueueCapacity
  /\ e.published = 0 => e.queue = << >>
  /\ \A j, k \in 1..Len(e.queue) : e.queue[j].sender_pid = e.queue[k].sender_pid => j = k

\* TerminalHoldsNothing, for one process.
HoldsNothing(e, t, own) ==
  /\ \A s \in CapSlots : e.handles[s] = NoCap
  /\ e.published = 0
  /\ e.pending = NoHandle
  /\ t = {}
  /\ own = NoProcessHandles

EndedClean(p, e, t, own) ==
  p # NoProc /\ p.completed =>
    /\ p.state \in TerminalStates
    /\ p.pending_launch = 0
    /\ HoldsNothing(e, t, own)

\* ParkedReceiver, for one process.
WaitsOn(p, reason) ==
  p # NoProc /\ ~p.completed /\ p.state = "Waiting" /\ p.blocked_on = reason

ParkedWell(p, e, t) ==
  WaitsOn(p, "Endpoint") =>
    /\ e.pending # NoHandle
    /\ ResolvesReceive(e, t, e.pending)
    /\ e.queue = << >>

\* An empty slot controls no process.
VacantClean(p, own) == p = NoProc => own = NoProcessHandles

Orderly(p, e, t, own) ==
  /\ Agree(p, e.handles, t, own)
  /\ Fair(e)
  /\ EndedClean(p, e, t, own)
  /\ ParkedWell(p, e, t)
  /\ VacantClean(p, own)

OwnedHandles == [ProcSlots -> ProcessCap \cup {NoCap}]

-----------------------------------------------------------------------------
(* The entries of arrays.                                                  *)

\* An array without capabilities has no entries.
LEMMA NoEntries ==
  /\ \A caps : (\A s \in CapSlots : caps[s] = NoCap) => EndpointEntries(caps) = {}
  /\ ProcEntries(NoProcessHandles) = {}
BY DEF EndpointEntries, ProcEntries, NoProcessHandles

\* Filling a free slot adds its entry.
LEMMA EntryAdded ==
  ASSUME NEW caps \in [CapSlots -> Capability \cup {NoCap}], NEW s \in CapSlots,
         caps[s] = NoCap, NEW cap \in Capability
  PROVE  EndpointEntries([caps EXCEPT ![s] = cap])
           = EndpointEntries(caps) \cup {CapEntry(cap, s)}
<1>1. cap # NoCap
  BY NoCapIsNoCapability DEF Capability
<1> QED BY <1>1 DEF EndpointEntries

\* Clearing a slot removes its entry and no other.
LEMMA EntryRemoved ==
  ASSUME NEW caps \in [CapSlots -> Capability \cup {NoCap}], NEW s \in CapSlots
  PROVE  EndpointEntries([caps EXCEPT ![s] = NoCap])
           = EndpointEntries(caps) \ {CapEntry(caps[s], s)}
<1>1. \A c \in CapSlots : CapEntry(caps[c], c) = CapEntry(caps[s], s) => c = s
  BY DEF CapEntry
<1> QED BY <1>1 DEF EndpointEntries

\* The same for process handles.
LEMMA ProcEntryAdded ==
  ASSUME NEW own \in OwnedHandles, NEW h \in ProcSlots, own[h] = NoCap,
         NEW cap \in ProcessCap
  PROVE  ProcEntries([own EXCEPT ![h] = cap]) = ProcEntries(own) \cup {ProcEntry(cap, h)}
BY NoCapIsNoProcessCap DEF ProcEntries, OwnedHandles

\* Closing a process handle removes its entry and no other.
LEMMA ProcEntryRemoved ==
  ASSUME NEW own \in OwnedHandles, NEW h \in ProcSlots
  PROVE  ProcEntries([own EXCEPT ![h] = NoCap]) = ProcEntries(own) \ {ProcEntry(own[h], h)}
<1>1. \A c \in ProcSlots : ProcEntry(own[c], c) = ProcEntry(own[h], h) => c = h
  BY DEF ProcEntry
<1> QED BY <1>1 DEF ProcEntries, OwnedHandles

\* The three families of entries never meet.
LEMMA FamiliesApart ==
  /\ \A cap, s : CapEntry(cap, s).kind \in {"EndpointSend", "EndpointReceive"}
  /\ \A cap, s : ProcEntry(cap, s).kind = "Process"
  /\ \A caps : \A en \in EndpointEntries(caps) : en.kind \in {"EndpointSend", "EndpointReceive"}
  /\ \A own : \A en \in ProcEntries(own) : en.kind = "Process"
  /\ \A p : \A en \in Rights(p) : en.kind \in {"Console", "Lifecycle"}
<1>1. \A cap, s : CapEntry(cap, s).kind \in {"EndpointSend", "EndpointReceive"}
  BY DEF CapEntry, Kind
<1>2. \A cap, s : ProcEntry(cap, s).kind = "Process"
  BY DEF ProcEntry
<1>3. \A caps : \A en \in EndpointEntries(caps) : en.kind \in {"EndpointSend", "EndpointReceive"}
  BY <1>1 DEF EndpointEntries
<1>4. \A own : \A en \in ProcEntries(own) : en.kind = "Process"
  BY <1>2 DEF ProcEntries
<1>5. \A p : \A en \in Rights(p) : en.kind \in {"Console", "Lifecycle"}
  BY DEF Rights, ShellEntries
<1> QED BY <1>1, <1>2, <1>3, <1>4, <1>5

\* revoke_send_handles and the unregistering of what it revokes: the entries
\* that are left are those of the capabilities that are left.
LEMMA SweepAgrees ==
  ASSUME NEW p, NEW e \in EndpointState, NEW t, NEW own, NEW targets,
         Agree(p, e.handles, t, own)
  PROVE  Agree(p, Revoked(e, targets).handles, RevokedEntries(e, t, targets), own)
<1> DEFINE left == Revoked(e, targets).handles
           rest == ProcEntries(own) \cup Rights(p)
           kept == RevokedEntries(e, t, targets)
<1>1. \A s \in CapSlots : left[s] = IF Names(e.handles[s], targets) THEN NoCap ELSE e.handles[s]
  BY RevokedValue
<1>2. \A s \in CapSlots : Names(e.handles[s], targets) =>
         /\ e.handles[s] # NoCap
         /\ CapEntry(e.handles[s], s)
              = EndpointEntry("EndpointSend", [gen |-> e.handles[s].gen, slot |-> s])
  BY DEF Names, CapEntry, Kind, EndpointEntry
<1>3. kept = {en \in t : \A s \in CapSlots : Names(e.handles[s], targets)
                                              => en # CapEntry(e.handles[s], s)}
  BY <1>2, Zenon DEF RevokedEntries
<1>4. \A r, s \in CapSlots : CapEntry(e.handles[r], r) = CapEntry(e.handles[s], s) => r = s
  BY DEF CapEntry
<1>5. \A en \in rest, s \in CapSlots : en # CapEntry(e.handles[s], s)
  BY FamiliesApart
<1>6. t = EndpointEntries(e.handles) \cup rest
  BY DEF Agree
<1> HIDE DEF left, rest, kept
<1>7. \A en : en \in EndpointEntries(left) <=>
         \E s \in CapSlots : /\ e.handles[s] # NoCap /\ ~Names(e.handles[s], targets)
                             /\ en = CapEntry(e.handles[s], s)
  BY <1>1 DEF EndpointEntries
<1>8. \A en : en \in EndpointEntries(e.handles) <=>
         \E s \in CapSlots : e.handles[s] # NoCap /\ en = CapEntry(e.handles[s], s)
  BY DEF EndpointEntries
<1>9. kept = EndpointEntries(left) \cup rest
  <2>1. \A en : en \in kept => en \in EndpointEntries(left) \cup rest
    BY <1>3, <1>6, <1>7, <1>8
  <2>2. \A en : en \in EndpointEntries(left) \cup rest => en \in kept
    BY <1>3, <1>4, <1>5, <1>6, <1>7, <1>8
  <2> QED BY <2>1, <2>2
<1> QED BY <1>9 DEF Agree, left, rest, kept
-----------------------------------------------------------------------------
(* Each way a step changes the values of a slot keeps them in order.       *)

\* The fields of the fresh endpoint state.
LEMMA NewEndpointStateValue ==
  /\ \A s \in CapSlots : NewEndpointState.handles[s] = NoCap
  /\ NewEndpointState.published = 0
  /\ NewEndpointState.queue = << >>
  /\ NewEndpointState.pending = NoHandle
BY DEF NewEndpointState

\* EndpointState::clear leaves only the next generation.
LEMMA ClearedValue ==
  ASSUME NEW e
  PROVE  /\ \A s \in CapSlots : Cleared(e).handles[s] = NoCap
         /\ Cleared(e).published = 0
         /\ Cleared(e).queue = << >>
         /\ Cleared(e).pending = NoHandle
BY DEF Cleared, NewEndpointState

\* An empty queue is fair.
LEMMA EmptyIsFair ==
  ASSUME NEW e, e.queue = << >>
  PROVE  Fair(e)
<1>1. Len(e.queue) = 0
  OBVIOUS
<1> QED BY <1>1, EndpointConstants DEF Fair

\* A process that starts: nothing but a shell's rights.
LEMMA BornOrderly ==
  ASSUME NEW p \in Process, ~p.completed, p.blocked_on = "None",
         NEW e, e = NewEndpointState, NEW t, t = Rights(p)
  PROVE  Orderly(p, e, t, NoProcessHandles)
<1>1. Agree(p, e.handles, t, NoProcessHandles)
  BY NoEntries, NewEndpointStateValue DEF Agree
<1>2. Fair(e)
  BY EmptyIsFair, NewEndpointStateValue
<1> QED BY <1>1, <1>2, NoProcIsNoProcess DEF Orderly, EndedClean, ParkedWell, WaitsOn, VacantClean

\* A slot that is emptied.
LEMMA VacatedOrderly == Orderly(NoProc, NewEndpointState, {}, NoProcessHandles)
<1>1. Rights(NoProc) = {}
  BY DEF Rights
<1>2. Agree(NoProc, NewEndpointState.handles, {}, NoProcessHandles)
  BY <1>1, NoEntries, NewEndpointStateValue DEF Agree
<1>3. Fair(NewEndpointState)
  BY EmptyIsFair, NewEndpointStateValue
<1> QED BY <1>2, <1>3 DEF Orderly, EndedClean, ParkedWell, WaitsOn, VacantClean

\* A process that ends.
LEMMA EndedOrderly ==
  ASSUME NEW p, NEW e, p # NoProc,
         p.completed, p.state \in TerminalStates, p.pending_launch = 0,
         \A s \in CapSlots : e.handles[s] = NoCap,
         e.published = 0, e.queue = << >>, e.pending = NoHandle
  PROVE  Orderly(p, e, {}, NoProcessHandles)
<1>1. Rights(p) = {}
  BY DEF Rights
<1>2. Agree(p, e.handles, {}, NoProcessHandles)
  BY <1>1, NoEntries DEF Agree
<1>3. Fair(e)
  BY EmptyIsFair
<1> QED BY <1>2, <1>3 DEF Orderly, EndedClean, HoldsNothing, ParkedWell, WaitsOn, VacantClean

\* The sweep of another process's endpoints.
LEMMA SweptOrderly ==
  ASSUME NEW p, NEW e \in EndpointState, NEW t, NEW own, NEW targets,
         Orderly(p, e, t, own)
  PROVE  Orderly(p, Revoked(e, targets), RevokedEntries(e, t, targets), own)
<1> DEFINE f == Revoked(e, targets)
           u == RevokedEntries(e, t, targets)
<1>1. Agree(p, f.handles, u, own)
  BY SweepAgrees DEF Orderly
<1>2. /\ f.published = e.published /\ f.queue = e.queue /\ f.pending = e.pending
      /\ \A s \in CapSlots : f.handles[s]
            = IF Names(e.handles[s], targets) THEN NoCap ELSE e.handles[s]
  BY RevokedValue
<1>3. u \subseteq t
  BY DEF RevokedEntries
<1>4. \A en \in t : en.kind # "EndpointSend" => en \in u
  BY DEF RevokedEntries, EndpointEntry
<1>5. e.pending \in Handle \cup {NoHandle}
  BY DEF EndpointState
<1> HIDE DEF f, u
<1>6. Fair(f)
  BY <1>2 DEF Orderly, Fair
<1>7. EndedClean(p, f, u, own)
  BY <1>2, <1>3 DEF Orderly, EndedClean, HoldsNothing
<1>8. ParkedWell(p, f, u)
  <2> SUFFICES ASSUME WaitsOn(p, "Endpoint")
               PROVE  /\ f.pending # NoHandle
                      /\ ResolvesReceive(f, u, f.pending)
                      /\ f.queue = << >>
    BY DEF ParkedWell
  <2> DEFINE h == e.pending
  <2>1. /\ h # NoHandle /\ ResolvesReceive(e, t, h) /\ e.queue = << >>
    BY DEF Orderly, ParkedWell
  <2>2. h \in Handle /\ h.slot \in CapSlots
    BY <1>5, <2>1 DEF Handle
  <2>3. /\ e.handles[h.slot] # NoCap /\ e.handles[h.slot].gen = h.gen
        /\ EndpointEntry("EndpointReceive", h) \in t
        /\ e.handles[h.slot].role = "Receive" /\ e.published = h.gen
    BY <2>1 DEF ResolvesReceive, Resolves, Kind
  <2>4. f.handles[h.slot] = e.handles[h.slot]
    BY <1>2, <2>2, <2>3, Zenon DEF Names
  <2>5. EndpointEntry("EndpointReceive", h).kind = "EndpointReceive"
    BY DEF EndpointEntry
  <2>6. EndpointEntry("EndpointReceive", h) \in u
    BY <1>4, <2>3, <2>5
  <2> QED BY <1>2, <2>1, <2>3, <2>4, <2>6 DEF ResolvesReceive, Resolves, Kind
<1> QED BY <1>1, <1>6, <1>7, <1>8 DEF Orderly, f, u

\* Only the record of a live process changes: it stays live with its rights
\* and does not wait for a message.
LEMMA RecordOrderly ==
  ASSUME NEW p, NEW q, NEW e, NEW t, NEW own,
         p # NoProc, ~p.completed, q # NoProc, ~q.completed,
         q.supervisor <=> p.supervisor, q.blocked_on # "Endpoint",
         Orderly(p, e, t, own)
  PROVE  Orderly(q, e, t, own)
<1>1. Rights(q) = Rights(p)
  BY DEF Rights
<1> QED BY <1>1 DEF Orderly, Agree, EndedClean, ParkedWell, WaitsOn, VacantClean

\* A live process that does not wait for a message may change its endpoint
\* state as long as the registry follows and the queue stays fair.
LEMMA LiveOrderly ==
  ASSUME NEW p, NEW f, NEW u, NEW own,
         p # NoProc, ~p.completed, ~WaitsOn(p, "Endpoint"),
         Agree(p, f.handles, u, own), Fair(f)
  PROVE  Orderly(p, f, u, own)
BY DEF Orderly, EndedClean, ParkedWell, VacantClean

\* A process in a slice waits for nothing.
LEMMA RunningOrderly ==
  ASSUME NEW p, NEW f, NEW u, NEW own,
         p # NoProc, ~p.completed, p.state = "Ready",
         Agree(p, f.handles, u, own), Fair(f)
  PROVE  Orderly(p, f, u, own)
BY LiveOrderly DEF WaitsOn

\* allocate_process_handle: a handle and its entry.
LEMMA LaunchedOrderly ==
  ASSUME NEW p, NEW e, NEW t, NEW own \in OwnedHandles, NEW h \in ProcSlots,
         own[h] = NoCap, NEW cap \in ProcessCap,
         p # NoProc, ~p.completed, p.state = "Ready",
         Orderly(p, e, t, own)
  PROVE  Orderly(p, e, t \cup {ProcEntry(cap, h)}, [own EXCEPT ![h] = cap])
<1> DEFINE more == [own EXCEPT ![h] = cap]
           u == t \cup {ProcEntry(cap, h)}
<1>1. ProcEntries(more) = ProcEntries(own) \cup {ProcEntry(cap, h)}
  BY ProcEntryAdded
<1> HIDE DEF more
<1>2. Agree(p, e.handles, u, more)
  BY <1>1 DEF Orderly, Agree
<1> QED BY <1>2, RunningOrderly DEF Orderly, more

\* close_process_handle: the handle and its entry go together.
LEMMA ReapedOrderly ==
  ASSUME NEW p, NEW e, NEW t, NEW own \in OwnedHandles, NEW h \in ProcSlots,
         p # NoProc, ~p.completed, p.state = "Ready",
         Orderly(p, e, t, own)
  PROVE  Orderly(p, e, t \ {ProcEntry(own[h], h)}, [own EXCEPT ![h] = NoCap])
<1> DEFINE less == [own EXCEPT ![h] = NoCap]
           u == t \ {ProcEntry(own[h], h)}
<1>1. ProcEntries(less) = ProcEntries(own) \ {ProcEntry(own[h], h)}
  BY ProcEntryRemoved
<1>2. /\ ProcEntry(own[h], h) \notin EndpointEntries(e.handles)
      /\ ProcEntry(own[h], h) \notin Rights(p)
  BY FamiliesApart
<1> HIDE DEF less
<1>3. Agree(p, e.handles, u, less)
  BY <1>1, <1>2 DEF Orderly, Agree
<1> QED BY <1>3, RunningOrderly DEF Orderly, less

-----------------------------------------------------------------------------
(* The endpoint calls.                                                     *)

\* A generation that is consumed in vain changes nothing else.
LEMMA TakenOrderly ==
  ASSUME NEW p, NEW e \in EndpointState, NEW t, NEW own,
         p # NoProc, ~p.completed, p.state = "Ready", Orderly(p, e, t, own)
  PROVE  Orderly(p, TakeGeneration(e), t, own)
<1> DEFINE f == TakeGeneration(e)
<1>1. f.handles = e.handles /\ f.queue = e.queue /\ f.published = e.published
  BY DEF TakeGeneration, EndpointState
<1> HIDE DEF f
<1>2. Fair(f) /\ Agree(p, f.handles, t, own)
  BY <1>1 DEF Fair, Orderly
<1> QED BY <1>2, RunningOrderly DEF f

\* EndpointState::create publishes an empty queue.
LEMMA CreatedOrderly ==
  ASSUME NEW p, NEW e \in EndpointState, NEW t, NEW own, NEW s \in CapSlots,
         p # NoProc, ~p.completed, p.state = "Ready", Orderly(p, e, t, own),
         e.handles[s] = NoCap, e.next_generation \in Generations
  PROVE  Orderly(p, WithPublished(e, s),
                 t \cup {[kind |-> "EndpointReceive", gen |-> e.next_generation,
                          slot |-> s]}, own)
<1> DEFINE f == WithPublished(e, s)
           cap == [role |-> "Receive", gen |-> e.next_generation]
           u == t \cup {CapEntry(cap, s)}
<1>1. f.handles = [e.handles EXCEPT ![s] = cap] /\ f.queue = << >>
  BY DEF WithPublished, WithCapability, TakeGeneration, EndpointState
<1>2. cap \in Capability
  BY DEF Capability, ReceiveCap
<1>3. CapEntry(cap, s) = [kind |-> "EndpointReceive", gen |-> e.next_generation, slot |-> s]
  BY DEF CapEntry, Kind
<1>4. e.handles \in [CapSlots -> Capability \cup {NoCap}]
  BY DEF EndpointState, Capability
<1> HIDE DEF f, cap
<1>5. EndpointEntries(f.handles) = EndpointEntries(e.handles) \cup {CapEntry(cap, s)}
  BY <1>1, <1>2, <1>4, EntryAdded
<1>6. Agree(p, f.handles, u, own)
  BY <1>5 DEF Orderly, Agree
<1>7. Fair(f)
  BY <1>1, EmptyIsFair
<1>8. Orderly(p, f, u, own)
  BY <1>6, <1>7, RunningOrderly
<1> QED BY <1>3, <1>8 DEF f

\* EndpointState::allocate for a send capability.
LEMMA ConnectedOrderly ==
  ASSUME NEW p, NEW e \in EndpointState, NEW t, NEW own, NEW s \in CapSlots,
         p # NoProc, ~p.completed, p.state = "Ready", Orderly(p, e, t, own),
         e.handles[s] = NoCap, NEW cap \in SendCap
  PROVE  Orderly(p, WithCapability(e, s, cap),
                 t \cup {[kind |-> "EndpointSend", gen |-> cap.gen, slot |-> s]}, own)
<1> DEFINE f == WithCapability(e, s, cap)
           u == t \cup {CapEntry(cap, s)}
<1>1. f.handles = [e.handles EXCEPT ![s] = cap] /\ f.queue = e.queue /\ f.published = e.published
  BY DEF WithCapability, TakeGeneration, EndpointState
<1>2. cap \in Capability /\ cap.role = "Send"
  BY DEF Capability, SendCap
<1>3. CapEntry(cap, s) = [kind |-> "EndpointSend", gen |-> cap.gen, slot |-> s]
  BY <1>2 DEF CapEntry, Kind
<1>4. e.handles \in [CapSlots -> Capability \cup {NoCap}]
  BY DEF EndpointState, Capability
<1> HIDE DEF f
<1>5. EndpointEntries(f.handles) = EndpointEntries(e.handles) \cup {CapEntry(cap, s)}
  BY <1>1, <1>2, <1>4, EntryAdded
<1>6. Agree(p, f.handles, u, own)
  BY <1>5 DEF Orderly, Agree
<1>7. Fair(f)
  BY <1>1 DEF Orderly, Fair
<1>8. Orderly(p, f, u, own)
  BY <1>6, <1>7, RunningOrderly
<1> QED BY <1>3, <1>8 DEF f

\* EndpointState::close: the capability and its entry go together, and the
\* receive side takes the queue along.
LEMMA ClosedOrderly ==
  ASSUME NEW p, NEW e \in EndpointState, NEW t, NEW own, NEW h \in Handle,
         p # NoProc, ~p.completed, p.state = "Ready", Orderly(p, e, t, own),
         Resolves(e, t, h)
  PROVE  Orderly(p, Closed(e, h),
                 t \ {EndpointEntry(Kind(e.handles[h.slot]), h)}, own)
<1> DEFINE f == Closed(e, h)
           cap == e.handles[h.slot]
           u == t \ {CapEntry(cap, h.slot)}
<1>1. /\ f.handles = [e.handles EXCEPT ![h.slot] = NoCap]
      /\ \/ f.queue = << >>
         \/ f.queue = e.queue /\ f.published = e.published
  BY DEF Closed, EndpointState
<1>2. CapEntry(cap, h.slot) = EndpointEntry(Kind(cap), h)
  BY DEF Resolves, CapEntry, EndpointEntry
<1>3. e.handles \in [CapSlots -> Capability \cup {NoCap}] /\ h.slot \in CapSlots
  BY DEF EndpointState, Capability, Handle
<1> HIDE DEF f
<1>4. EndpointEntries(f.handles) = EndpointEntries(e.handles) \ {CapEntry(cap, h.slot)}
  BY <1>1, <1>3, EntryRemoved
<1>5. /\ CapEntry(cap, h.slot) \notin ProcEntries(own)
      /\ CapEntry(cap, h.slot) \notin Rights(p)
  BY FamiliesApart
<1>6. Agree(p, f.handles, u, own)
  BY <1>4, <1>5 DEF Orderly, Agree
<1>7. Fair(f)
  BY <1>1, EmptyIsFair DEF Orderly, Fair
<1>8. Orderly(p, f, u, own)
  BY <1>6, <1>7, RunningOrderly
<1> QED BY <1>2, <1>8 DEF f

\* ChannelQueue::push after the admission test keeps one message per producer.
LEMMA EnqueuedIsFair ==
  ASSUME NEW e \in EndpointState, NEW msg \in Message, Fair(e), Admits(e, msg)
  PROVE  Fair(Enqueued(e, msg))
<1> DEFINE f == Enqueued(e, msg)
           q == e.queue
<1>1. f.queue = Append(q, msg) /\ f.published = e.published
  BY DEF Enqueued, EndpointState
<1>2. q \in Seq(Message)
  BY DEF EndpointState
<1>3. Len(q) \in Nat /\ Len(q) < QueueCapacity
  BY <1>2 DEF Admits
<1>4. /\ Len(f.queue) = Len(q) + 1
      /\ f.queue[Len(q) + 1] = msg
      /\ \A k \in 1..Len(q) : f.queue[k] = q[k]
  BY <1>1, <1>2
<1>5. \A k \in 1..Len(q) : q[k].sender_pid # msg.sender_pid
  BY DEF Admits, ContainsSender
<1>6. \A j, k \in 1..Len(q) : q[j].sender_pid = q[k].sender_pid => j = k
  BY DEF Fair
<1> HIDE DEF f, q
<1>7. \A j, k \in 1..Len(f.queue) : f.queue[j].sender_pid = f.queue[k].sender_pid => j = k
  <2>1. \A j \in 1..Len(f.queue) : j \in 1..Len(q) \/ j = Len(q) + 1
    BY <1>3, <1>4
  <2> QED BY <2>1, <1>4, <1>5, <1>6
<1>8. Len(f.queue) <= QueueCapacity
  BY <1>3, <1>4, EndpointConstants
<1>9. f.published # 0
  BY <1>1 DEF Admits
<1> QED BY <1>7, <1>8, <1>9 DEF Fair, f

\* A delivered message: the receiver is not parked.
LEMMA DeliveredOrderly ==
  ASSUME NEW p, NEW e \in EndpointState, NEW t, NEW own, NEW msg \in Message,
         p # NoProc, ~p.completed, ~WaitsOn(p, "Endpoint"), Orderly(p, e, t, own),
         Admits(e, msg)
  PROVE  Orderly(p, Enqueued(e, msg), t, own)
<1> DEFINE f == Enqueued(e, msg)
<1>1. f.handles = e.handles
  BY DEF Enqueued, EndpointState
<1>2. Fair(f)
  BY EnqueuedIsFair DEF Orderly
<1> HIDE DEF f
<1>3. Agree(p, f.handles, t, own)
  BY <1>1 DEF Orderly
<1> QED BY <1>2, <1>3, LiveOrderly DEF f

\* A parked receiver that is woken with the message in hand.
LEMMA WokenOrderly ==
  ASSUME NEW p \in Process, NEW e \in EndpointState, NEW t, NEW own,
         ~p.completed, Orderly(p, e, t, own)
  PROVE  Orderly(Woken(p), [e EXCEPT !.pending = NoHandle], t, own)
<1> DEFINE f == [e EXCEPT !.pending = NoHandle]
           q == Woken(p)
<1>1. f.handles = e.handles /\ f.queue = e.queue /\ f.published = e.published
  BY DEF EndpointState
<1>2. q \in Process /\ q # NoProc /\ p # NoProc
  BY WokenType, NoProcIsNoProcess
<1>3. /\ q.state = "Ready" /\ q.supervisor = p.supervisor /\ q.completed = p.completed
  BY DEF Woken, Process
<1> HIDE DEF f, q
<1>4. Rights(q) = Rights(p)
  BY <1>2, <1>3 DEF Rights
<1>5. Fair(f) /\ Agree(q, f.handles, t, own)
  BY <1>1, <1>4 DEF Orderly, Fair, Agree
<1> QED BY <1>2, <1>3, <1>5, RunningOrderly, Zenon DEF f, q

\* ChannelQueue::pop.
LEMMA PoppedOrderly ==
  ASSUME NEW p, NEW e \in EndpointState, NEW t, NEW own,
         p # NoProc, ~p.completed, p.state = "Ready", Orderly(p, e, t, own),
         e.queue # << >>
  PROVE  Orderly(p, [e EXCEPT !.queue = Tail(e.queue), !.pending = NoHandle], t, own)
<1> DEFINE f == [e EXCEPT !.queue = Tail(e.queue), !.pending = NoHandle]
           q == e.queue
<1>1. f.handles = e.handles /\ f.queue = Tail(q) /\ f.published = e.published
  BY DEF EndpointState
<1>2. q \in Seq(Message) /\ q # << >>
  BY DEF EndpointState
<1>3. Len(q) \in Nat \ {0}
  BY <1>2
<1>4. /\ Len(f.queue) = Len(q) - 1
      /\ \A k \in 1..(Len(q) - 1) : f.queue[k] = q[k + 1]
  BY <1>1, <1>2, <1>3
<1>5. Fair(e)
  BY DEF Orderly
<1> HIDE DEF f
<1>6. Len(f.queue) <= QueueCapacity
  BY <1>3, <1>4, <1>5, EndpointConstants DEF Fair
<1>7. f.published # 0
  BY <1>1, <1>2, <1>5 DEF Fair
<1>8. \A j, k \in 1..Len(f.queue) : f.queue[j].sender_pid = f.queue[k].sender_pid => j = k
  <2>1. SUFFICES ASSUME NEW j \in 1..Len(f.queue), NEW k \in 1..Len(f.queue),
                        f.queue[j].sender_pid = f.queue[k].sender_pid
                 PROVE  j = k
    OBVIOUS
  <2>2. j + 1 \in 1..Len(q) /\ k + 1 \in 1..Len(q)
    BY <1>3, <1>4
  <2>3. q[j + 1].sender_pid = q[k + 1].sender_pid
    BY <1>4, <2>1, SMTT(20)
  <2>4. j + 1 = k + 1
    BY <1>5, <2>2, <2>3 DEF Fair
  <2> QED BY <2>4
<1>9. Fair(f) /\ Agree(p, f.handles, t, own)
  BY <1>1, <1>6, <1>7, <1>8 DEF Orderly, Fair
<1> QED BY <1>9, RunningOrderly, Zenon DEF f

\* A receive that parks: on a handle that resolves, behind an empty queue.
LEMMA ParkedOrderly ==
  ASSUME NEW p \in Process, NEW e \in EndpointState, NEW t, NEW own, NEW h \in Handle,
         ~p.completed, Orderly(p, e, t, own),
         ResolvesReceive(e, t, h), e.queue = << >>
  PROVE  Orderly([p EXCEPT !.state = "Waiting", !.blocked_on = "Endpoint"],
                 [e EXCEPT !.pending = h], t, own)
<1> DEFINE f == [e EXCEPT !.pending = h]
           q == [p EXCEPT !.state = "Waiting", !.blocked_on = "Endpoint"]
<1>1. /\ f.handles = e.handles /\ f.queue = e.queue /\ f.published = e.published
      /\ f.pending = h
  BY DEF EndpointState
<1>2. q \in Process /\ q.supervisor = p.supervisor /\ q.completed = p.completed
  BY Zenon DEF Process, LiveStates
<1> HIDE DEF f, q
<1>3. Rights(q) = Rights(p) /\ q # NoProc /\ ~q.completed
  BY <1>2, NoProcIsNoProcess DEF Rights
<1>4. Agree(q, f.handles, t, own) /\ Fair(f)
  BY <1>1, <1>3 DEF Orderly, Fair, Agree
<1>5. ParkedWell(q, f, t)
  BY <1>1, NoHandleIsNoHandle DEF ParkedWell, ResolvesReceive, Resolves
<1> QED BY <1>3, <1>4, <1>5 DEF Orderly, EndedClean, VacantClean, f, q

-----------------------------------------------------------------------------
(* The slots of ProcessManager.                                            *)

\* What slot i holds is in order, now and after the step.
Holding(i) == Orderly(slots[i], endpoints[i], handles[i], process_handles[i])
HoldingNext(i) == Orderly(slots'[i], endpoints'[i], handles'[i], process_handles'[i])

HoldingsOrderly == \A i \in Slots : Holding(i)

\* The next state in terms of its values.
LEMMA HoldingsNextState ==
  ASSUME \A i \in Slots : HoldingNext(i)
  PROVE  HoldingsOrderly'
BY DEF HoldingsOrderly, Holding, HoldingNext

\* In order means what the invariants say.
LEMMA HoldingsAreInvariants ==
  ASSUME HoldingsOrderly
  PROVE  FairQueue /\ TerminalHoldsNothing /\ RegistryAgrees /\ ParkedReceiver
<1>1. \A i \in Slots : Orderly(slots[i], endpoints[i], handles[i], process_handles[i])
  BY DEF HoldingsOrderly, Holding
<1>2. FairQueue
  BY <1>1 DEF FairQueue, Orderly, Fair
<1>3. TerminalHoldsNothing
  BY <1>1 DEF TerminalHoldsNothing, Orderly, EndedClean, HoldsNothing
<1>4. ParkedReceiver
  BY <1>1 DEF ParkedReceiver, Orderly, ParkedWell, WaitsOn, Live
<1>5. RegistryAgrees
  <2> SUFFICES ASSUME NEW i \in Slots
               PROVE  handles[i] =
                 {EndpointEntry(Kind(endpoints[i].handles[s]),
                     [gen |-> endpoints[i].handles[s].gen, slot |-> s]) :
                     s \in {c \in CapSlots : endpoints[i].handles[c] # NoCap}}
                 \cup {[kind |-> "Process", gen |-> process_handles[i][s].gen, slot |-> s] :
                         s \in {c \in ProcSlots : process_handles[i][c] # NoCap}}
                 \cup (IF Live(i) /\ slots[i].supervisor THEN ShellEntries ELSE {})
    BY DEF RegistryAgrees
  <2>1. handles[i] = EndpointEntries(endpoints[i].handles)
                     \cup ProcEntries(process_handles[i]) \cup Rights(slots[i])
    BY <1>1 DEF Orderly, Agree
  <2>2. Rights(slots[i]) = IF Live(i) /\ slots[i].supervisor THEN ShellEntries ELSE {}
    BY DEF Rights, Live
  <2>3. EndpointEntries(endpoints[i].handles) =
                 {EndpointEntry(Kind(endpoints[i].handles[s]),
                     [gen |-> endpoints[i].handles[s].gen, slot |-> s]) :
                     s \in {c \in CapSlots : endpoints[i].handles[c] # NoCap}}
    BY DEF EndpointEntries, CapEntry, EndpointEntry
  <2>4. ProcEntries(process_handles[i]) =
                 {[kind |-> "Process", gen |-> process_handles[i][s].gen, slot |-> s] :
                         s \in {c \in ProcSlots : process_handles[i][c] # NoCap}}
    BY DEF ProcEntries, ProcEntry
  <2> QED BY <2>1, <2>2, <2>3, <2>4
<1> QED BY <1>2, <1>3, <1>4, <1>5

\* Slots nobody touches stay in order.
LEMMA UntouchedOrderly ==
  ASSUME HoldingsOrderly, NEW k \in Slots,
         slots'[k] = slots[k], endpoints'[k] = endpoints[k],
         handles'[k] = handles[k], process_handles'[k] = process_handles[k]
  PROVE  HoldingNext(k)
BY DEF HoldingsOrderly, Holding, HoldingNext

-----------------------------------------------------------------------------
(* The lifecycle steps keep what every slot holds in order.                *)

\* A new process starts with an empty endpoint state.
LEMMA NewProcessValue ==
  ASSUME NEW i, NEW pid, NEW parent, NEW sup \in BOOLEAN
  PROVE  /\ NewProcess(i, pid, parent, sup).key = NewKey(i)
         /\ NewProcess(i, pid, parent, sup).pid = pid
         /\ NewProcess(i, pid, parent, sup).parent_key = parent
         /\ NewProcess(i, pid, parent, sup).state = "Ready"
         /\ NewProcess(i, pid, parent, sup).blocked_on = "None"
         /\ ~NewProcess(i, pid, parent, sup).completed
BY DEF NewProcess

\* It is a supervisor exactly if it is a shell.
LEMMA NewProcessSupervises ==
  ASSUME NEW i, NEW pid, NEW parent, NEW sup \in BOOLEAN
  PROVE  NewProcess(i, pid, parent, sup).supervisor <=> sup
BY DEF NewProcess

\* The spawn calls.
LEMMA HoldingSpawn ==
  ASSUME TypeOK, HoldingsOrderly, NEW parent \in FreeSlots,
         NEW children \in SUBSET (FreeSlots \ {parent}),
         NEW pidOf \in [{parent} \cup children -> FreshPids],
         NEW shell \in BOOLEAN, NEW built \in BOOLEAN,
         Spawn(parent, children, pidOf, shell, built)
  PROVE  \A k \in Slots : HoldingNext(k)
<1> DEFINE chosen == {parent} \cup children
<1>1. chosen \subseteq Slots
  BY DEF FreeSlots
<1>2. CASE ~(built /\ KeysTaken(chosen) = chosen)
  BY <1>2, UntouchedOrderly, Zenon DEF Spawn
<1>3. CASE built /\ KeysTaken(chosen) = chosen
  <2>1. \A s \in chosen : incarnations[s] < IncarnationMax /\ pidOf[s] \in Pids
    BY <1>1, <1>3, KeysTakenAreLeft DEF FreshPids
  <2>2. NewKey(parent) \in Key
    BY <1>1, <2>1, NewProcessType, parent \in chosen
  <2>3. \A s \in chosen, par \in Key \cup {NoKey} :
           NewProcess(s, pidOf[s], par, shell) \in Process
    BY <1>1, <2>1, NewProcessType, Zenon
  <2>4. \A k \in Slots :
          /\ slots'[k] = IF k = parent THEN NewProcess(k, pidOf[k], NoKey, shell)
                         ELSE IF k \in children THEN NewProcess(k, pidOf[k], NewKey(parent), shell)
                         ELSE slots[k]
          /\ endpoints'[k] = IF k \in chosen THEN NewEndpointState ELSE endpoints[k]
          /\ handles'[k] = IF k \in chosen THEN IF shell THEN ShellEntries ELSE {}
                           ELSE handles[k]
          /\ process_handles'[k] = IF k \in chosen THEN NoProcessHandles
                                   ELSE process_handles[k]
    BY <1>3 DEF Spawn
  <2> SUFFICES ASSUME NEW k \in Slots PROVE HoldingNext(k)
    OBVIOUS
  <2>5. CASE k \in chosen
    <3>1. PICK par \in Key \cup {NoKey} : slots'[k] = NewProcess(k, pidOf[k], par, shell)
      BY <2>2, <2>4, <2>5
    <3> DEFINE p == NewProcess(k, pidOf[k], par, shell)
    <3>2. p \in Process /\ p.blocked_on = "None"
      BY <2>3, <2>5, NewProcessValue
    <3>6. ~p.completed /\ (p.supervisor <=> shell)
      BY NewProcessValue, NewProcessSupervises
    <3> HIDE DEF p
    <3>3. Rights(p) = IF shell THEN ShellEntries ELSE {}
      BY <3>2, <3>6, NoProcIsNoProcess DEF Rights
    <3>4. Orderly(p, NewEndpointState, Rights(p), NoProcessHandles)
      BY <3>2, <3>6, BornOrderly
    <3>5. /\ endpoints'[k] = NewEndpointState /\ handles'[k] = Rights(p)
          /\ process_handles'[k] = NoProcessHandles
      BY <2>4, <2>5, <3>3
    <3> QED BY <3>1, <3>4, <3>5 DEF HoldingNext, p
  <2>6. CASE k \notin chosen
    BY <2>4, <2>6, UntouchedOrderly
  <2> QED BY <2>5, <2>6
<1> QED BY <1>2, <1>3

\* A waiting process has not ended.
LEMMA WaiterIsLive ==
  ASSUME TypeOK, HoldingsOrderly, NEW k \in Slots, slots[k] # NoProc,
         slots[k].state = "Waiting"
  PROVE  slots[k] \in Process /\ ~slots[k].completed
BY DEF TypeOK, HoldingsOrderly, Holding, Orderly, EndedClean, TerminalStates

\* The fields of a woken or a resumed process.
LEMMA WokenValue ==
  ASSUME NEW p \in Process
  PROVE  /\ Woken(p).key = p.key /\ Woken(p).pid = p.pid
         /\ Woken(p).parent_key = p.parent_key
         /\ Woken(p).supervisor = p.supervisor /\ Woken(p).completed = p.completed
         /\ Woken(p).state = "Ready" /\ Woken(p).blocked_on = "None"
         /\ Resumed(p).key = p.key /\ Resumed(p).pid = p.pid
         /\ Resumed(p).parent_key = p.parent_key
         /\ Resumed(p).supervisor = p.supervisor /\ Resumed(p).completed = p.completed
         /\ Resumed(p).state = "Ready" /\ Resumed(p).blocked_on = "None"
<1>1. /\ Woken(p).key = p.key /\ Woken(p).pid = p.pid
      /\ Woken(p).parent_key = p.parent_key
      /\ Woken(p).supervisor = p.supervisor /\ Woken(p).completed = p.completed
      /\ Woken(p).state = "Ready" /\ Woken(p).blocked_on = "None"
  BY DEF Woken, Process
<1>2. Woken(p) \in Process
  BY WokenType
<1> QED BY <1>1, <1>2 DEF Resumed, Process

\* The record terminate_process_at leaves behind.
Corpse(p, final) == [p EXCEPT !.completed = TRUE, !.state = final, !.pending_launch = 0]

\* Its fields.
LEMMA CorpseValue ==
  ASSUME NEW p \in Process, NEW final \in TerminalStates
  PROVE  /\ Corpse(p, final) # NoProc
         /\ Corpse(p, final).key = p.key /\ Corpse(p, final).pid = p.pid
         /\ Corpse(p, final).parent_key = p.parent_key
         /\ Corpse(p, final).supervisor = p.supervisor
         /\ Corpse(p, final).completed /\ Corpse(p, final).state = final
         /\ Corpse(p, final).pending_launch = 0
<1>1. 0 \in 0..RequestMax
  BY ManagerConstants
<1>2. Corpse(p, final) \in Process
  BY <1>1, Zenon DEF Corpse, Process
<1> QED BY <1>2, NoProcIsNoProcess, Zenon DEF Corpse, Process

\* What Terminate makes of each slot.
LEMMA TerminateValue ==
  ASSUME TypeOK, NEW i \in Slots, NEW final, Terminate(i, final)
  PROVE  LET gone == Supervised(i)
             revoked == Targets({i} \cup gone)
         IN \A k \in Slots :
              /\ k = i => /\ slots'[k] = Corpse(slots[i], final)
                          /\ endpoints'[k] = Cleared(endpoints[k])
              /\ k # i /\ k \in gone => /\ slots'[k] = NoProc
                                        /\ endpoints'[k] = NewEndpointState
              /\ k # i /\ k \notin gone =>
                   /\ slots'[k] = IF WaitsFor(slots[k], slots[i].key) THEN Woken(slots[k])
                                  ELSE slots[k]
                   /\ endpoints'[k] = Revoked(endpoints[k], revoked)
                   /\ handles'[k] = RevokedEntries(endpoints[k], handles[k], revoked)
                   /\ process_handles'[k] = process_handles[k]
              /\ k = i \/ k \in gone => /\ handles'[k] = {}
                                        /\ process_handles'[k] = NoProcessHandles
BY DEF Terminate, Corpse

\* terminate_process_at clears the dying and sweeps the others.
LEMMA HoldingTerminate ==
  ASSUME TypeOK, HoldingsOrderly, NEW i \in Slots, slots[i] # NoProc,
         NEW final \in TerminalStates, Terminate(i, final)
  PROVE  \A k \in Slots : HoldingNext(k)
<1> SUFFICES ASSUME NEW k \in Slots PROVE HoldingNext(k)
  OBVIOUS
<1> DEFINE gone == Supervised(i)
           revoked == Targets({i} \cup gone)
<1>1. CASE k = i
  <2>1. slots[i] \in Process
    BY DEF TypeOK
  <2>2. /\ slots'[k] = Corpse(slots[i], final) /\ endpoints'[k] = Cleared(endpoints[k])
        /\ handles'[k] = {} /\ process_handles'[k] = NoProcessHandles
    BY <1>1, TerminateValue, Zenon
  <2>3. /\ Corpse(slots[i], final) # NoProc
        /\ Corpse(slots[i], final).completed /\ Corpse(slots[i], final).state = final
        /\ Corpse(slots[i], final).pending_launch = 0
    BY <2>1, CorpseValue
  <2>4. Orderly(Corpse(slots[i], final), Cleared(endpoints[k]), {}, NoProcessHandles)
    BY <2>3, ClearedValue, EndedOrderly
  <2> QED BY <2>2, <2>4 DEF HoldingNext
<1>2. CASE k # i /\ k \in gone
  <2>1. /\ slots'[k] = NoProc /\ endpoints'[k] = NewEndpointState
        /\ handles'[k] = {} /\ process_handles'[k] = NoProcessHandles
    BY <1>2, TerminateValue, Zenon
  <2> QED BY <2>1, VacatedOrderly DEF HoldingNext
<1>3. CASE k # i /\ k \notin gone
  <2> DEFINE p == slots[k]
             q == slots'[k]
             f == Revoked(endpoints[k], revoked)
             u == RevokedEntries(endpoints[k], handles[k], revoked)
  <2>1. /\ q = IF WaitsFor(p, slots[i].key) THEN Woken(p) ELSE p
        /\ endpoints'[k] = f /\ handles'[k] = u
        /\ process_handles'[k] = process_handles[k]
    BY <1>3, TerminateValue
  <2> HIDE DEF revoked
  <2>2. Orderly(p, f, u, process_handles[k])
    <3>1. endpoints[k] \in EndpointState
      BY DEF TypeOK
    <3>2. Orderly(slots[k], endpoints[k], handles[k], process_handles[k])
      BY DEF HoldingsOrderly, Holding
    <3> QED BY <3>1, <3>2, SweptOrderly
  <2>3. CASE WaitsFor(p, slots[i].key)
    <3>1. p \in Process /\ ~p.completed /\ p # NoProc
      BY <2>3, WaiterIsLive DEF WaitsFor
    <3>2. q = Woken(p) /\ q \in Process
      BY <2>1, <2>3, <3>1, WokenType
    <3>3. q # NoProc /\ ~q.completed /\ q.supervisor = p.supervisor /\ q.blocked_on = "None"
      BY <3>1, <3>2, WokenValue, NoProcIsNoProcess
    <3> HIDE DEF p, q, f, u
    <3>4. Orderly(q, f, u, process_handles[k])
      BY <2>2, <3>1, <3>3, RecordOrderly
    <3> QED BY <2>1, <3>4 DEF HoldingNext, q
  <2>4. CASE ~WaitsFor(p, slots[i].key)
    BY <2>1, <2>2, <2>4 DEF HoldingNext
  <2> QED BY <2>3, <2>4
<1> QED BY <1>1, <1>2, <1>3

\* Freeing a slot, seen from a slot that stays: a sweep.
LEMMA HoldingSwept ==
  ASSUME TypeOK, HoldingsOrderly, NEW k \in Slots, NEW targets
  PROVE  Orderly(slots[k], Revoked(endpoints[k], targets),
                 RevokedEntries(endpoints[k], handles[k], targets), process_handles[k])
<1>1. endpoints[k] \in EndpointState
  BY DEF TypeOK
<1>2. Orderly(slots[k], endpoints[k], handles[k], process_handles[k])
  BY DEF HoldingsOrderly, Holding
<1> QED BY <1>1, <1>2, SweptOrderly

\* ProcessManager::wait.
LEMMA HoldingWait ==
  ASSUME TypeOK, HoldingsOrderly, NEW i \in Slots, Wait(i)
  PROVE  \A k \in Slots : HoldingNext(k)
<1> SUFFICES ASSUME NEW k \in Slots PROVE HoldingNext(k)
  OBVIOUS
<1> DEFINE revoked == Targets({i})
<1>1. CASE k = i
  <2>1. /\ slots'[k] = NoProc /\ endpoints'[k] = NewEndpointState
        /\ handles'[k] = {} /\ process_handles'[k] = NoProcessHandles
    BY <1>1 DEF Wait, FreeSlot, TypeOK
  <2> QED BY <2>1, VacatedOrderly DEF HoldingNext
<1>2. CASE k # i
  <2>1. /\ slots'[k] = slots[k] /\ endpoints'[k] = Revoked(endpoints[k], revoked)
        /\ handles'[k] = RevokedEntries(endpoints[k], handles[k], revoked)
        /\ process_handles'[k] = process_handles[k]
    BY <1>2 DEF Wait, FreeSlot, TypeOK
  <2> HIDE DEF revoked
  <2> QED BY <2>1, HoldingSwept DEF HoldingNext
<1> QED BY <1>1, <1>2

\* The shell's reap.
LEMMA HoldingReap ==
  ASSUME TypeOK, HoldingsOrderly, NEW i \in Slots, NEW h \in ProcSlots, NEW t \in Slots,
         ControlledReap(i, h, t)
  PROVE  \A k \in Slots : HoldingNext(k)
<1> SUFFICES ASSUME NEW k \in Slots PROVE HoldingNext(k)
  OBVIOUS
<1> DEFINE revoked == Targets({t})
           u == RevokedEntries(endpoints[k], handles[k], revoked)
<1>0. i # t /\ slots[i] # NoProc /\ ~slots[i].completed /\ slots[i].state = "Ready"
  BY DEF ControlledReap, Runs, Live
<1>1. CASE k = t
  <2>1. /\ slots'[k] = NoProc /\ endpoints'[k] = NewEndpointState
        /\ handles'[k] = {} /\ process_handles'[k] = NoProcessHandles
    BY <1>0, <1>1 DEF ControlledReap, FreeSlot, TypeOK
  <2> QED BY <2>1, VacatedOrderly DEF HoldingNext
<1>2. CASE k # t
  <2>1. /\ slots'[k] = slots[k] /\ endpoints'[k] = Revoked(endpoints[k], revoked)
        /\ handles'[k] = u \ (IF k = i THEN ProcessEntry(i, h) ELSE {})
    BY <1>2 DEF ControlledReap, FreeSlot, TypeOK
  <2>2. Orderly(slots[k], Revoked(endpoints[k], revoked), u, process_handles[k])
    BY HoldingSwept
  <2> HIDE DEF revoked, u
  <2>3. CASE k # i
    <3>1. process_handles'[k] = process_handles[k] /\ handles'[k] = u
      BY <1>2, <2>1, <2>3, Zenon DEF ControlledReap, TypeOK
    <3> QED BY <2>1, <2>2, <3>1, Zenon DEF HoldingNext
  <2>4. CASE k = i
    <3>1. /\ process_handles[i] \in OwnedHandles
          /\ process_handles'[i] = [process_handles[i] EXCEPT ![h] = NoCap]
      BY <1>0 DEF ControlledReap, TypeOK, OwnedHandles
    <3>2. handles'[k] = u \ {ProcEntry(process_handles[i][h], h)}
      BY <2>1, <2>4, Zenon DEF ProcessEntry, ProcEntry
    <3>3. Orderly(slots[i], Revoked(endpoints[i], revoked),
                  u \ {ProcEntry(process_handles[i][h], h)},
                  [process_handles[i] EXCEPT ![h] = NoCap])
      BY <1>0, <2>2, <2>4, <3>1, ReapedOrderly
    <3> QED BY <2>1, <2>4, <3>1, <3>2, <3>3, Zenon DEF HoldingNext
  <2> QED BY <2>3, <2>4
<1> QED BY <1>1, <1>2

\* A step that only changes the record of one live process, which neither ends
\* nor begins to wait for a message.
LEMMA HoldingRecord ==
  ASSUME TypeOK, HoldingsOrderly, NEW i \in Slots, NEW q,
         slots[i] # NoProc, ~slots[i].completed,
         q # NoProc, ~q.completed, q.supervisor <=> slots[i].supervisor,
         q.blocked_on # "Endpoint",
         slots' = [slots EXCEPT ![i] = q], endpoints' = endpoints,
         handles' = handles, process_handles' = process_handles
  PROVE  \A k \in Slots : HoldingNext(k)
<1>1. Orderly(slots[i], endpoints[i], handles[i], process_handles[i])
  BY DEF HoldingsOrderly, Holding
<1>2. Orderly(q, endpoints[i], handles[i], process_handles[i])
  BY <1>1, RecordOrderly
<1>3. slots'[i] = q /\ \A k \in Slots \ {i} : slots'[k] = slots[k]
  BY DEF TypeOK
<1>4. HoldingNext(i)
  BY <1>2, <1>3 DEF HoldingNext
<1>5. \A k \in Slots \ {i} : HoldingNext(k)
  BY <1>3, UntouchedOrderly
<1> QED BY <1>4, <1>5

\* complete_child_wait on a live child.
LEMMA HoldingWaitChild ==
  ASSUME TypeOK, HoldingsOrderly, NEW i \in Slots, NEW c \in Slots, WaitChild(i, c)
  PROVE  \A k \in Slots : HoldingNext(k)
<1> DEFINE q == [slots[i] EXCEPT !.state = "Waiting", !.blocked_on = "Child",
                                 !.child = slots[c].key]
<1>1. slots[i] \in Process /\ slots[c] \in Process /\ slots[i] # NoProc /\ ~slots[i].completed
  BY DEF WaitChild, Runs, Live, TypeOK
<1>2. q \in Process
  BY <1>1, Zenon DEF Process, LiveStates
<1>3. /\ q # NoProc /\ ~q.completed /\ (q.supervisor <=> slots[i].supervisor)
      /\ q.blocked_on # "Endpoint"
  BY <1>1, <1>2, NoProcIsNoProcess, Zenon DEF Process
<1>4. slots' = [slots EXCEPT ![i] = q]
  BY Zenon DEF WaitChild, TypeOK
<1> HIDE DEF q
<1> QED BY <1>1, <1>3, <1>4, HoldingRecord, Zenon DEF WaitChild

\* block_process_launch.
LEMMA HoldingRequest ==
  ASSUME TypeOK, HoldingsOrderly, NEW i \in Slots, RequestLaunch(i)
  PROVE  \A k \in Slots : HoldingNext(k)
<1> DEFINE n == slots[i].next_request
           q == [slots[i] EXCEPT !.state = "Waiting", !.blocked_on = "ProcessLaunch",
                                 !.pending_launch = n, !.next_request = n + 1]
<1>1. slots[i] \in Process /\ slots[i] # NoProc /\ ~slots[i].completed
  BY DEF RequestLaunch, Runs, Live, TypeOK
<1>2. n \in 0..RequestMax /\ n + 1 \in 1..(RequestMax + 1)
  BY <1>1, ManagerConstants DEF Process, RequestLaunch
<1>3. q \in Process
  BY <1>1, <1>2, Zenon DEF Process, LiveStates
<1>4. /\ q # NoProc /\ ~q.completed /\ (q.supervisor <=> slots[i].supervisor)
      /\ q.blocked_on # "Endpoint"
  BY <1>1, <1>3, NoProcIsNoProcess, Zenon DEF Process
<1>5. slots' = [slots EXCEPT ![i] = q]
  BY Zenon DEF RequestLaunch, TypeOK
<1> HIDE DEF q
<1> QED BY <1>1, <1>4, <1>5, HoldingRecord, Zenon DEF RequestLaunch

\* A resumed process.
LEMMA ResumedIsLive ==
  ASSUME TypeOK, NEW i \in Slots, Live(i)
  PROVE  /\ slots[i] \in Process /\ Resumed(slots[i]) \in Process
         /\ slots[i] # NoProc /\ ~slots[i].completed
         /\ Resumed(slots[i]) # NoProc /\ ~Resumed(slots[i]).completed
         /\ Resumed(slots[i]).supervisor <=> slots[i].supervisor
         /\ Resumed(slots[i]).blocked_on # "Endpoint"
         /\ Resumed(slots[i]).state = "Ready"
<1>1. slots[i] \in Process /\ slots[i] # NoProc /\ ~slots[i].completed
  BY DEF Live, TypeOK
<1> QED BY <1>1, WokenType, WokenValue, NoProcIsNoProcess

\* complete_process_launch without a child.
LEMMA HoldingLaunchFails ==
  ASSUME TypeOK, HoldingsOrderly, NEW i \in Slots, NEW c \in Slots, LaunchFails(i, c)
  PROVE  \A k \in Slots : HoldingNext(k)
<1>1. Live(i)
  BY DEF LaunchFails, LaunchActive
<1>2. slots' = [slots EXCEPT ![i] = Resumed(slots[i])]
  BY DEF LaunchFails
<1> QED BY <1>1, <1>2, ResumedIsLive, HoldingRecord, Zenon DEF LaunchFails

\* complete_process_launch with a child.
LEMMA HoldingLaunchSucceeds ==
  ASSUME TypeOK, HoldingsOrderly, NEW i \in Slots, NEW c \in Slots, NEW pid \in Pids,
         NEW h \in ProcSlots, LaunchSucceeds(i, c, pid, h)
  PROVE  \A k \in Slots : HoldingNext(k)
<1> DEFINE entry == [kind |-> "Process", gen |-> next_process_handle, slot |-> h]
           cap == [target |-> NewKey(c), gen |-> next_process_handle]
           child == NewProcess(c, pid, slots[i].key, FALSE)
           own == process_handles[i]
           q == Resumed(slots[i])
<1>1. Live(i)
  BY DEF LaunchSucceeds, LaunchActive
<1>2. /\ slots[i] \in Process /\ q \in Process
      /\ q # NoProc /\ ~q.completed /\ (q.supervisor <=> slots[i].supervisor)
      /\ q.blocked_on # "Endpoint" /\ q.state = "Ready"
  BY <1>1, ResumedIsLive
<1>3. Orderly(q, endpoints[i], handles[i], own)
  <2>1. Orderly(slots[i], endpoints[i], handles[i], own)
    BY DEF HoldingsOrderly, Holding
  <2> QED BY <1>1, <1>2, <2>1, ResumedIsLive, RecordOrderly
<1>4. CASE ~CanRegister(handles[i], entry)
  <2>1. /\ slots' = [slots EXCEPT ![i] = q] /\ endpoints' = endpoints
        /\ handles' = handles /\ process_handles' = process_handles
    BY <1>4 DEF LaunchSucceeds
  <2> QED BY <1>1, <2>1, ResumedIsLive, HoldingRecord, Zenon
<1>5. CASE CanRegister(handles[i], entry)
  <2>1. c # i
    BY <1>1 DEF LaunchSucceeds, AreLowest, FreeSlots, Occupied, Live
  <2>2. /\ slots' = [slots EXCEPT ![i] = q, ![c] = child]
        /\ handles' = [handles EXCEPT ![i] = handles[i] \cup {entry}, ![c] = {}]
        /\ process_handles' = [process_handles EXCEPT ![i][h] = cap,
                                                      ![c] = NoProcessHandles]
        /\ endpoints' = [endpoints EXCEPT ![c] = NewEndpointState]
    BY <1>5, Zenon DEF LaunchSucceeds
  <2>3. /\ child \in Process /\ ~child.completed /\ child.blocked_on = "None"
        /\ NewKey(c) \in Key
    <3>1. slots[i].key \in Key /\ incarnations[c] < IncarnationMax
      BY <1>2 DEF Process, LaunchSucceeds
    <3>2. child \in Process /\ NewKey(c) \in Key
      BY <3>1, NewProcessType, Zenon
    <3>3. ~child.completed /\ child.blocked_on = "None"
      BY DEF NewProcess
    <3> QED BY <3>2, <3>3, Zenon
  <2>4. ~child.supervisor
    BY NewProcessSupervises, Zenon
  <2>5. cap \in ProcessCap
    BY <2>3 DEF ProcessCap, TypeOK
  <2>6. own \in OwnedHandles /\ own[h] = NoCap
    BY DEF TypeOK, OwnedHandles, LaunchSucceeds
  <2>7. ProcEntry(cap, h) = entry
    BY DEF ProcEntry
  <2>8. /\ slots'[i] = q /\ endpoints'[i] = endpoints[i]
        /\ handles'[i] = handles[i] \cup {entry}
        /\ process_handles'[i] = [own EXCEPT ![h] = cap]
    <3> HIDE DEF q, child, entry, cap
    <3> QED BY <2>1, <2>2, Zenon DEF TypeOK
  <2>9. /\ slots'[c] = child /\ endpoints'[c] = NewEndpointState
        /\ handles'[c] = {} /\ process_handles'[c] = NoProcessHandles
    <3> HIDE DEF q, child, entry, cap
    <3> QED BY <2>1, <2>2 DEF TypeOK
  <2>10. \A k \in Slots \ {i, c} :
           /\ slots'[k] = slots[k] /\ endpoints'[k] = endpoints[k]
           /\ handles'[k] = handles[k] /\ process_handles'[k] = process_handles[k]
    <3> HIDE DEF q, child, entry, cap
    <3> QED BY <2>2 DEF TypeOK
  <2> HIDE DEF q, child, entry, cap, own
  <2>11. HoldingNext(i)
    <3>1. Orderly(q, endpoints[i], handles[i] \cup {ProcEntry(cap, h)}, [own EXCEPT ![h] = cap])
      BY <1>2, <1>3, <2>5, <2>6, LaunchedOrderly
    <3> QED BY <2>7, <2>8, <3>1 DEF HoldingNext
  <2>12. HoldingNext(c)
    <3>1. Rights(child) = {}
      BY <2>4 DEF Rights
    <3>2. Orderly(child, NewEndpointState, {}, NoProcessHandles)
      BY <2>3, <3>1, BornOrderly
    <3> QED BY <2>9, <3>2 DEF HoldingNext
  <2>13. \A k \in Slots \ {i, c} : HoldingNext(k)
    BY <2>10, UntouchedOrderly
  <2> QED BY <2>11, <2>12, <2>13
<1> QED BY <1>4, <1>5

-----------------------------------------------------------------------------
(* So do the endpoint calls.                                               *)

\* A call that changes only the caller's endpoint state and registry.
LEMMA HoldingCall ==
  ASSUME TypeOK, HoldingsOrderly, NEW i \in Slots, NEW f, NEW u,
         Orderly(slots[i], f, u, process_handles[i]),
         slots' = slots, endpoints' = [endpoints EXCEPT ![i] = f],
         handles' = [handles EXCEPT ![i] = u], process_handles' = process_handles
  PROVE  \A k \in Slots : HoldingNext(k)
<1>1. /\ endpoints'[i] = f /\ handles'[i] = u
      /\ \A k \in Slots \ {i} : endpoints'[k] = endpoints[k] /\ handles'[k] = handles[k]
  BY DEF TypeOK
<1>2. HoldingNext(i)
  BY <1>1 DEF HoldingNext
<1>3. \A k \in Slots \ {i} : HoldingNext(k)
  BY <1>1, UntouchedOrderly
<1> QED BY <1>2, <1>3

\* What holds of the caller of an endpoint call.
LEMMA CallerHolds ==
  ASSUME TypeOK, HoldingsOrderly, NEW i \in Slots, Runs(i)
  PROVE  /\ slots[i] \in Process /\ slots[i] # NoProc
         /\ ~slots[i].completed /\ slots[i].state = "Ready"
         /\ endpoints[i] \in EndpointState
         /\ Orderly(slots[i], endpoints[i], handles[i], process_handles[i])
         /\ handles = [handles EXCEPT ![i] = handles[i]]
BY DEF Runs, Live, TypeOK, HoldingsOrderly, Holding

\* complete_endpoint_create.
LEMMA HoldingCreate ==
  ASSUME TypeOK, HoldingsOrderly, NEW i \in Slots, NEW s \in CapSlots, CreateEndpoint(i, s)
  PROVE  \A k \in Slots : HoldingNext(k)
<1> DEFINE e == endpoints[i]
           entry == EndpointEntry("EndpointReceive", NewHandle(i, s))
<1>1. Runs(i) /\ slots' = slots /\ process_handles' = process_handles
  BY DEF CreateEndpoint, EndpointStep
<1>2. e \in EndpointState /\ e.handles[s] = NoCap /\ e.next_generation <= GenerationMax
  BY DEF TypeOK, CreateEndpoint, CanAllocate, IsFirstFree
<1>3. e.next_generation \in Generations
  BY <1>2, EndpointConstants, SMTT(20) DEF EndpointState, Generations
<1>4. entry = [kind |-> "EndpointReceive", gen |-> e.next_generation, slot |-> s]
  BY DEF EndpointEntry, NewHandle
<1>5. CASE CanRegister(handles[i], entry)
  <2>1. /\ endpoints' = [endpoints EXCEPT ![i] = WithPublished(e, s)]
        /\ handles' = [handles EXCEPT ![i] = handles[i] \cup {entry}]
    BY <1>5 DEF CreateEndpoint
  <2> HIDE DEF e, entry
  <2>2. Orderly(slots[i], WithPublished(e, s), handles[i] \cup {entry}, process_handles[i])
    BY <1>1, <1>2, <1>3, <1>4, CallerHolds, CreatedOrderly DEF e
  <2> QED BY <1>1, <2>1, <2>2, HoldingCall, Zenon
<1>6. CASE ~CanRegister(handles[i], entry)
  <2>1. /\ endpoints' = [endpoints EXCEPT ![i] = TakeGeneration(e)]
        /\ handles' = [handles EXCEPT ![i] = handles[i]]
    BY <1>1, <1>6, CallerHolds DEF CreateEndpoint
  <2>2. Orderly(slots[i], TakeGeneration(e), handles[i], process_handles[i])
    BY <1>1, CallerHolds, TakenOrderly
  <2> QED BY <1>1, <2>1, <2>2, HoldingCall, Zenon
<1> QED BY <1>5, <1>6

\* complete_endpoint_connect.
LEMMA HoldingConnect ==
  ASSUME TypeOK, HoldingsOrderly, NEW i \in Slots, NEW s \in CapSlots, NEW t \in Slots,
         ConnectEndpoint(i, s, t)
  PROVE  \A k \in Slots : HoldingNext(k)
<1> DEFINE e == endpoints[i]
           entry == EndpointEntry("EndpointSend", NewHandle(i, s))
           cap == [role |-> "Send", gen |-> endpoints[i].next_generation,
                   target_pid |-> slots[t].pid,
                   target_generation |-> endpoints[t].published,
                   target |-> slots[t].key]
<1>1. Runs(i) /\ slots' = slots /\ process_handles' = process_handles
  BY DEF ConnectEndpoint, EndpointStep
<1>2. e \in EndpointState /\ e.handles[s] = NoCap /\ e.next_generation <= GenerationMax
  BY Zenon DEF TypeOK, ConnectEndpoint, CanAllocate, IsFirstFree
<1>3. cap \in SendCap
  <2>1. slots[t] \in Process /\ endpoints[t] \in EndpointState /\ endpoints[t].published # 0
    BY DEF ConnectEndpoint, Live, TypeOK
  <2>2. e.next_generation \in Generations /\ endpoints[t].published \in Generations
    BY <1>2, <2>1, EndpointConstants, SMTT(20) DEF EndpointState, Generations
  <2> QED BY <2>1, <2>2, Zenon DEF SendCap, Process
<1>4. entry = [kind |-> "EndpointSend", gen |-> cap.gen, slot |-> s]
  BY Zenon DEF EndpointEntry, NewHandle
<1>5. CASE CanRegister(handles[i], entry)
  <2>1. /\ endpoints' = [endpoints EXCEPT ![i] = WithCapability(e, s, cap)]
        /\ handles' = [handles EXCEPT ![i] = handles[i] \cup {entry}]
    BY <1>5 DEF ConnectEndpoint
  <2> HIDE DEF e, entry, cap
  <2>2. Orderly(slots[i], WithCapability(e, s, cap), handles[i] \cup {entry}, process_handles[i])
    BY <1>1, <1>2, <1>3, <1>4, CallerHolds, ConnectedOrderly DEF e
  <2> QED BY <1>1, <2>1, <2>2, HoldingCall, Zenon
<1>6. CASE ~CanRegister(handles[i], entry)
  <2>1. /\ endpoints' = [endpoints EXCEPT ![i] = TakeGeneration(e)]
        /\ handles' = [handles EXCEPT ![i] = handles[i]]
    BY <1>1, <1>6, CallerHolds DEF ConnectEndpoint
  <2>2. Orderly(slots[i], TakeGeneration(e), handles[i], process_handles[i])
    BY <1>1, CallerHolds, TakenOrderly
  <2> QED BY <1>1, <2>1, <2>2, HoldingCall, Zenon
<1> QED BY <1>5, <1>6

\* deliver_endpoint_message takes the wake-up path for every parked receiver.
LEMMA ReceiverIsParked ==
  ASSUME TypeOK, HoldingsOrderly, NEW t \in Slots, NEW pid, NEW generation,
         Publishes(t, pid, generation), WaitsOn(slots[t], "Endpoint")
  PROVE  Parked(t, generation)
BY Zenon DEF HoldingsOrderly, Holding, Orderly, ParkedWell, ResolvesReceive, WaitsOn,
       Publishes, Parked

\* complete_endpoint_send.
LEMMA HoldingSend ==
  ASSUME TypeOK, HoldingsOrderly, NEW i \in Slots, NEW h \in Handle, NEW t \in Slots,
         SendEndpoint(i, h, t)
  PROVE  \A k \in Slots : HoldingNext(k)
<1> DEFINE cap == endpoints[i].handles[h.slot]
           msg == [sender_pid |-> slots[i].pid, sender |-> slots[i].key]
           e == endpoints[t]
           p == slots[t]
<1>1. /\ p \in Process /\ p # NoProc /\ ~p.completed /\ e \in EndpointState
      /\ Orderly(p, e, handles[t], process_handles[t])
  BY DEF SendEndpoint, Publishes, Live, TypeOK, HoldingsOrderly, Holding
<1>2. msg \in Message
  <2>1. slots[i] \in Process
    BY DEF SendEndpoint, Runs, Live, TypeOK
  <2> QED BY <2>1 DEF Process, Message
<1>3. handles' = handles /\ process_handles' = process_handles
  BY DEF SendEndpoint, EndpointStep
<1>4. CASE Parked(t, cap.target_generation)
  <2> DEFINE f == [e EXCEPT !.pending = NoHandle]
             q == Woken(p)
  <2>1. slots' = [slots EXCEPT ![t] = q] /\ endpoints' = [endpoints EXCEPT ![t] = f]
    BY <1>4 DEF SendEndpoint, TypeOK
  <2>2. Orderly(q, f, handles[t], process_handles[t])
    BY <1>1, WokenOrderly
  <2> HIDE DEF f, q
  <2>3. /\ slots'[t] = q /\ endpoints'[t] = f
        /\ \A k \in Slots \ {t} : slots'[k] = slots[k] /\ endpoints'[k] = endpoints[k]
    BY <2>1 DEF TypeOK
  <2>4. HoldingNext(t)
    BY <1>3, <2>2, <2>3 DEF HoldingNext
  <2>5. \A k \in Slots \ {t} : HoldingNext(k)
    BY <1>3, <2>3, UntouchedOrderly
  <2> QED BY <2>4, <2>5
<1>5. CASE ~Parked(t, cap.target_generation)
  <2>1. /\ Publishes(t, cap.target_pid, cap.target_generation)
        /\ Admits(e, msg) /\ slots' = slots
        /\ endpoints' = [endpoints EXCEPT ![t] = Enqueued(e, msg)]
    BY <1>5 DEF SendEndpoint
  <2>2. ~WaitsOn(p, "Endpoint")
    BY <1>5, <2>1, ReceiverIsParked
  <2> HIDE DEF msg
  <2>3. Orderly(p, Enqueued(e, msg), handles[t], process_handles[t])
    BY <1>1, <1>2, <2>1, <2>2, DeliveredOrderly, Zenon
  <2>4. handles' = [handles EXCEPT ![t] = handles[t]]
    BY <1>3 DEF TypeOK
  <2> QED BY <1>3, <2>1, <2>3, <2>4, HoldingCall, Zenon
<1> QED BY <1>4, <1>5, Zenon

\* complete_endpoint_receive.
LEMMA HoldingReceive ==
  ASSUME TypeOK, HoldingsOrderly, NEW i \in Slots, NEW h \in Handle, ReceiveEndpoint(i, h)
  PROVE  \A k \in Slots : HoldingNext(k)
<1> DEFINE e == endpoints[i]
           p == slots[i]
<1>1. /\ Runs(i) /\ ResolvesReceive(e, handles[i], h)
      /\ handles' = handles /\ process_handles' = process_handles
  BY DEF ReceiveEndpoint, EndpointStep
<1>2. CASE e.queue # << >>
  <2> DEFINE f == [e EXCEPT !.queue = Tail(e.queue), !.pending = NoHandle]
  <2>1. slots' = slots /\ endpoints' = [endpoints EXCEPT ![i] = f]
    BY <1>2, Zenon DEF ReceiveEndpoint, TypeOK
  <2>2. Orderly(p, f, handles[i], process_handles[i])
    BY <1>1, <1>2, CallerHolds, PoppedOrderly, Zenon
  <2>3. handles' = [handles EXCEPT ![i] = handles[i]]
    BY <1>1, CallerHolds
  <2> HIDE DEF f
  <2> QED BY <1>1, <2>1, <2>2, <2>3, HoldingCall, Zenon
<1>3. CASE e.queue = << >>
  <2> DEFINE f == [e EXCEPT !.pending = h]
             q == [p EXCEPT !.state = "Waiting", !.blocked_on = "Endpoint"]
  <2>1. slots' = [slots EXCEPT ![i] = q] /\ endpoints' = [endpoints EXCEPT ![i] = f]
    BY <1>3, Zenon DEF ReceiveEndpoint, TypeOK
  <2>2. Orderly(q, f, handles[i], process_handles[i])
    BY <1>1, <1>3, CallerHolds, ParkedOrderly, Zenon
  <2> HIDE DEF f, q
  <2>3. /\ slots'[i] = q /\ endpoints'[i] = f
        /\ \A k \in Slots \ {i} : slots'[k] = slots[k] /\ endpoints'[k] = endpoints[k]
    BY <2>1 DEF TypeOK
  <2>4. HoldingNext(i)
    BY <1>1, <2>2, <2>3 DEF HoldingNext
  <2>5. \A k \in Slots \ {i} : HoldingNext(k)
    BY <1>1, <2>3, UntouchedOrderly
  <2> QED BY <2>4, <2>5
<1> QED BY <1>2, <1>3

\* complete_endpoint_close.
LEMMA HoldingClose ==
  ASSUME TypeOK, HoldingsOrderly, NEW i \in Slots, NEW h \in Handle, CloseEndpoint(i, h)
  PROVE  \A k \in Slots : HoldingNext(k)
<1> DEFINE e == endpoints[i]
           cap == e.handles[h.slot]
           f == Closed(e, h)
           u == handles[i] \ {EndpointEntry(Kind(cap), h)}
           closed == [endpoints EXCEPT ![i] = f]
           left == [handles EXCEPT ![i] = u]
           revoked == {<<slots[i].pid, h.gen>>}
<1>1. /\ Runs(i) /\ Resolves(e, handles[i], h)
      /\ slots' = slots /\ process_handles' = process_handles
  BY Zenon DEF CloseEndpoint, EndpointStep
<1>2. Orderly(slots[i], f, u, process_handles[i])
  BY <1>1, CallerHolds, ClosedOrderly
<1>3. CASE cap.role # "Receive"
  <2>1. endpoints' = closed /\ handles' = left
    BY <1>3, Zenon DEF CloseEndpoint
  <2> HIDE DEF f, u
  <2> QED BY <1>1, <1>2, <2>1, HoldingCall, Zenon
<1>4. CASE cap.role = "Receive"
  <2>1. /\ endpoints' = [k \in Slots |-> Revoked(closed[k], revoked)]
        /\ handles' = [k \in Slots |-> RevokedEntries(closed[k], left[k], revoked)]
    BY <1>4, Zenon DEF CloseEndpoint
  <2>2. f \in EndpointState
    BY ClosedType DEF TypeOK
  <2> HIDE DEF f, u, revoked
  <2>3. \A k \in Slots : /\ closed[k] \in EndpointState
                         /\ Orderly(slots[k], closed[k], left[k], process_handles[k])
    BY <1>2, <2>2 DEF TypeOK, HoldingsOrderly, Holding
  <2> HIDE DEF closed, left
  <2>4. \A k \in Slots : Orderly(slots[k], Revoked(closed[k], revoked),
                           RevokedEntries(closed[k], left[k], revoked), process_handles[k])
    BY <2>3, SweptOrderly, Zenon
  <2> QED BY <1>1, <2>1, <2>4, Zenon DEF HoldingNext
<1> QED BY <1>3, <1>4

-----------------------------------------------------------------------------
\* Nothing is held initially.
LEMMA HoldingsInit == Init => HoldingsOrderly
<1> SUFFICES ASSUME Init, NEW i \in Slots
             PROVE  Holding(i)
  BY DEF HoldingsOrderly
<1>1. /\ slots[i] = NoProc /\ endpoints[i] = NewEndpointState
      /\ handles[i] = {} /\ process_handles[i] = NoProcessHandles
  BY DEF Init
<1> QED BY <1>1, VacatedOrderly, Zenon DEF Holding

\* Every step keeps what every slot holds in order.
LEMMA HoldingsNext ==
  ASSUME TypeOK, HoldingsOrderly, [Next]_vars
  PROVE  HoldingsOrderly'
<1> SUFFICES \A k \in Slots : HoldingNext(k)
  BY HoldingsNextState
<1>1. CASE SpawnShell
  <2>1. PICK s \in FreeSlots : \E pidOf \in [{s} -> FreshPids], built \in BOOLEAN :
           Spawn(s, {}, pidOf, TRUE, built)
    BY <1>1, Zenon DEF SpawnShell
  <2>2. PICK pidOf \in [{s} -> FreshPids], built \in BOOLEAN :
           Spawn(s, {}, pidOf, TRUE, built)
    BY <2>1, Zenon
  <2>3. pidOf \in [{s} \cup {} -> FreshPids] /\ {} \in SUBSET (FreeSlots \ {s})
    BY <2>2, {s} \cup {} = {s}
  <2> QED BY <2>2, <2>3, HoldingSpawn, Zenon
<1>2. CASE SpawnFamily
  BY <1>2, HoldingSpawn, Zenon DEF SpawnFamily
<1>3. CASE DropStaleLaunch \/ UNCHANGED vars
  <2>1. /\ slots' = slots /\ endpoints' = endpoints
        /\ handles' = handles /\ process_handles' = process_handles
    BY <1>3 DEF DropStaleLaunch, vars
  <2> QED BY <2>1, UntouchedOrderly
<1>4. ASSUME NEW i \in Slots, Kill(i) PROVE \A k \in Slots : HoldingNext(k)
  BY <1>4, HoldingTerminate DEF Kill, Live, TerminalStates
<1>5. ASSUME NEW i \in Slots, NEW final \in {"Exited", "Faulted"}, Exit(i, final)
      PROVE \A k \in Slots : HoldingNext(k)
  BY <1>5, HoldingTerminate DEF Exit, Runs, Live, TerminalStates
<1>6. ASSUME NEW i \in Slots, NEW h \in ProcSlots, NEW t \in Slots,
             ControlledKill(i, h, t)
      PROVE \A k \in Slots : HoldingNext(k)
  BY <1>6, HoldingTerminate DEF ControlledKill, Live, TerminalStates
<1>7. CASE Lifecycle
  BY <1>7, <1>1, <1>2, <1>3, <1>4, <1>5, <1>6, HoldingWait, HoldingReap, HoldingWaitChild,
     HoldingRequest, HoldingLaunchFails, HoldingLaunchSucceeds DEF Lifecycle
<1>8. CASE Messaging
  BY <1>8, HoldingCreate, HoldingConnect, HoldingSend, HoldingReceive, HoldingClose
     DEF Messaging
<1> QED BY <1>3, <1>7, <1>8 DEF Next
=============================================================================
