---------------------------- MODULE ProcessTypes ----------------------------
(***************************************************************************)
(* Type correctness of ProcessManager and the authority of its endpoints,  *)
(* for every number of slots, pids, capability slots, generations and      *)
(* incarnations, with the lemmas about the operators of Endpoint that all  *)
(* proofs about it use.                                                    *)
(***************************************************************************)
EXTENDS ProcessManager, TLAPS

-----------------------------------------------------------------------------
(* The operators of Endpoint keep an EndpointState well formed.            *)

\* The empty queue is a queue.
LEMMA EmptyQueue == << >> \in Seq(Message)
OBVIOUS

\* EndpointState::new builds a well-formed state.
LEMMA NewEndpointStateType == NewEndpointState \in EndpointState
BY EmptyQueue, EndpointConstants DEF NewEndpointState, EndpointState

\* EndpointState::clear keeps the state well formed.
LEMMA ClearedType ==
  ASSUME NEW e \in EndpointState
  PROVE  Cleared(e) \in EndpointState
<1>1. e.next_generation \in 1..(GenerationMax + 1)
  BY DEF EndpointState
<1> QED BY <1>1, NewEndpointStateType, Zenon DEF Cleared, EndpointState

\* EndpointState::revoke_send_handles keeps the state well formed.
LEMMA RevokedType ==
  ASSUME NEW e \in EndpointState, NEW targets
  PROVE  Revoked(e, targets) \in EndpointState
BY DEF Revoked, EndpointState

\* revoke_send_handles clears exactly the capabilities that name a target.
LEMMA RevokedValue ==
  ASSUME NEW e \in EndpointState, NEW targets
  PROVE  /\ Revoked(e, targets).published = e.published
         /\ Revoked(e, targets).queue = e.queue
         /\ Revoked(e, targets).pending = e.pending
         /\ Revoked(e, targets).next_generation = e.next_generation
         /\ \A s \in CapSlots : Revoked(e, targets).handles[s]
              = IF Names(e.handles[s], targets) THEN NoCap ELSE e.handles[s]
BY DEF Revoked, EndpointState

\* Taking a generation that is in range keeps the state well formed.
LEMMA TakeGenerationType ==
  ASSUME NEW e \in EndpointState, e.next_generation <= GenerationMax
  PROVE  TakeGeneration(e) \in EndpointState
BY EndpointConstants, SMTT(20) DEF TakeGeneration, EndpointState

\* EndpointState::allocate keeps the state well formed.
LEMMA WithCapabilityType ==
  ASSUME NEW e \in EndpointState, e.next_generation <= GenerationMax,
         NEW s \in CapSlots, NEW cap \in SendCap \cup ReceiveCap
  PROVE  WithCapability(e, s, cap) \in EndpointState
<1>1. TakeGeneration(e) \in EndpointState
  BY TakeGenerationType
<1> QED BY <1>1, Zenon DEF WithCapability, EndpointState

\* EndpointState::create keeps the state well formed.
LEMMA WithPublishedType ==
  ASSUME NEW e \in EndpointState, e.next_generation <= GenerationMax,
         NEW s \in CapSlots
  PROVE  WithPublished(e, s) \in EndpointState
<1> DEFINE cap == [role |-> "Receive", gen |-> e.next_generation]
<1>1. e.next_generation \in Generations
  BY EndpointConstants DEF EndpointState, Generations
<1>2. WithCapability(e, s, cap) \in EndpointState
  BY <1>1, WithCapabilityType DEF ReceiveCap
<1> DEFINE c == WithCapability(e, s, cap)
           none == << >>
<1>3. e.next_generation \in 0..GenerationMax
  BY <1>1, EndpointConstants DEF Generations
<1>4. c \in EndpointState /\ none \in Seq(Message)
  BY <1>2, EmptyQueue
<1>5. WithPublished(e, s) = [c EXCEPT !.published = e.next_generation, !.queue = none]
  BY DEF WithPublished
<1> HIDE DEF c, none
<1> QED BY <1>3, <1>4, <1>5, Zenon DEF EndpointState

\* EndpointState::close keeps the state well formed.
LEMMA ClosedType ==
  ASSUME NEW e \in EndpointState, NEW h \in Handle
  PROVE  Closed(e, h) \in EndpointState
<1> DEFINE none == << >>
           left == [e.handles EXCEPT ![h.slot] = NoCap]
<1>1. none \in Seq(Message)
  BY EmptyQueue
<1>2. left \in [CapSlots -> SendCap \cup ReceiveCap \cup {NoCap}]
  BY DEF EndpointState, Handle
<1>3. Closed(e, h) \in {[e EXCEPT !.handles = left, !.published = 0, !.queue = none,
                                 !.pending = NoHandle],
                       [e EXCEPT !.handles = left]}
  BY DEF Closed, EndpointState, Handle
<1> HIDE DEF none, left
<1>4. [e EXCEPT !.handles = left] \in EndpointState
  BY <1>2 DEF EndpointState
<1> DEFINE zero == 0
<1>6. zero \in 0..GenerationMax
  BY EndpointConstants
<1> HIDE DEF zero
<1>5. [e EXCEPT !.handles = left, !.published = zero, !.queue = none,
                !.pending = NoHandle] \in EndpointState
  BY <1>1, <1>2, <1>6, Zenon DEF EndpointState
<1> QED BY <1>3, <1>4, <1>5 DEF zero

\* EndpointState::enqueue keeps the state well formed.
LEMMA EnqueuedType ==
  ASSUME NEW e \in EndpointState, NEW msg \in Message
  PROVE  Enqueued(e, msg) \in EndpointState
<1>1. Append(e.queue, msg) \in Seq(Message)
  BY DEF EndpointState
<1> QED BY <1>1, Zenon DEF Enqueued, EndpointState

-----------------------------------------------------------------------------
(* Type correctness.                                                       *)

\* A new process record is well formed when its slot's key is not exhausted.
LEMMA NewProcessType ==
  ASSUME TypeOK, NEW i \in Slots, incarnations[i] < IncarnationMax,
         NEW pid \in Pids, NEW parent \in Key \cup {NoKey}, NEW sup \in BOOLEAN
  PROVE  /\ NewKey(i) \in Key
         /\ NewProcess(i, pid, parent, sup) \in Process
<1>1. incarnations[i] \in Nat
  BY EndpointConstants DEF TypeOK
<1>2. NewKey(i) \in Key
  BY <1>1, EndpointConstants DEF NewKey, Key
<1>3. 0 \in 0..RequestMax /\ 1 \in 1..(RequestMax + 1)
  BY ManagerConstants
<1> QED BY <1>2, <1>3 DEF NewProcess, Process, LiveStates

\* Waking or resuming a process keeps its record well formed.
LEMMA WokenType ==
  ASSUME NEW p \in Process
  PROVE  Woken(p) \in Process /\ Resumed(p) \in Process
<1>1. Woken(p) \in Process
  BY Zenon DEF Woken, Process, LiveStates
<1>2. 0 \in 0..RequestMax
  BY ManagerConstants
<1> QED BY <1>1, <1>2 DEF Resumed, Process

\* The initial state is well typed.
LEMMA TypeInit == Init => TypeOK
BY NewEndpointStateType, EndpointConstants, ManagerConstants
   DEF Init, TypeOK, NoProcessHandles

\* allocate_key stops before it would pass the last incarnation.
LEMMA KeysTakenAreLeft ==
  ASSUME NEW chosen \in SUBSET Slots, NEW s \in KeysTaken(chosen)
  PROVE  s \in chosen /\ incarnations[s] < IncarnationMax
<1>1. s \in chosen /\ s \in Nat
  BY EndpointConstants DEF KeysTaken
<1>2. s <= s
  BY <1>1
<1> QED BY <1>1, <1>2 DEF KeysTaken

\* Spawning keeps the types.
LEMMA TypeSpawn ==
  ASSUME TypeOK, NEW parent \in FreeSlots,
         NEW children \in SUBSET (FreeSlots \ {parent}),
         NEW pidOf \in [{parent} \cup children -> FreshPids],
         NEW shell \in BOOLEAN, NEW built \in BOOLEAN,
         Spawn(parent, children, pidOf, shell, built)
  PROVE  TypeOK'
<1> DEFINE chosen == {parent} \cup children
<1>1. chosen \subseteq Slots
  BY DEF FreeSlots
<1>2. incarnations' \in [Slots -> 0..IncarnationMax]
  <2>1. \A s \in KeysTaken(chosen) : s \in Slots /\ incarnations[s] < IncarnationMax
    BY <1>1, KeysTakenAreLeft
  <2>2. incarnations' = [s \in Slots |-> IF s \in KeysTaken(chosen)
                            THEN incarnations[s] + 1 ELSE incarnations[s]]
    BY DEF Spawn, TakeKeys
  <2> HIDE DEF chosen
  <2>3. \A s \in Slots : incarnations[s] \in 0..IncarnationMax
    BY DEF TypeOK
  <2> QED BY <2>1, <2>2, <2>3, EndpointConstants
<1>3. CASE built /\ KeysTaken(chosen) = chosen
  <2>1. \A s \in chosen : incarnations[s] < IncarnationMax /\ pidOf[s] \in Pids
    BY <1>1, <1>3, KeysTakenAreLeft DEF FreshPids
  <2>2. NewKey(parent) \in Key
    BY <1>1, <2>1, NewProcessType, parent \in chosen
  <2>3. \A s \in chosen, par \in Key \cup {NoKey} :
           NewProcess(s, pidOf[s], par, shell) \in Process
    BY <1>1, <2>1, NewProcessType, Zenon
  <2>4. slots' \in [Slots -> Process \cup {NoProc}]
    <3>1. slots' = [s \in Slots |->
               IF s = parent THEN NewProcess(s, pidOf[s], NoKey, shell)
               ELSE IF s \in children
               THEN NewProcess(s, pidOf[s], NewKey(parent), shell)
               ELSE slots[s]]
      BY <1>3 DEF Spawn
    <3>2. \A s \in Slots : slots[s] \in Process \cup {NoProc}
      BY DEF TypeOK
    <3> QED BY <3>1, <3>2, <2>2, <2>3
  <2>5. endpoints' \in [Slots -> EndpointState]
    BY <1>3, NewEndpointStateType DEF Spawn, TypeOK
  <2>6. handles' \in [Slots -> SUBSET Entry]
    BY <1>3, SMTT(20) DEF Spawn, TypeOK, Entry
  <2>7. process_handles' \in [Slots -> [ProcSlots -> ProcessCap \cup {NoCap}]]
    BY <1>3 DEF Spawn, TypeOK, NoProcessHandles
  <2> QED BY <1>2, <2>4, <2>5, <2>6, <2>7 DEF Spawn, TypeOK
<1>4. CASE ~(built /\ KeysTaken(chosen) = chosen)
  BY <1>2, <1>4, Zenon DEF Spawn, TypeOK
<1> QED BY <1>3, <1>4

\* Ending a process keeps the types.
LEMMA TypeTerminate ==
  ASSUME TypeOK, NEW i \in Slots, slots[i] # NoProc,
         NEW final \in TerminalStates, Terminate(i, final)
  PROVE  TypeOK'
<1> DEFINE gone == Supervised(i)
           revoked == Targets({i} \cup gone)
<1>1. slots' \in [Slots -> Process \cup {NoProc}]
  <2>1. slots[i] \in Process
    BY DEF TypeOK
  <2>2. 0 \in 0..RequestMax
    BY ManagerConstants
  <2>3. [slots[i] EXCEPT !.completed = TRUE, !.state = final,
                         !.pending_launch = 0] \in Process
    BY <2>1, <2>2, Zenon DEF Process
  <2>4. \A k \in Slots : slots[k] \in Process \cup {NoProc}
    BY DEF TypeOK
  <2>5. \A k \in Slots : WaitsFor(slots[k], slots[i].key) => Woken(slots[k]) \in Process
    BY <2>4, WokenType DEF WaitsFor
  <2> QED BY <2>3, <2>4, <2>5 DEF Terminate
<1>2. endpoints' \in [Slots -> EndpointState]
  <2>1. \A k \in Slots : endpoints[k] \in EndpointState
    BY DEF TypeOK
  <2>2. \A k \in Slots : /\ Cleared(endpoints[k]) \in EndpointState
                         /\ Revoked(endpoints[k], revoked) \in EndpointState
    BY <2>1, ClearedType, RevokedType
  <2> QED BY <2>2, NewEndpointStateType, Zenon DEF Terminate
<1>3. handles' \in [Slots -> SUBSET Entry]
  <2>1. \A k \in Slots : RevokedEntries(endpoints[k], handles[k], revoked) \subseteq Entry
    BY DEF RevokedEntries, TypeOK
  <2> QED BY <2>1, Zenon DEF Terminate
<1>4. process_handles' \in [Slots -> [ProcSlots -> ProcessCap \cup {NoCap}]]
  BY DEF Terminate, TypeOK, NoProcessHandles
<1> QED BY <1>1, <1>2, <1>3, <1>4, Zenon DEF Terminate, TypeOK

\* Freeing the slot of a process keeps the types.
LEMMA TypeFreeSlot ==
  ASSUME TypeOK, NEW i \in Slots, FreeSlot(i)
  PROVE  /\ slots' \in [Slots -> Process \cup {NoProc}]
         /\ endpoints' \in [Slots -> EndpointState]
<1>1. \A k \in Slots : Revoked(endpoints[k], Targets({i})) \in EndpointState
  BY RevokedType DEF TypeOK
<1> QED BY <1>1, NewEndpointStateType, Zenon DEF FreeSlot, TypeOK

\* ProcessManager::wait keeps the types.
LEMMA TypeWait ==
  ASSUME TypeOK, NEW i \in Slots, Wait(i)
  PROVE  TypeOK'
<1>1. handles' \in [Slots -> SUBSET Entry]
  BY DEF Wait, RevokedEntries, TypeOK
<1>2. process_handles' \in [Slots -> [ProcSlots -> ProcessCap \cup {NoCap}]]
  BY DEF Wait, TypeOK, NoProcessHandles
<1>3. FreeSlot(i)
  BY DEF Wait
<1> QED BY <1>1, <1>2, <1>3, TypeFreeSlot, Zenon DEF Wait, TypeOK

\* The shell's reap keeps the types.
LEMMA TypeControlledReap ==
  ASSUME TypeOK, NEW i \in Slots, NEW h \in ProcSlots, NEW t \in Slots,
         ControlledReap(i, h, t)
  PROVE  TypeOK'
<1>1. handles' \in [Slots -> SUBSET Entry]
  <2>1. \A k \in Slots : RevokedEntries(endpoints[k], handles[k], Targets({t})) \subseteq Entry
    BY DEF RevokedEntries, TypeOK
  <2> QED BY <2>1, Zenon DEF ControlledReap
<1>2. process_handles' \in [Slots -> [ProcSlots -> ProcessCap \cup {NoCap}]]
  BY Zenon DEF ControlledReap, TypeOK, NoProcessHandles
<1>3. FreeSlot(t)
  BY DEF ControlledReap
<1> QED BY <1>1, <1>2, <1>3, TypeFreeSlot, Zenon DEF ControlledReap, TypeOK

\* Blocking on a child keeps the types.
LEMMA TypeWaitChild ==
  ASSUME TypeOK, NEW i \in Slots, NEW c \in Slots, WaitChild(i, c)
  PROVE  TypeOK'
<1>1. slots[i] \in Process /\ slots[c] \in Process
  BY DEF WaitChild, Runs, Live, TypeOK
<1>2. slots' \in [Slots -> Process \cup {NoProc}]
  BY <1>1, Zenon DEF WaitChild, TypeOK, Process, LiveStates
<1> QED BY <1>2 DEF WaitChild, TypeOK

\* Blocking on a launch keeps the types.
LEMMA TypeRequestLaunch ==
  ASSUME TypeOK, NEW i \in Slots, RequestLaunch(i)
  PROVE  TypeOK'
<1>1. slots[i] \in Process /\ slots[i].next_request <= RequestMax
  BY DEF RequestLaunch, Runs, Live, TypeOK
<1>2. /\ slots[i].next_request \in 1..RequestMax
      /\ slots[i].next_request \in 0..RequestMax
      /\ slots[i].next_request + 1 \in 1..(RequestMax + 1)
  BY <1>1, ManagerConstants DEF Process
<1> DEFINE p == [slots[i] EXCEPT !.state = "Waiting", !.blocked_on = "ProcessLaunch",
                      !.pending_launch = slots[i].next_request,
                      !.next_request = slots[i].next_request + 1]
<1>3. p \in Process
  BY <1>1, <1>2, Zenon DEF Process, LiveStates
<1>4. slots' = [slots EXCEPT ![i] = p]
  BY Zenon DEF RequestLaunch, TypeOK
<1>5. slots' \in [Slots -> Process \cup {NoProc}]
  BY <1>3, <1>4 DEF TypeOK
<1>6. pending_lifecycle' \in LaunchRequest
  BY <1>1, <1>2 DEF RequestLaunch, LaunchRequest, Process
<1> QED BY <1>5, <1>6 DEF RequestLaunch, TypeOK

\* A launch that ends without a child keeps the types.
LEMMA TypeLaunchFails ==
  ASSUME TypeOK, NEW i \in Slots, NEW c \in Slots, LaunchFails(i, c)
  PROVE  TypeOK'
<1>1. slots[i] \in Process
  BY DEF LaunchFails, LaunchActive, Live, TypeOK
<1>2. slots' \in [Slots -> Process \cup {NoProc}]
  BY <1>1, WokenType DEF LaunchFails, TypeOK
<1>3. incarnations' \in [Slots -> 0..IncarnationMax]
  <2>1. (IF incarnations[c] < IncarnationMax THEN incarnations[c] + 1
         ELSE incarnations[c]) \in 0..IncarnationMax
    BY EndpointConstants DEF TypeOK
  <2> QED BY <2>1 DEF LaunchFails, TypeOK
<1> QED BY <1>2, <1>3 DEF LaunchFails, TypeOK

\* A launch that publishes a child keeps the types.
LEMMA TypeLaunchSucceeds ==
  ASSUME TypeOK, NEW i \in Slots, NEW c \in Slots, NEW pid \in Pids,
         NEW h \in ProcSlots, LaunchSucceeds(i, c, pid, h)
  PROVE  TypeOK'
<1> DEFINE entry == [kind |-> "Process", gen |-> next_process_handle, slot |-> h]
           cap == [target |-> NewKey(c), gen |-> next_process_handle]
           child == NewProcess(c, pid, slots[i].key, FALSE)
<1>1. /\ slots[i] \in Process
      /\ slots[i].key \in Key
      /\ incarnations[c] < IncarnationMax
  BY DEF LaunchSucceeds, LaunchActive, Live, TypeOK, Process
<1>2. /\ next_process_handle \in 1..ProcHandleGenMax
      /\ next_process_handle + 1 \in 1..ProcHandleGenMax
  BY ManagerConstants DEF LaunchSucceeds, TypeOK
<1>3. incarnations[c] + 1 \in 0..IncarnationMax
  BY <1>1, EndpointConstants DEF TypeOK
<1>4. child \in Process /\ NewKey(c) \in Key
  BY <1>1, NewProcessType, Zenon
<1>5. entry \in Entry /\ cap \in ProcessCap
  BY <1>2, <1>4 DEF Entry, ProcessCap
<1>6. Resumed(slots[i]) \in Process
  BY <1>1, WokenType
<1>7. incarnations' \in [Slots -> 0..IncarnationMax]
  BY <1>3 DEF LaunchSucceeds, TypeOK
<1>8. slots' \in [Slots -> Process \cup {NoProc}]
  <2>1. \/ slots' = [slots EXCEPT ![i] = Resumed(slots[i]), ![c] = child]
        \/ slots' = [slots EXCEPT ![i] = Resumed(slots[i])]
    BY Zenon DEF LaunchSucceeds
  <2> HIDE DEF child
  <2> QED BY <2>1, <1>4, <1>6 DEF TypeOK
<1>9. handles' \in [Slots -> SUBSET Entry]
  <2>1. \/ handles' = [handles EXCEPT ![i] = handles[i] \cup {entry}, ![c] = {}]
        \/ handles' = handles
    BY Zenon DEF LaunchSucceeds
  <2> HIDE DEF entry
  <2> QED BY <2>1, <1>5 DEF TypeOK
<1>10. process_handles' \in [Slots -> [ProcSlots -> ProcessCap \cup {NoCap}]]
  <2>1. \/ process_handles' = [process_handles EXCEPT ![i][h] = cap,
                                                      ![c] = NoProcessHandles]
        \/ process_handles' = process_handles
    BY Zenon DEF LaunchSucceeds
  <2> DEFINE mine == [process_handles[i] EXCEPT ![h] = cap]
  <2>2. mine \in [ProcSlots -> ProcessCap \cup {NoCap}]
    BY <1>5 DEF TypeOK
  <2>3. \/ process_handles' = [process_handles EXCEPT ![i] = mine,
                                                      ![c] = NoProcessHandles]
        \/ process_handles' = process_handles
    BY <2>1 DEF TypeOK
  <2>4. NoProcessHandles \in [ProcSlots -> ProcessCap \cup {NoCap}]
    BY DEF NoProcessHandles
  <2> HIDE DEF mine
  <2> QED BY <2>2, <2>3, <2>4 DEF TypeOK
<1>11. endpoints' \in [Slots -> EndpointState]
  BY NewEndpointStateType, Zenon DEF LaunchSucceeds, TypeOK
<1> QED BY <1>2, <1>7, <1>8, <1>9, <1>10, <1>11 DEF LaunchSucceeds, TypeOK

\* The endpoint calls keep the types.
LEMMA TypeCreateEndpoint ==
  ASSUME TypeOK, NEW i \in Slots, NEW s \in CapSlots, CreateEndpoint(i, s)
  PROVE  TypeOK'
<1> DEFINE entry == EndpointEntry("EndpointReceive", NewHandle(i, s))
           e == endpoints[i]
<1>1. e \in EndpointState /\ e.next_generation <= GenerationMax
  BY DEF CreateEndpoint, CanAllocate, TypeOK
<1>2. e.next_generation \in Generations
  BY <1>1, EndpointConstants DEF EndpointState, Generations
<1>3. entry \in Entry
  BY <1>2 DEF EndpointEntry, NewHandle, Entry
<1>4. WithPublished(e, s) \in EndpointState /\ TakeGeneration(e) \in EndpointState
  BY <1>1, WithPublishedType, TakeGenerationType
<1>5. endpoints' \in [Slots -> EndpointState]
  BY <1>4 DEF CreateEndpoint, TypeOK
<1>6. handles' \in [Slots -> SUBSET Entry]
  BY <1>3 DEF CreateEndpoint, TypeOK
<1> QED BY <1>5, <1>6 DEF CreateEndpoint, EndpointStep, TypeOK

\* complete_endpoint_connect keeps the types.
LEMMA TypeConnectEndpoint ==
  ASSUME TypeOK, NEW i \in Slots, NEW s \in CapSlots, NEW t \in Slots,
         ConnectEndpoint(i, s, t)
  PROVE  TypeOK'
<1> DEFINE entry == EndpointEntry("EndpointSend", NewHandle(i, s))
           e == endpoints[i]
           cap == [role |-> "Send", gen |-> endpoints[i].next_generation,
                   target_pid |-> slots[t].pid,
                   target_generation |-> endpoints[t].published,
                   target |-> slots[t].key]
<1>1. e \in EndpointState /\ e.next_generation <= GenerationMax
  BY DEF ConnectEndpoint, CanAllocate, TypeOK
<1>2. e.next_generation \in Generations
  BY <1>1, EndpointConstants DEF EndpointState, Generations
<1>3. entry \in Entry
  BY <1>2 DEF EndpointEntry, NewHandle, Entry
<1>4. slots[t] \in Process /\ endpoints[t] \in EndpointState /\ endpoints[t].published # 0
  BY DEF ConnectEndpoint, Live, TypeOK
<1>5. endpoints[t].published \in Generations
  BY <1>4, EndpointConstants DEF EndpointState, Generations
<1>6. cap \in SendCap
  BY <1>2, <1>4, <1>5 DEF SendCap, Process
<1>7. WithCapability(e, s, cap) \in EndpointState /\ TakeGeneration(e) \in EndpointState
  BY <1>1, <1>6, WithCapabilityType, TakeGenerationType
<1>8. endpoints' \in [Slots -> EndpointState]
  <2>1. \/ endpoints' = [endpoints EXCEPT ![i] = WithCapability(e, s, cap)]
        \/ endpoints' = [endpoints EXCEPT ![i] = TakeGeneration(e)]
    BY DEF ConnectEndpoint
  <2> HIDE DEF cap, e
  <2> QED BY <2>1, <1>7 DEF TypeOK
<1>9. handles' \in [Slots -> SUBSET Entry]
  BY <1>3 DEF ConnectEndpoint, TypeOK
<1> QED BY <1>8, <1>9 DEF ConnectEndpoint, EndpointStep, TypeOK

\* complete_endpoint_send keeps the types.
LEMMA TypeSendEndpoint ==
  ASSUME TypeOK, NEW i \in Slots, NEW h \in Handle, NEW t \in Slots,
         SendEndpoint(i, h, t)
  PROVE  TypeOK'
<1> DEFINE msg == [sender_pid |-> slots[i].pid, sender |-> slots[i].key]
<1>1. /\ slots[i] \in Process /\ slots[t] \in Process
      /\ endpoints[t] \in EndpointState
  BY DEF SendEndpoint, Runs, Publishes, Live, TypeOK
<1>2. msg \in Message
  BY <1>1 DEF Message, Process
<1>3. /\ Woken(slots[t]) \in Process
      /\ Enqueued(endpoints[t], msg) \in EndpointState
      /\ [endpoints[t] EXCEPT !.pending = NoHandle] \in EndpointState
  BY <1>1, <1>2, WokenType, EnqueuedType, Zenon DEF EndpointState
<1>4. slots' \in [Slots -> Process \cup {NoProc}]
  BY <1>3 DEF SendEndpoint, TypeOK
<1>5. endpoints' \in [Slots -> EndpointState]
  <2>1. \/ endpoints' = [endpoints EXCEPT ![t] = Enqueued(endpoints[t], msg)]
        \/ endpoints' = [endpoints EXCEPT ![t] = [endpoints[t] EXCEPT !.pending = NoHandle]]
    BY DEF SendEndpoint, TypeOK
  <2> HIDE DEF msg
  <2> QED BY <2>1, <1>3, Zenon DEF TypeOK
<1> QED BY <1>4, <1>5 DEF SendEndpoint, EndpointStep, TypeOK

\* complete_endpoint_receive keeps the types.
LEMMA TypeReceiveEndpoint ==
  ASSUME TypeOK, NEW i \in Slots, NEW h \in Handle, ReceiveEndpoint(i, h)
  PROVE  TypeOK'
<1> DEFINE e == endpoints[i]
           p == [slots[i] EXCEPT !.state = "Waiting", !.blocked_on = "Endpoint"]
<1>1. slots[i] \in Process /\ e \in EndpointState
  BY DEF ReceiveEndpoint, Runs, Live, TypeOK
<1>2. p \in Process
  BY <1>1, Zenon DEF Process, LiveStates
<1>3. slots' \in [Slots -> Process \cup {NoProc}]
  <2>1. slots' = slots \/ slots' = [slots EXCEPT ![i] = p]
    BY Zenon DEF ReceiveEndpoint, TypeOK
  <2> HIDE DEF p
  <2> QED BY <2>1, <1>2 DEF TypeOK
<1>4. [e EXCEPT !.pending = h] \in EndpointState
  BY <1>1 DEF EndpointState
<1>5. CASE e.queue # << >>
  <2>1. Tail(e.queue) \in Seq(Message)
    BY <1>1, <1>5 DEF EndpointState
  <2>2. [e EXCEPT !.queue = Tail(e.queue), !.pending = NoHandle] \in EndpointState
    BY <1>1, <2>1, Zenon DEF EndpointState
  <2>3. endpoints' = [endpoints EXCEPT ![i] =
           [e EXCEPT !.queue = Tail(e.queue), !.pending = NoHandle]]
    BY <1>5, Zenon DEF ReceiveEndpoint, TypeOK
  <2> QED BY <1>3, <2>2, <2>3 DEF ReceiveEndpoint, EndpointStep, TypeOK
<1>6. CASE e.queue = << >>
  <2>1. endpoints' = [endpoints EXCEPT ![i] = [e EXCEPT !.pending = h]]
    BY <1>6 DEF ReceiveEndpoint, TypeOK
  <2>2. endpoints' \in [Slots -> EndpointState]
    BY <2>1, <1>4 DEF TypeOK
  <2> QED BY <1>3, <2>2 DEF ReceiveEndpoint, EndpointStep, TypeOK
<1> QED BY <1>5, <1>6

\* complete_endpoint_close keeps the types.
LEMMA TypeCloseEndpoint ==
  ASSUME TypeOK, NEW i \in Slots, NEW h \in Handle, CloseEndpoint(i, h)
  PROVE  TypeOK'
<1> DEFINE cap == endpoints[i].handles[h.slot]
           closed == [endpoints EXCEPT ![i] = Closed(endpoints[i], h)]
           left == [handles EXCEPT ![i] = handles[i] \ {EndpointEntry(Kind(cap), h)}]
           revoked == {<<slots[i].pid, h.gen>>}
<1>1. closed \in [Slots -> EndpointState]
  BY ClosedType DEF TypeOK
<1>2. left \in [Slots -> SUBSET Entry]
  BY DEF TypeOK
<1>3. \/ endpoints' = closed /\ handles' = left
      \/ /\ endpoints' = [k \in Slots |-> Revoked(closed[k], revoked)]
         /\ handles' = [k \in Slots |-> RevokedEntries(closed[k], left[k], revoked)]
  BY DEF CloseEndpoint
<1> HIDE DEF closed, left, revoked
<1>4. \A k \in Slots : /\ Revoked(closed[k], revoked) \in EndpointState
                       /\ RevokedEntries(closed[k], left[k], revoked) \subseteq Entry
  BY <1>1, <1>2, RevokedType DEF RevokedEntries
<1>5. endpoints' \in [Slots -> EndpointState] /\ handles' \in [Slots -> SUBSET Entry]
  BY <1>1, <1>2, <1>3, <1>4
<1> QED BY <1>5 DEF CloseEndpoint, EndpointStep, TypeOK

\* Every step of the manager keeps the types.
LEMMA TypeNext == TypeOK /\ [Next]_vars => TypeOK'
<1> SUFFICES ASSUME TypeOK, [Next]_vars PROVE TypeOK'
  OBVIOUS
<1>1. CASE SpawnShell
  <2>1. PICK s \in FreeSlots : \E pidOf \in [{s} -> FreshPids], built \in BOOLEAN :
           Spawn(s, {}, pidOf, TRUE, built)
    BY <1>1, Zenon DEF SpawnShell
  <2>2. PICK pidOf \in [{s} -> FreshPids], built \in BOOLEAN :
           Spawn(s, {}, pidOf, TRUE, built)
    BY <2>1, Zenon
  <2>3. pidOf \in [{s} \cup {} -> FreshPids] /\ {} \in SUBSET (FreeSlots \ {s})
    BY <2>2, {s} \cup {} = {s}
  <2> QED BY <2>2, <2>3, TypeSpawn, Zenon
<1>2. CASE SpawnFamily
  BY <1>2, TypeSpawn, Zenon DEF SpawnFamily
<1>3. CASE DropStaleLaunch
  BY <1>3 DEF DropStaleLaunch, TypeOK
<1>4. ASSUME NEW i \in Slots, Kill(i) PROVE TypeOK'
  BY <1>4, TypeTerminate DEF Kill, Live, TerminalStates
<1>5. ASSUME NEW i \in Slots, NEW final \in {"Exited", "Faulted"}, Exit(i, final)
      PROVE TypeOK'
  BY <1>5, TypeTerminate DEF Exit, Runs, Live, TerminalStates
<1>6. ASSUME NEW i \in Slots, NEW h \in ProcSlots, NEW t \in Slots,
             ControlledKill(i, h, t)
      PROVE TypeOK'
  BY <1>6, TypeTerminate DEF ControlledKill, Live, TerminalStates
<1>7. CASE UNCHANGED vars
  BY <1>7 DEF vars, TypeOK
<1>8. CASE Lifecycle
  BY <1>8, <1>1, <1>2, <1>3, <1>4, <1>5, <1>6, TypeWait, TypeRequestLaunch,
     TypeWaitChild, TypeLaunchFails, TypeControlledReap, TypeLaunchSucceeds
     DEF Lifecycle
<1>9. CASE Messaging
  BY <1>9, TypeCreateEndpoint, TypeConnectEndpoint, TypeSendEndpoint,
     TypeReceiveEndpoint, TypeCloseEndpoint DEF Messaging
<1> QED BY <1>7, <1>8, <1>9 DEF Next

\* The variables of the process manager keep the types of their Rust
\* declarations whatever is spawned, killed, launched, sent or closed: no
\* generation, incarnation or request id leaves its range.
THEOREM TypeCorrect == Spec => []TypeOK
BY TypeInit, TypeNext, PTL DEF Spec

-----------------------------------------------------------------------------
(* Endpoint authority.  SendAuthority alone is not inductive: that a newly *)
(* created endpoint or a new capability cannot be confused with another    *)
(* process needs the pids in use to be distinct.                           *)

\* allocate_pid only hands out a pid no occupied slot has.
DistinctPids ==
  \A i, j \in Slots : slots[i] # NoProc /\ slots[j] # NoProc
                      /\ slots[i].pid = slots[j].pid => i = j

AuthorityInv == TypeOK /\ DistinctPids /\ SendAuthority

IsSend(cap) == cap # NoCap /\ cap.role = "Send"

\* The endpoint that a send capability names is published now, and only by the
\* process it connected to.
Backed(cap) ==
  /\ \E t \in Slots : Publishes(t, cap.target_pid, cap.target_generation)
  /\ \A t \in Slots : Publishes(t, cap.target_pid, cap.target_generation) =>
        slots[t].key = cap.target

\* SendAuthority says that every send capability is backed.
LEMMA AuthorityIsBacking ==
  SendAuthority <=> \A i \in Slots, s \in CapSlots :
      IsSend(endpoints[i].handles[s]) => Backed(endpoints[i].handles[s])
BY DEF SendAuthority, IsSend, Backed

\* A send capability names a generation, never the 0 of an unpublished endpoint.
LEMMA SendCapNames ==
  ASSUME TypeOK, NEW i \in Slots, NEW s \in CapSlots,
         IsSend(endpoints[i].handles[s])
  PROVE  endpoints[i].handles[s] \in SendCap
BY DEF TypeOK, EndpointState, IsSend, ReceiveCap

\* Publishes(t, pid, generation) in the next state.
PublishesNext(t, pid, generation) ==
  /\ slots'[t] # NoProc
  /\ ~slots'[t].completed
  /\ slots'[t].pid = pid
  /\ endpoints'[t].published = generation

\* The capability in slot s of process i is an old one, and process t publishes
\* its target after the step exactly if it did before.
Kept(i, s, t) ==
  LET cap == endpoints[i].handles[s] IN
  /\ endpoints'[i].handles[s] = cap
  /\ PublishesNext(t, cap.target_pid, cap.target_generation)
       <=> Publishes(t, cap.target_pid, cap.target_generation)
  /\ Publishes(t, cap.target_pid, cap.target_generation)
       => slots'[t].key = slots[t].key

\* SendAuthority in the next state.
LEMMA AuthorityNextState ==
  ASSUME \A i \in Slots, s \in CapSlots :
           LET cap == endpoints'[i].handles[s] IN
           IsSend(cap) =>
             /\ \E t \in Slots : PublishesNext(t, cap.target_pid, cap.target_generation)
             /\ \A t \in Slots : PublishesNext(t, cap.target_pid, cap.target_generation)
                                   => slots'[t].key = cap.target
  PROVE  SendAuthority'
BY SMTT(30) DEF SendAuthority, IsSend, Publishes, Live, PublishesNext

\* A step that creates no send capability and keeps, for every capability that
\* is left, the processes publishing its target, keeps the authority.
LEMMA AuthorityKept ==
  ASSUME SendAuthority,
         \A i \in Slots, s \in CapSlots, t \in Slots :
           IsSend(endpoints'[i].handles[s]) => Kept(i, s, t)
  PROVE  SendAuthority'
<1> SUFFICES ASSUME NEW i \in Slots, NEW s \in CapSlots,
                    IsSend(endpoints'[i].handles[s])
             PROVE  LET cap == endpoints'[i].handles[s] IN
               /\ \E t \in Slots : PublishesNext(t, cap.target_pid, cap.target_generation)
               /\ \A t \in Slots : PublishesNext(t, cap.target_pid, cap.target_generation)
                                     => slots'[t].key = cap.target
  BY AuthorityNextState
<1> DEFINE cap == endpoints[i].handles[s]
<1>1. endpoints'[i].handles[s] = cap /\ IsSend(cap)
  BY DEF Kept
<1>2. Backed(cap)
  BY <1>1, AuthorityIsBacking
<1>3. \A t \in Slots : Kept(i, s, t)
  OBVIOUS
<1>4. \E t \in Slots : PublishesNext(t, cap.target_pid, cap.target_generation)
  BY <1>2, <1>3 DEF Backed, Kept
<1>5. \A t \in Slots : PublishesNext(t, cap.target_pid, cap.target_generation)
                         => slots'[t].key = cap.target
  BY <1>2, <1>3 DEF Backed, Kept
<1> QED BY <1>1, <1>4, <1>5, SMTT(20)

\* Ending or freeing processes keeps the authority: the sweep removes every
\* capability that names an endpoint they published.
LEMMA AuthoritySweep ==
  ASSUME AuthorityInv, NEW dying \in SUBSET Slots,
         \A k \in dying : slots'[k] = NoProc \/ slots'[k].completed,
         \A k \in dying : \A s \in CapSlots : endpoints'[k].handles[s] = NoCap,
         \A k \in Slots \ dying :
           /\ (slots'[k] = NoProc) <=> (slots[k] = NoProc)
           /\ slots[k] # NoProc => /\ slots'[k].completed = slots[k].completed
                                   /\ slots'[k].pid = slots[k].pid
                                   /\ slots'[k].key = slots[k].key
           /\ endpoints'[k] = Revoked(endpoints[k], Targets(dying))
  PROVE  SendAuthority'
<1> USE DEF AuthorityInv
<1> SUFFICES ASSUME NEW i \in Slots, NEW s \in CapSlots,
                    IsSend(endpoints'[i].handles[s]), NEW t \in Slots
             PROVE  Kept(i, s, t)
  BY AuthorityKept
<1> DEFINE cap == endpoints[i].handles[s]
<1>1. i \notin dying
  BY DEF IsSend
<1>2. /\ endpoints'[i].handles[s] = cap
      /\ ~Names(cap, Targets(dying))
  <2>1. endpoints[i] \in EndpointState
    BY DEF TypeOK
  <2>2. endpoints'[i] = Revoked(endpoints[i], Targets(dying))
    BY <1>1
  <2> QED BY <2>1, <2>2, RevokedValue DEF IsSend
<1>3. cap \in SendCap /\ cap.target_generation # 0
  BY <1>2, SendCapNames, EndpointConstants DEF SendCap, Generations
<1>4. ASSUME t \in dying PROVE ~Publishes(t, cap.target_pid, cap.target_generation)
  BY <1>2, <1>3, <1>4, SMTT(20) DEF Publishes, Names, Targets, SendCap, IsSend
<1>5. CASE t \in dying
  BY <1>2, <1>4, <1>5 DEF Kept, PublishesNext
<1>6. CASE t \notin dying
  <2>1. endpoints'[t].published = endpoints[t].published
    BY <1>6, RevokedValue, SMTT(20) DEF TypeOK
  <2> QED BY <1>2, <1>6, <2>1 DEF Kept, PublishesNext, Publishes, Live
<1> QED BY <1>5, <1>6

\* Ending a process keeps the authority and the pids distinct.
LEMMA AuthorityTerminate ==
  ASSUME AuthorityInv, NEW i \in Slots, slots[i] # NoProc,
         NEW final \in TerminalStates, Terminate(i, final)
  PROVE  DistinctPids' /\ SendAuthority'
<1> USE DEF AuthorityInv
<1> DEFINE gone == Supervised(i)
           dying == {i} \cup gone
<1>1. gone \subseteq Slots
  BY DEF Supervised, Occupied
<1>2. slots[i] \in Process /\ \A k \in Slots : slots[k] \in Process \cup {NoProc}
  BY DEF TypeOK
<1>3. \A k \in Slots : slots'[k] =
       IF k = i THEN [slots[i] EXCEPT !.completed = TRUE, !.state = final,
                                      !.pending_launch = 0]
       ELSE IF k \in gone THEN NoProc
       ELSE IF WaitsFor(slots[k], slots[i].key) THEN Woken(slots[k])
       ELSE slots[k]
  BY DEF Terminate
<1>4. \A k \in Slots : endpoints'[k] =
       IF k = i THEN Cleared(endpoints[k])
       ELSE IF k \in gone THEN NewEndpointState
       ELSE Revoked(endpoints[k], Targets(dying))
  BY DEF Terminate
<1> HIDE DEF gone
<1>5. slots'[i].completed /\ slots'[i].pid = slots[i].pid
  BY <1>2, <1>3, Zenon DEF Process
<1>6. \A k \in Slots \ dying :
           /\ (slots'[k] = NoProc) <=> (slots[k] = NoProc)
           /\ slots[k] # NoProc => /\ slots'[k].completed = slots[k].completed
                                   /\ slots'[k].pid = slots[k].pid
                                   /\ slots'[k].key = slots[k].key
  <2> SUFFICES ASSUME NEW k \in Slots \ dying
               PROVE  /\ (slots'[k] = NoProc) <=> (slots[k] = NoProc)
                      /\ slots[k] # NoProc =>
                           /\ slots'[k].completed = slots[k].completed
                           /\ slots'[k].pid = slots[k].pid
                           /\ slots'[k].key = slots[k].key
    OBVIOUS
  <2>1. CASE WaitsFor(slots[k], slots[i].key)
    <3>1. slots[k] \in Process /\ slots'[k] = Woken(slots[k])
      BY <1>2, <1>3, <2>1 DEF WaitsFor
    <3>2. Woken(slots[k]) \in Process
      BY <3>1, WokenType
    <3> QED BY <3>1, <3>2, NoProcIsNoProcess, Zenon DEF Woken, Process
  <2>2. CASE ~WaitsFor(slots[k], slots[i].key)
    BY <1>3, <2>2
  <2> QED BY <2>1, <2>2
<1>7. \A k \in dying : slots'[k] = NoProc \/ slots'[k].completed
  BY <1>1, <1>3, <1>5
<1>8. \A k \in dying : \A s \in CapSlots : endpoints'[k].handles[s] = NoCap
  <2>1. Cleared(endpoints[i]).handles = NewEndpointState.handles
    BY DEF Cleared, NewEndpointState
  <2> QED BY <1>1, <1>4, <2>1 DEF NewEndpointState
<1>9. SendAuthority'
  BY <1>1, <1>4, <1>6, <1>7, <1>8, AuthoritySweep
<1>10. DistinctPids'
  <2>1. \A k \in Slots : slots'[k] # NoProc =>
          slots[k] # NoProc /\ slots'[k].pid = slots[k].pid
    BY <1>3, <1>5, <1>6
  <2> QED BY <2>1 DEF DistinctPids
<1> QED BY <1>9, <1>10

\* Freeing the slot of a process that has ended keeps both.
LEMMA AuthorityFreeSlot ==
  ASSUME AuthorityInv, NEW i \in Slots, FreeSlot(i)
  PROVE  DistinctPids' /\ SendAuthority'
<1> USE DEF AuthorityInv
<1>1. \A k \in Slots : slots'[k] = IF k = i THEN NoProc ELSE slots[k]
  BY DEF FreeSlot, TypeOK
<1>2. \A k \in Slots : endpoints'[k] = IF k = i THEN NewEndpointState
                                       ELSE Revoked(endpoints[k], Targets({i}))
  BY DEF FreeSlot
<1>3. \A s \in CapSlots : endpoints'[i].handles[s] = NoCap
  BY <1>2 DEF NewEndpointState
<1>4. SendAuthority'
  BY <1>1, <1>2, <1>3, AuthoritySweep, {i} \in SUBSET Slots
<1>5. DistinctPids'
  BY <1>1 DEF DistinctPids
<1> QED BY <1>4, <1>5

\* Publishing new processes keeps both: they hold no capability and publish no
\* endpoint, and their pids are fresh.
LEMMA AuthorityBirth ==
  ASSUME AuthorityInv, NEW born \in SUBSET FreeSlots,
         \A k \in born : /\ slots'[k] # NoProc
                         /\ slots'[k].pid \in FreshPids
                         /\ endpoints'[k] = NewEndpointState,
         \A j, k \in born : slots'[j].pid = slots'[k].pid => j = k,
         \A k \in Slots \ born :
           /\ (slots'[k] = NoProc) <=> (slots[k] = NoProc)
           /\ slots[k] # NoProc => /\ slots'[k].completed = slots[k].completed
                                   /\ slots'[k].pid = slots[k].pid
                                   /\ slots'[k].key = slots[k].key
           /\ endpoints'[k] = endpoints[k]
  PROVE  DistinctPids' /\ SendAuthority'
<1> USE DEF AuthorityInv
<1>1. \A k \in born : slots[k] = NoProc /\ endpoints'[k].published = 0
  BY DEF FreeSlots, Occupied, NewEndpointState
<1>2. DistinctPids'
  <2>1. \A j \in born, k \in Slots \ born : slots[k] # NoProc =>
            slots'[j].pid # slots'[k].pid
    BY DEF FreshPids, Occupied
  <2> QED BY <2>1 DEF DistinctPids
<1>3. SendAuthority'
  <2> SUFFICES ASSUME NEW i \in Slots, NEW s \in CapSlots,
                      IsSend(endpoints'[i].handles[s]), NEW t \in Slots
               PROVE  Kept(i, s, t)
    BY AuthorityKept
  <2> DEFINE cap == endpoints[i].handles[s]
  <2>1. i \notin born
    BY DEF IsSend, NewEndpointState
  <2>2. endpoints'[i].handles[s] = cap /\ IsSend(cap)
    BY <2>1
  <2>3. cap.target_generation # 0
    BY <2>2, SendCapNames, EndpointConstants DEF SendCap, Generations
  <2>4. CASE t \in born
    BY <1>1, <2>2, <2>3, <2>4 DEF Kept, PublishesNext, Publishes, Live
  <2>5. CASE t \notin born
    BY <2>2, <2>5 DEF Kept, PublishesNext, Publishes, Live
  <2> QED BY <2>4, <2>5
<1> QED BY <1>2, <1>3

\* Steps that only change what processes wait for keep both.
LEMMA AuthorityFrame ==
  ASSUME AuthorityInv,
         \A k \in Slots :
           /\ (slots'[k] = NoProc) <=> (slots[k] = NoProc)
           /\ slots[k] # NoProc => /\ slots'[k].completed = slots[k].completed
                                   /\ slots'[k].pid = slots[k].pid
                                   /\ slots'[k].key = slots[k].key
           /\ endpoints'[k].handles = endpoints[k].handles
           /\ endpoints'[k].published = endpoints[k].published
  PROVE  DistinctPids' /\ SendAuthority'
<1> USE DEF AuthorityInv
<1>1. DistinctPids'
  BY DEF DistinctPids
<1>2. SendAuthority'
  BY DEF SendAuthority, Publishes, Live
<1> QED BY <1>1, <1>2

\* A kernel launch keeps both.
LEMMA AuthoritySpawn ==
  ASSUME AuthorityInv, NEW parent \in FreeSlots,
         NEW children \in SUBSET (FreeSlots \ {parent}),
         NEW pidOf \in [{parent} \cup children -> FreshPids],
         NEW shell \in BOOLEAN, NEW built \in BOOLEAN,
         Spawn(parent, children, pidOf, shell, built)
  PROVE  DistinctPids' /\ SendAuthority'
<1> USE DEF AuthorityInv
<1> DEFINE chosen == {parent} \cup children
<1>1. CASE built /\ KeysTaken(chosen) = chosen
  <2>1. chosen \in SUBSET FreeSlots /\ FreeSlots \subseteq Slots
    BY DEF FreeSlots
  <2>2. \A s \in Slots : slots'[s] =
               IF s = parent THEN NewProcess(s, pidOf[s], NoKey, shell)
               ELSE IF s \in children
               THEN NewProcess(s, pidOf[s], NewKey(parent), shell)
               ELSE slots[s]
    BY <1>1 DEF Spawn
  <2>3. \A s \in Slots : endpoints'[s] = IF s \in chosen THEN NewEndpointState
                                         ELSE endpoints[s]
    BY <1>1 DEF Spawn
  <2>4. \A s \in chosen : slots'[s].pid = pidOf[s] /\ slots'[s] \in Process
    <3>1. \A s \in chosen : s \in Slots /\ incarnations[s] < IncarnationMax
                            /\ pidOf[s] \in Pids
      BY <1>1, <2>1, KeysTakenAreLeft DEF FreshPids
    <3>2. NewKey(parent) \in Key
      BY <3>1, NewProcessType, parent \in chosen
    <3>3. \A s \in chosen, par \in Key \cup {NoKey} :
             NewProcess(s, pidOf[s], par, shell) \in Process
      BY <3>1, NewProcessType, Zenon
    <3>4. \A s, par : NewProcess(s, pidOf[s], par, shell).pid = pidOf[s]
      BY DEF NewProcess
    <3>5. \A s \in chosen : \E par \in Key \cup {NoKey} :
             slots'[s] = NewProcess(s, pidOf[s], par, shell)
      BY <2>1, <2>2, <3>2
    <3> QED BY <3>3, <3>4, <3>5, Zenon
  <2>5. \A j, k \in chosen : slots'[j].pid = slots'[k].pid => j = k
    BY <2>4 DEF Spawn
  <2> HIDE DEF chosen
  <2>6. \A k \in chosen : /\ slots'[k] # NoProc
                          /\ slots'[k].pid \in FreshPids
                          /\ endpoints'[k] = NewEndpointState
    BY <2>1, <2>3, <2>4, NoProcIsNoProcess DEF chosen
  <2>7. \A k \in Slots \ chosen : slots'[k] = slots[k] /\ endpoints'[k] = endpoints[k]
    BY <2>2, <2>3 DEF chosen
  <2> QED BY <2>1, <2>5, <2>6, <2>7, AuthorityBirth
<1>2. CASE ~(built /\ KeysTaken(chosen) = chosen)
  <2>1. slots' = slots /\ endpoints' = endpoints
    BY <1>2, Zenon DEF Spawn
  <2> QED BY <2>1 DEF SendAuthority, DistinctPids, Publishes, Live
<1> QED BY <1>1, <1>2, Zenon

\* The completion of a launch keeps both.
LEMMA AuthorityLaunchSucceeds ==
  ASSUME AuthorityInv, NEW i \in Slots, NEW c \in Slots, NEW pid \in Pids,
         NEW h \in ProcSlots, LaunchSucceeds(i, c, pid, h)
  PROVE  DistinctPids' /\ SendAuthority'
<1> USE DEF AuthorityInv
<1>1. slots[i] \in Process /\ Resumed(slots[i]) \in Process
  BY WokenType, Zenon DEF LaunchSucceeds, LaunchActive, Live, TypeOK
<1>2. /\ Resumed(slots[i]).completed = slots[i].completed
      /\ Resumed(slots[i]).pid = slots[i].pid
      /\ Resumed(slots[i]).key = slots[i].key
  BY <1>1 DEF Resumed, Woken, Process
<1>3. {c} \in SUBSET FreeSlots /\ c # i
  BY <1>1, NoProcIsNoProcess DEF LaunchSucceeds, AreLowest, FreeSlots, Occupied
<1>4. CASE slots' = [slots EXCEPT ![i] = Resumed(slots[i]),
                                  ![c] = NewProcess(c, pid, slots[i].key, FALSE)]
           /\ endpoints' = [endpoints EXCEPT ![c] = NewEndpointState]
  <2>1. NewProcess(c, pid, slots[i].key, FALSE) \in Process
    BY <1>1, NewProcessType, Zenon DEF LaunchSucceeds, Process
  <2>2. slots'[c] # NoProc /\ slots'[c].pid = pid /\ pid \in FreshPids
    <3>1. slots'[c] = NewProcess(c, pid, slots[i].key, FALSE)
      BY <1>4 DEF TypeOK
    <3>2. NewProcess(c, pid, slots[i].key, FALSE).pid = pid
      BY DEF NewProcess
    <3> QED BY <2>1, <3>1, <3>2, NoProcIsNoProcess, Zenon DEF LaunchSucceeds
  <2>3. endpoints'[c] = NewEndpointState
    BY <1>4 DEF TypeOK
  <2>4. \A k \in Slots \ {c} : /\ slots'[k] = IF k = i THEN Resumed(slots[i]) ELSE slots[k]
                               /\ endpoints'[k] = endpoints[k]
    BY <1>3, <1>4 DEF TypeOK
  <2>5. \A k \in Slots \ {c} :
           /\ (slots'[k] = NoProc) <=> (slots[k] = NoProc)
           /\ slots[k] # NoProc => /\ slots'[k].completed = slots[k].completed
                                   /\ slots'[k].pid = slots[k].pid
                                   /\ slots'[k].key = slots[k].key
           /\ endpoints'[k] = endpoints[k]
    BY <1>1, <1>2, <2>4, NoProcIsNoProcess
  <2> QED BY <1>3, <2>2, <2>3, <2>5, AuthorityBirth, Zenon
<1>5. CASE slots' = [slots EXCEPT ![i] = Resumed(slots[i])] /\ endpoints' = endpoints
  <2>1. \A k \in Slots :
           /\ (slots'[k] = NoProc) <=> (slots[k] = NoProc)
           /\ slots[k] # NoProc => /\ slots'[k].completed = slots[k].completed
                                   /\ slots'[k].pid = slots[k].pid
                                   /\ slots'[k].key = slots[k].key
           /\ endpoints'[k] = endpoints[k]
    BY <1>1, <1>2, <1>5, NoProcIsNoProcess DEF TypeOK
  <2> QED BY <2>1, AuthorityFrame
<1> QED BY <1>4, <1>5, Zenon DEF LaunchSucceeds

\* Creating an endpoint keeps both: no capability can name the new generation
\* yet, because the pid is nobody else's and nothing was published under it.
LEMMA AuthorityCreate ==
  ASSUME AuthorityInv, NEW i \in Slots, NEW s \in CapSlots, CreateEndpoint(i, s)
  PROVE  DistinctPids' /\ SendAuthority'
<1> USE DEF AuthorityInv
<1> DEFINE e == endpoints[i]
           receive == [role |-> "Receive", gen |-> e.next_generation]
<1>1. e \in EndpointState /\ e.published = 0 /\ slots' = slots /\ Live(i)
  BY DEF CreateEndpoint, Runs, TypeOK
<1>2. CASE endpoints' = [endpoints EXCEPT ![i] = TakeGeneration(e)]
  <2>1. TakeGeneration(e).handles = e.handles /\ TakeGeneration(e).published = e.published
    BY <1>1 DEF TakeGeneration, EndpointState
  <2> QED BY <1>1, <1>2, <2>1, AuthorityFrame DEF TypeOK
<1>3. CASE endpoints' = [endpoints EXCEPT ![i] = WithPublished(e, s)]
  <2>1. /\ \A r \in CapSlots : WithPublished(e, s).handles[r]
                                 = IF r = s THEN receive ELSE e.handles[r]
        /\ WithPublished(e, s).published = e.next_generation
    BY <1>1 DEF WithPublished, WithCapability, TakeGeneration, EndpointState
  <2>2. DistinctPids'
    BY <1>1 DEF DistinctPids
  <2> SUFFICES ASSUME NEW j \in Slots, NEW r \in CapSlots,
                      IsSend(endpoints'[j].handles[r]), NEW t \in Slots
               PROVE  Kept(j, r, t)
    BY <2>2, AuthorityKept
  <2> DEFINE cap == endpoints[j].handles[r]
  <2>3. \A k \in Slots : endpoints'[k] = IF k = i THEN WithPublished(e, s) ELSE endpoints[k]
    BY <1>3 DEF TypeOK
  <2>4. endpoints'[j].handles[r] = cap /\ IsSend(cap)
    <3>1. ~IsSend(receive)
      BY DEF IsSend
    <3> HIDE DEF receive
    <3>2. CASE j = i /\ r = s
      BY <2>1, <2>3, <3>1, <3>2
    <3>3. CASE j = i /\ r # s
      BY <2>1, <2>3, <3>3
    <3>4. CASE j # i
      BY <2>3, <3>4
    <3> QED BY <3>2, <3>3, <3>4
  <2>5. cap.target_generation # 0
    BY <2>4, SendCapNames, EndpointConstants DEF SendCap, Generations
  <2>6. PICK u \in Slots : Publishes(u, cap.target_pid, cap.target_generation)
    BY <2>4, AuthorityIsBacking DEF Backed
  <2>7. cap.target_pid # slots[i].pid
    <3>1. endpoints[u].published # 0
      BY <2>5, <2>6 DEF Publishes
    <3>2. u # i
      BY <1>1, <3>1
    <3> QED BY <1>1, <2>6, <3>2 DEF Publishes, Live, DistinctPids
  <2>8. CASE t = i
    BY <1>1, <2>4, <2>7, <2>8 DEF Kept, PublishesNext, Publishes
  <2>9. CASE t # i
    BY <1>1, <2>3, <2>4, <2>9 DEF Kept, PublishesNext, Publishes, Live
  <2> QED BY <2>8, <2>9
<1> QED BY <1>2, <1>3 DEF CreateEndpoint

\* Connecting keeps both: the new capability names what its target publishes.
LEMMA AuthorityConnect ==
  ASSUME AuthorityInv, NEW i \in Slots, NEW s \in CapSlots, NEW t \in Slots,
         ConnectEndpoint(i, s, t)
  PROVE  DistinctPids' /\ SendAuthority'
<1> USE DEF AuthorityInv
<1> DEFINE e == endpoints[i]
           cap == [role |-> "Send", gen |-> endpoints[i].next_generation,
                   target_pid |-> slots[t].pid,
                   target_generation |-> endpoints[t].published,
                   target |-> slots[t].key]
<1>1. e \in EndpointState /\ slots' = slots /\ Live(t)
  BY DEF ConnectEndpoint, TypeOK
<1>2. CASE endpoints' = [endpoints EXCEPT ![i] = TakeGeneration(e)]
  <2>1. TakeGeneration(e).handles = e.handles /\ TakeGeneration(e).published = e.published
    BY <1>1 DEF TakeGeneration, EndpointState
  <2> QED BY <1>1, <1>2, <2>1, AuthorityFrame DEF TypeOK
<1>3. CASE endpoints' = [endpoints EXCEPT ![i] = WithCapability(e, s, cap)]
  <2>0. /\ cap.target_pid = slots[t].pid
        /\ cap.target_generation = endpoints[t].published
        /\ cap.target = slots[t].key
    OBVIOUS
  <2> HIDE DEF cap
  <2>1. /\ \A r \in CapSlots : WithCapability(e, s, cap).handles[r]
                                 = IF r = s THEN cap ELSE e.handles[r]
        /\ WithCapability(e, s, cap).published = e.published
    BY <1>1 DEF WithCapability, TakeGeneration, EndpointState
  <2>2. DistinctPids'
    BY <1>1 DEF DistinctPids
  <2>3. \A k \in Slots : endpoints'[k] = IF k = i THEN WithCapability(e, s, cap)
                                         ELSE endpoints[k]
    BY <1>3 DEF TypeOK
  <2>4. \A k \in Slots : endpoints'[k].published = endpoints[k].published
    BY <2>1, <2>3
  <2>5. Backed(cap)
    BY <1>1, <2>0 DEF Backed, Publishes, Live, DistinctPids
  <2>6. \A k \in Slots, r \in CapSlots : IsSend(endpoints'[k].handles[r]) =>
            Backed(endpoints'[k].handles[r])
    BY <2>1, <2>3, <2>5, AuthorityIsBacking
  <2>7. SendAuthority'
    BY <1>1, <2>4, <2>6, AuthorityNextState, SMTT(20) DEF Backed, PublishesNext, Publishes, Live
  <2> QED BY <2>2, <2>7
<1> QED BY <1>2, <1>3 DEF ConnectEndpoint

\* Closing keeps both: the receive side is swept before its generation can be
\* named again, the send side only forgets a capability.
LEMMA AuthorityClose ==
  ASSUME AuthorityInv, NEW i \in Slots, NEW h \in Handle, CloseEndpoint(i, h)
  PROVE  DistinctPids' /\ SendAuthority'
<1> USE DEF AuthorityInv
<1> DEFINE closed == [endpoints EXCEPT ![i] = Closed(endpoints[i], h)]
           revoked == {<<slots[i].pid, h.gen>>}
<1>1. /\ slots' = slots /\ Live(i) /\ endpoints[i] \in EndpointState
      /\ h.slot \in CapSlots
  BY Zenon DEF CloseEndpoint, Runs, TypeOK, Handle
<1>2. DistinctPids'
  BY <1>1 DEF DistinctPids
<1>3. closed \in [Slots -> EndpointState]
  BY ClosedType DEF TypeOK
<1>4. \A k \in Slots : closed[k] = IF k = i THEN Closed(endpoints[i], h) ELSE endpoints[k]
  BY DEF TypeOK
<1>5. \A r \in CapSlots : Closed(endpoints[i], h).handles[r]
                            = IF r = h.slot THEN NoCap ELSE endpoints[i].handles[r]
  BY <1>1 DEF Closed, EndpointState
<1>6. \A k \in Slots, r \in CapSlots : IsSend(closed[k].handles[r]) =>
          closed[k].handles[r] = endpoints[k].handles[r]
  BY <1>4, <1>5 DEF IsSend
<1>7. CASE endpoints[i].handles[h.slot].role # "Receive"
  <2>1. endpoints' = closed
    BY <1>7, Zenon DEF CloseEndpoint
  <2>2. Closed(endpoints[i], h).published = endpoints[i].published
    BY <1>1, <1>7 DEF Closed, EndpointState
  <2>3. \A k \in Slots : endpoints'[k].published = endpoints[k].published
    BY <1>4, <2>1, <2>2
  <2> HIDE DEF closed
  <2>4. SendAuthority'
    BY <1>1, <1>6, <2>1, <2>3, AuthorityKept, SMTT(20) DEF Kept, PublishesNext, Publishes, Live
  <2> QED BY <1>2, <2>4
<1>8. CASE endpoints[i].handles[h.slot].role = "Receive"
  <2>1. /\ endpoints[i].published = h.gen
        /\ endpoints' = [k \in Slots |-> Revoked(closed[k], revoked)]
    BY <1>8, Zenon DEF CloseEndpoint
  <2>2. Closed(endpoints[i], h).published = 0
    BY <1>1, <1>8 DEF Closed, EndpointState
  <2> HIDE DEF closed
  <2>3. \A k \in Slots : endpoints'[k].published = closed[k].published
    BY <1>3, <2>1, RevokedValue
  <2> SUFFICES ASSUME NEW j \in Slots, NEW r \in CapSlots,
                      IsSend(endpoints'[j].handles[r]), NEW t \in Slots
               PROVE  Kept(j, r, t)
    BY <1>2, AuthorityKept
  <2> DEFINE cap == endpoints[j].handles[r]
  <2>4. endpoints'[j].handles[r] = closed[j].handles[r] /\ ~Names(closed[j].handles[r], revoked)
    <3>1. closed[j] \in EndpointState /\ endpoints'[j] = Revoked(closed[j], revoked)
      BY <1>3, <2>1
    <3>2. endpoints'[j].handles[r] = IF Names(closed[j].handles[r], revoked)
                                     THEN NoCap ELSE closed[j].handles[r]
      BY <3>1, RevokedValue, SMTT(20)
    <3> QED BY <3>2 DEF IsSend
  <2>5. endpoints'[j].handles[r] = cap /\ IsSend(cap) /\ ~Names(cap, revoked)
    BY <1>6, <2>4
  <2>6. cap \in SendCap /\ cap.target_generation # 0
    BY <2>5, SendCapNames, EndpointConstants, SMTT(20) DEF SendCap, Generations
  <2>7. CASE t = i
    <3>1. ~Publishes(i, cap.target_pid, cap.target_generation)
      BY <2>1, <2>5, Zenon DEF Publishes, Names, IsSend
    <3>2. endpoints'[i].published = 0
      BY <1>4, <2>2, <2>3
    <3> QED BY <2>5, <2>6, <2>7, <3>1, <3>2, Zenon DEF Kept, PublishesNext
  <2>8. CASE t # i
    BY <1>1, <1>4, <2>3, <2>5, <2>8, Zenon DEF Kept, PublishesNext, Publishes, Live
  <2> QED BY <2>7, <2>8
<1> QED BY <1>7, <1>8

\* Sending moves a message or wakes the receiver; it touches no capability.
LEMMA AuthoritySend ==
  ASSUME AuthorityInv, NEW i \in Slots, NEW h \in Handle, NEW t \in Slots,
         SendEndpoint(i, h, t)
  PROVE  DistinctPids' /\ SendAuthority'
<1> USE DEF AuthorityInv
<1> DEFINE msg == [sender_pid |-> slots[i].pid, sender |-> slots[i].key]
<1>1. slots[t] \in Process /\ endpoints[t] \in EndpointState /\ Woken(slots[t]) \in Process
  BY WokenType DEF SendEndpoint, Publishes, Live, TypeOK
<1>2. /\ Woken(slots[t]).completed = slots[t].completed
      /\ Woken(slots[t]).pid = slots[t].pid
      /\ Woken(slots[t]).key = slots[t].key
  BY <1>1 DEF Woken, Process
<1>3. \/ slots' = slots
      \/ slots' = [slots EXCEPT ![t] = Woken(slots[t])]
  BY DEF SendEndpoint
<1>4. \/ endpoints' = [endpoints EXCEPT ![t] = Enqueued(endpoints[t], msg)]
      \/ endpoints' = [endpoints EXCEPT ![t] = [endpoints[t] EXCEPT !.pending = NoHandle]]
  BY DEF SendEndpoint, TypeOK
<1>5. /\ Enqueued(endpoints[t], msg).handles = endpoints[t].handles
      /\ Enqueued(endpoints[t], msg).published = endpoints[t].published
      /\ [endpoints[t] EXCEPT !.pending = NoHandle].handles = endpoints[t].handles
      /\ [endpoints[t] EXCEPT !.pending = NoHandle].published = endpoints[t].published
  BY <1>1 DEF Enqueued, EndpointState
<1> HIDE DEF msg
<1>6. \A k \in Slots : /\ endpoints'[k].handles = endpoints[k].handles
                       /\ endpoints'[k].published = endpoints[k].published
  BY <1>4, <1>5, Zenon DEF TypeOK
<1> QED BY <1>1, <1>2, <1>3, <1>6, AuthorityFrame, NoProcIsNoProcess DEF TypeOK

\* Receiving takes a message or parks; it touches no capability.
LEMMA AuthorityReceive ==
  ASSUME AuthorityInv, NEW i \in Slots, NEW h \in Handle, ReceiveEndpoint(i, h)
  PROVE  DistinctPids' /\ SendAuthority'
<1> USE DEF AuthorityInv
<1> DEFINE p == [slots[i] EXCEPT !.state = "Waiting", !.blocked_on = "Endpoint"]
<1>1. slots[i] \in Process /\ endpoints[i] \in EndpointState
  BY DEF ReceiveEndpoint, Runs, Live, TypeOK
<1>2. /\ p \in Process
      /\ p.completed = slots[i].completed /\ p.pid = slots[i].pid /\ p.key = slots[i].key
  BY <1>1, Zenon DEF Process, LiveStates
<1>3. slots' = slots \/ slots' = [slots EXCEPT ![i] = p]
  BY Zenon DEF ReceiveEndpoint, TypeOK
<1>4. \A k \in Slots : /\ endpoints'[k].handles = endpoints[k].handles
                       /\ endpoints'[k].published = endpoints[k].published
  <2> DEFINE e == endpoints[i]
             popped == [e EXCEPT !.queue = Tail(e.queue), !.pending = NoHandle]
             parked == [e EXCEPT !.pending = h]
  <2>1. /\ popped.handles = e.handles /\ popped.published = e.published
        /\ parked.handles = e.handles /\ parked.published = e.published
    BY <1>1 DEF EndpointState
  <2>2. \/ endpoints' = [endpoints EXCEPT ![i] = popped]
        \/ endpoints' = [endpoints EXCEPT ![i] = parked]
    BY Zenon DEF ReceiveEndpoint, TypeOK
  <2> HIDE DEF popped, parked
  <2> QED BY <2>1, <2>2 DEF TypeOK
<1> HIDE DEF p
<1> QED BY <1>1, <1>2, <1>3, <1>4, AuthorityFrame, NoProcIsNoProcess, Zenon DEF TypeOK

\* Blocking on a child, and the launch steps without a child, keep both.
LEMMA AuthorityWaiting ==
  ASSUME AuthorityInv, NEW i \in Slots, NEW c \in Slots,
         WaitChild(i, c) \/ RequestLaunch(i) \/ LaunchFails(i, c)
  PROVE  DistinctPids' /\ SendAuthority'
<1> USE DEF AuthorityInv
<1>1. slots[i] \in Process /\ endpoints' = endpoints
  BY DEF WaitChild, RequestLaunch, LaunchFails, Runs, LaunchActive, Live, TypeOK
<1>2. \E p \in Process : /\ p.completed = slots[i].completed
                         /\ p.pid = slots[i].pid /\ p.key = slots[i].key
                         /\ slots' = [slots EXCEPT ![i] = p]
  <2>1. CASE WaitChild(i, c)
    <3>1. slots[c] \in Process
      BY <2>1 DEF WaitChild, Live, TypeOK
    <3> DEFINE p == [slots[i] EXCEPT !.state = "Waiting", !.blocked_on = "Child",
                                     !.child = slots[c].key]
    <3>2. /\ p \in Process /\ p.completed = slots[i].completed
          /\ p.pid = slots[i].pid /\ p.key = slots[i].key
      BY <1>1, <3>1, Zenon DEF Process, LiveStates
    <3>3. slots' = [slots EXCEPT ![i] = p]
      BY <2>1, Zenon DEF WaitChild, TypeOK
    <3> QED BY <3>2, <3>3, Zenon
  <2>2. CASE RequestLaunch(i)
    <3> DEFINE n == slots[i].next_request
               p == [slots[i] EXCEPT !.state = "Waiting", !.blocked_on = "ProcessLaunch",
                                     !.pending_launch = n, !.next_request = n + 1]
    <3>1. n \in 0..RequestMax /\ n + 1 \in 1..(RequestMax + 1)
      BY <1>1, <2>2, ManagerConstants DEF Process, RequestLaunch
    <3>2. /\ p \in Process /\ p.completed = slots[i].completed
          /\ p.pid = slots[i].pid /\ p.key = slots[i].key
      BY <1>1, <3>1, Zenon DEF Process, LiveStates
    <3>3. slots' = [slots EXCEPT ![i] = p]
      BY <2>2, Zenon DEF RequestLaunch, TypeOK
    <3> QED BY <3>2, <3>3, Zenon
  <2>3. CASE LaunchFails(i, c)
    <3>1. Resumed(slots[i]) \in Process
      BY <1>1, WokenType
    <3>2. /\ Resumed(slots[i]).completed = slots[i].completed
          /\ Resumed(slots[i]).pid = slots[i].pid
          /\ Resumed(slots[i]).key = slots[i].key
      BY <1>1 DEF Resumed, Woken, Process
    <3>3. slots' = [slots EXCEPT ![i] = Resumed(slots[i])]
      BY <2>3 DEF LaunchFails
    <3> QED BY <3>1, <3>2, <3>3, Zenon
  <2> QED BY <2>1, <2>2, <2>3
<1> QED BY <1>1, <1>2, AuthorityFrame, NoProcIsNoProcess DEF TypeOK

\* The invariant holds initially.
LEMMA AuthorityInit == Init => AuthorityInv
<1> SUFFICES ASSUME Init PROVE AuthorityInv
  OBVIOUS
<1>1. DistinctPids
  BY DEF Init, DistinctPids
<1>2. \A i \in Slots, s \in CapSlots : endpoints[i].handles[s] = NoCap
  BY DEF Init, NewEndpointState
<1>3. SendAuthority
  BY <1>2 DEF SendAuthority
<1> QED BY <1>1, <1>3, TypeInit DEF AuthorityInv

\* Every step keeps the invariant.
LEMMA AuthorityNext == AuthorityInv /\ [Next]_vars => AuthorityInv'
<1> SUFFICES ASSUME AuthorityInv, [Next]_vars PROVE DistinctPids' /\ SendAuthority'
  BY TypeNext DEF AuthorityInv
<1>1. CASE SpawnShell
  <2>1. PICK s \in FreeSlots : \E pidOf \in [{s} -> FreshPids], built \in BOOLEAN :
           Spawn(s, {}, pidOf, TRUE, built)
    BY <1>1, Zenon DEF SpawnShell
  <2>2. PICK pidOf \in [{s} -> FreshPids], built \in BOOLEAN :
           Spawn(s, {}, pidOf, TRUE, built)
    BY <2>1, Zenon
  <2>3. pidOf \in [{s} \cup {} -> FreshPids] /\ {} \in SUBSET (FreeSlots \ {s})
    BY <2>2, {s} \cup {} = {s}
  <2> QED BY <2>2, <2>3, AuthoritySpawn, Zenon
<1>2. CASE SpawnFamily
  BY <1>2, AuthoritySpawn, Zenon DEF SpawnFamily
<1>3. CASE DropStaleLaunch \/ UNCHANGED vars
  <2>1. slots' = slots /\ endpoints' = endpoints
    BY <1>3 DEF DropStaleLaunch, vars
  <2> QED BY <2>1, AuthorityFrame
<1>4. ASSUME NEW i \in Slots, Kill(i) PROVE DistinctPids' /\ SendAuthority'
  BY <1>4, AuthorityTerminate DEF Kill, Live, TerminalStates
<1>5. ASSUME NEW i \in Slots, NEW final \in {"Exited", "Faulted"}, Exit(i, final)
      PROVE DistinctPids' /\ SendAuthority'
  BY <1>5, AuthorityTerminate DEF Exit, Runs, Live, TerminalStates
<1>6. ASSUME NEW i \in Slots, NEW h \in ProcSlots, NEW t \in Slots,
             ControlledKill(i, h, t)
      PROVE DistinctPids' /\ SendAuthority'
  BY <1>6, AuthorityTerminate DEF ControlledKill, Live, TerminalStates
<1>7. ASSUME NEW i \in Slots, Wait(i) PROVE DistinctPids' /\ SendAuthority'
  BY <1>7, AuthorityFreeSlot DEF Wait
<1>8. ASSUME NEW i \in Slots, NEW h \in ProcSlots, NEW t \in Slots,
             ControlledReap(i, h, t)
      PROVE DistinctPids' /\ SendAuthority'
  BY <1>8, AuthorityFreeSlot DEF ControlledReap
<1>9. CASE Lifecycle
  BY <1>9, <1>1, <1>2, <1>3, <1>4, <1>5, <1>6, <1>7, <1>8, AuthorityWaiting,
     AuthorityLaunchSucceeds DEF Lifecycle
<1>10. CASE Messaging
  BY <1>10, AuthorityCreate, AuthorityConnect, AuthoritySend, AuthorityReceive,
     AuthorityClose DEF Messaging
<1> QED BY <1>3, <1>9, <1>10 DEF Next

\* "No handle outlives the endpoint it targets": in every reachable state, for
\* any number of processes, pids and generations, a send handle names an
\* endpoint published now, by the very process it connected to.
THEOREM SendAuthorityHolds == Spec => []SendAuthority
<1>1. AuthorityInv => SendAuthority
  BY DEF AuthorityInv
<1> QED BY <1>1, AuthorityInit, AuthorityNext, PTL DEF Spec
=============================================================================
