--------------------------- MODULE ProcessManager ---------------------------
(***************************************************************************)
(* The process lifecycle and the endpoint messaging of ProcessManager      *)
(* (kernel/src/userspace.rs): process slots with incarnation keys,         *)
(* recycled pids, parent/child waits, the shell's supervised launches with *)
(* their process handles, and the endpoint system calls.                   *)
(*                                                                         *)
(* ProcessManager::poll runs one slice of one Ready process and completes  *)
(* the system call that ended it before it returns, so every action is one *)
(* poll (or one kernel-side call: spawn, kill, wait, the coordinator's     *)
(* launch completion).  Which Ready process the round-robin cursor picks   *)
(* is left open here.  A call that the code rejects only writes an error   *)
(* to the caller's rax; it is a stuttering step.                           *)
(***************************************************************************)
EXTENDS Endpoint

CONSTANTS
  ProcHandleCapacity,  \* PROCESS_HANDLE_CAPACITY
  ProcHandleGenMax,    \* PROCESS_HANDLE_GENERATION_MAX
  RequestMax,          \* the last request id RequestSequence hands out
  NoProc, NoKey, NoRequest

VARIABLES
  slots,                 \* ProcessManager.slots, the ManagedProcess fields
  incarnations,          \* ProcessManager.slot_incarnations
  endpoints,             \* ManagedProcess.endpoints
  handles,               \* ManagedProcess.handles, the unified registry
  process_handles,       \* ManagedProcess.process_handles
  next_process_handle,   \* NEXT_PROCESS_HANDLE_GENERATION
  pending_lifecycle      \* RuntimeCoordinator.pending_lifecycle_request

vars == <<slots, incarnations, endpoints, handles, process_handles,
          next_process_handle, pending_lifecycle>>

ASSUME ManagerConstants ==
  /\ ProcHandleCapacity \in Nat \ {0}
  /\ ProcHandleGenMax \in Nat \ {0}
  /\ RequestMax \in Nat

ProcSlots == 1..ProcHandleCapacity

ASSUME NoKeyIsNoKey == NoKey \notin Key

\* A ProcessCapability: the exact process it controls and its generation.
ProcessCap == [target : Key, gen : 1..ProcHandleGenMax]

ASSUME NoCapIsNoProcessCap == NoCap \notin ProcessCap

LiveStates == {"Ready", "Waiting"}
TerminalStates == {"Exited", "Faulted", "Killed"}

Process ==
  [key : Key, pid : Pids, parent_key : Key \cup {NoKey}, supervisor : BOOLEAN,
   state : LiveStates \cup TerminalStates,
   blocked_on : {"None", "Endpoint", "Child", "ProcessLaunch"},
   child : Key \cup {NoKey},      \* the key inside BlockReason::Child
   completed : BOOLEAN,
   next_request : 1..(RequestMax + 1),
   pending_launch : 0..RequestMax]   \* 0 for None

ASSUME NoProcIsNoProcess == NoProc \notin Process

LaunchRequest == [owner : Key, pid : Pids, request_id : 1..RequestMax]

ASSUME NoRequestIsNoRequest == NoRequest \notin LaunchRequest

Message == [sender_pid : Pids, sender : Key]

-----------------------------------------------------------------------------
Occupied == {i \in Slots : slots[i] # NoProc}

Live(i) == slots[i] # NoProc /\ ~slots[i].completed

\* poll may select slot i: a launch emitted by the previous poll is completed
\* by RuntimeCoordinator::advance before it polls again.
Runs(i) ==
  /\ Live(i)
  /\ slots[i].state = "Ready"
  /\ pending_lifecycle = NoRequest

FreeSlots == Slots \ Occupied

\* iter().position and find_map take the lowest free slots first.
AreLowest(chosen, free) ==
  /\ chosen \subseteq free
  /\ \A c \in chosen, f \in free \ chosen : c < f

FreshPids == Pids \ {slots[i].pid : i \in Occupied}

\* Mutant of NewKey: an incarnation that is not advanced.
NewKeyReused(i) == [slot |-> i, incarnation |-> 1]

NewKey(i) == [slot |-> i, incarnation |-> incarnations[i] + 1]

NewProcess(i, pid, parent, supervisor) ==
  [key |-> NewKey(i), pid |-> pid,
   parent_key |-> parent, supervisor |-> supervisor, state |-> "Ready",
   blocked_on |-> "None", child |-> NoKey, completed |-> FALSE,
   next_request |-> 1, pending_launch |-> 0]

ShellEntries ==
  {[kind |-> "Console", gen |-> 0, slot |-> 0],
   [kind |-> "Lifecycle", gen |-> 0, slot |-> 0]}

NoProcessHandles == [s \in ProcSlots |-> NoCap]

Woken(p) == [p EXCEPT !.state = "Ready", !.blocked_on = "None", !.child = NoKey]

-----------------------------------------------------------------------------
(* Launching from the kernel: spawn_shell, spawn_single, the coordination  *)
(* pair and the endpoint fan-in.                                           *)

\* allocate_key for the chosen slots in order, up to the first exhausted one.
KeysTaken(chosen) ==
  {s \in chosen : \A t \in chosen : t <= s => incarnations[t] < IncarnationMax}

TakeKeys(chosen) ==
  incarnations' = [s \in Slots |-> IF s \in KeysTaken(chosen)
                                   THEN incarnations[s] + 1 ELSE incarnations[s]]

\* One process per chosen slot; the lowest slot is the parent of the others.
\* A failed build reclaims what it built and leaves only the keys consumed.
Spawn(parent, children, pidOf, shell, built) ==
  LET chosen == {parent} \cup children IN
  /\ AreLowest(chosen, FreeSlots)
  /\ \A c \in children : parent < c
  /\ \A s, t \in chosen : s # t => pidOf[s] # pidOf[t]
  /\ TakeKeys(chosen)
  /\ IF built /\ KeysTaken(chosen) = chosen
     THEN /\ slots' = [s \in Slots |->
               IF s = parent THEN NewProcess(s, pidOf[s], NoKey, shell)
               ELSE IF s \in children
               THEN NewProcess(s, pidOf[s], NewKey(parent), shell)
               ELSE slots[s]]
          /\ endpoints' = [s \in Slots |-> IF s \in chosen THEN NewEndpointState
                                           ELSE endpoints[s]]
          /\ handles' = [s \in Slots |-> IF s \in chosen
                                         THEN IF shell THEN ShellEntries ELSE {}
                                         ELSE handles[s]]
          /\ process_handles' = [s \in Slots |-> IF s \in chosen THEN NoProcessHandles
                                                 ELSE process_handles[s]]
     ELSE UNCHANGED <<slots, endpoints, handles, process_handles>>
  /\ UNCHANGED <<next_process_handle, pending_lifecycle>>

SpawnShell ==
  \E s \in FreeSlots : \E pidOf \in [{s} -> FreshPids], built \in BOOLEAN :
    Spawn(s, {}, pidOf, TRUE, built)

SpawnFamily ==
  \E parent \in FreeSlots : \E children \in SUBSET (FreeSlots \ {parent}) :
    \E pidOf \in [{parent} \cup children -> FreshPids], built \in BOOLEAN :
      /\ Cardinality(children) <= 2
      /\ Spawn(parent, children, pidOf, FALSE, built)

-----------------------------------------------------------------------------
(* Termination and reaping.                                                *)

\* Mutant of Targets: the sweep is skipped for a process that still waits.
TargetsOfReady(dying) ==
  {<<slots[i].pid, endpoints[i].published>> :
      i \in {d \in dying : endpoints[d].published # 0 /\ slots[d].state = "Ready"}}

\* What a set of dying slots publishes.
Targets(dying) ==
  {<<slots[i].pid, endpoints[i].published>> :
      i \in {d \in dying : endpoints[d].published # 0}}

\* Mutant of Supervised: children that have ended are left behind.
SupervisedLive(i) ==
  IF slots[i].supervisor
  THEN {c \in Occupied : Live(c) /\ slots[c].parent_key = slots[i].key}
  ELSE {}

\* cleanup_supervised_children: only a supervisor takes its children along.
Supervised(i) ==
  IF slots[i].supervisor
  THEN {c \in Occupied : slots[c].parent_key = slots[i].key}
  ELSE {}

WaitsFor(p, key) ==
  p # NoProc /\ p.state = "Waiting" /\ p.blocked_on = "Child" /\ p.child = key

\* terminate_process_at: release endpoints, revoke every resource, remove
\* supervised children, wake the parent that waits for this process.
Terminate(i, final) ==
  LET gone == Supervised(i)
      revoked == Targets({i} \cup gone)
  IN
  /\ slots' = [k \in Slots |->
       IF k = i THEN [slots[i] EXCEPT !.completed = TRUE, !.state = final,
                                      !.pending_launch = 0]
       ELSE IF k \in gone THEN NoProc
       ELSE IF WaitsFor(slots[k], slots[i].key) THEN Woken(slots[k])
       ELSE slots[k]]
  /\ endpoints' = [k \in Slots |->
       IF k = i THEN Cleared(endpoints[k])
       ELSE IF k \in gone THEN NewEndpointState
       ELSE Revoked(endpoints[k], revoked)]
  /\ handles' = [k \in Slots |->
       IF k \in {i} \cup gone THEN {}
       ELSE RevokedEntries(endpoints[k], handles[k], revoked)]
  /\ process_handles' = [k \in Slots |->
       IF k \in {i} \cup gone THEN NoProcessHandles ELSE process_handles[k]]
  /\ UNCHANGED <<incarnations, next_process_handle, pending_lifecycle>>

\* A process ends its own slice with an exit or a Ring 3 fault.
Exit(i, final) ==
  /\ Runs(i)
  /\ Terminate(i, final)

\* ProcessManager::kill by task id, between two iterations of the coordinator.
Kill(i) ==
  /\ Live(i)
  /\ Terminate(i, "Killed")

\* Free the slot of a completed process: release_endpoints, then slot = None.
FreeSlot(i) ==
  LET revoked == Targets({i}) IN
  /\ slots' = [slots EXCEPT ![i] = NoProc]
  /\ endpoints' = [k \in Slots |-> IF k = i THEN NewEndpointState
                                   ELSE Revoked(endpoints[k], revoked)]

\* ProcessManager::wait by task id.
Wait(i) ==
  /\ slots[i] # NoProc
  /\ slots[i].completed
  /\ FreeSlot(i)
  /\ handles' = [k \in Slots |-> IF k = i THEN {}
                   ELSE RevokedEntries(endpoints[k], handles[k], Targets({i}))]
  /\ process_handles' = [process_handles EXCEPT ![i] = NoProcessHandles]
  /\ UNCHANGED <<incarnations, next_process_handle, pending_lifecycle>>

\* complete_child_wait on a live child; a completed child answers at once.
WaitChild(i, c) ==
  /\ Runs(i)
  /\ Live(c)
  /\ slots[c].parent_key = slots[i].key
  /\ slots' = [slots EXCEPT ![i].state = "Waiting", ![i].blocked_on = "Child",
                            ![i].child = slots[c].key]
  /\ UNCHANGED <<incarnations, endpoints, handles, process_handles,
                 next_process_handle, pending_lifecycle>>

-----------------------------------------------------------------------------
(* The shell's lifecycle calls.                                            *)

\* block_process_launch; the request goes to the coordinator's single slot.
RequestLaunch(i) ==
  /\ Runs(i)
  /\ [kind |-> "Lifecycle", gen |-> 0, slot |-> 0] \in handles[i]
  /\ \E s \in ProcSlots : process_handles[i][s] = NoCap
  /\ slots[i].next_request <= RequestMax
  /\ slots' = [slots EXCEPT ![i].state = "Waiting",
                            ![i].blocked_on = "ProcessLaunch",
                            ![i].pending_launch = slots[i].next_request,
                            ![i].next_request = slots[i].next_request + 1]
  /\ pending_lifecycle' = [owner |-> slots[i].key, pid |-> slots[i].pid,
                           request_id |-> slots[i].next_request]
  /\ UNCHANGED <<incarnations, endpoints, handles, process_handles,
                 next_process_handle>>

\* lifecycle_request_active, for the process in slot i.
LaunchActive(i, request) ==
  /\ request # NoRequest
  /\ Live(i)
  /\ slots[i].key = request.owner
  /\ slots[i].pid = request.pid
  /\ slots[i].state = "Waiting"
  /\ slots[i].blocked_on = "ProcessLaunch"
  /\ slots[i].pending_launch = request.request_id

\* A request whose process was killed, reaped or replaced is dropped.
DropStaleLaunch ==
  /\ pending_lifecycle # NoRequest
  /\ \A i \in Slots : ~LaunchActive(i, pending_lifecycle)
  /\ pending_lifecycle' = NoRequest
  /\ UNCHANGED <<slots, incarnations, endpoints, handles, process_handles,
                 next_process_handle>>

Resumed(p) == [Woken(p) EXCEPT !.pending_launch = 0]

\* complete_process_launch without a child: no free slot, no pid or key, or a
\* failed build, which leaves the key of slot c consumed.
LaunchFails(i, c) ==
  /\ LaunchActive(i, pending_lifecycle)
  /\ \/ FreeSlots = {} /\ UNCHANGED incarnations
     \/ /\ AreLowest({c}, FreeSlots)
        /\ incarnations' = [incarnations EXCEPT ![c] =
             IF incarnations[c] < IncarnationMax THEN incarnations[c] + 1
             ELSE incarnations[c]]
  /\ slots' = [slots EXCEPT ![i] = Resumed(slots[i])]
  /\ pending_lifecycle' = NoRequest
  /\ UNCHANGED <<endpoints, handles, process_handles, next_process_handle>>

\* complete_process_launch: allocate_process_handle in slot h of the owner and
\* publish the child in slot c.  The handle is registered before the child is
\* published; a refused registration gives up the child and the generation.
LaunchSucceeds(i, c, pid, h) ==
  LET entry == [kind |-> "Process", gen |-> next_process_handle, slot |-> h]
      registered == CanRegister(handles[i], entry)
  IN
  /\ LaunchActive(i, pending_lifecycle)
  /\ AreLowest({c}, FreeSlots)
  /\ pid \in FreshPids
  /\ incarnations[c] < IncarnationMax
  /\ incarnations' = [incarnations EXCEPT ![c] = incarnations[c] + 1]
  /\ process_handles[i][h] = NoCap
  /\ \A g \in ProcSlots : g < h => process_handles[i][g] # NoCap
  /\ next_process_handle < ProcHandleGenMax
  /\ next_process_handle' = next_process_handle + 1
  /\ IF registered
     THEN /\ slots' = [slots EXCEPT ![i] = Resumed(slots[i]),
                                    ![c] = NewProcess(c, pid, slots[i].key, FALSE)]
          /\ handles' = [handles EXCEPT ![i] = handles[i] \cup {entry}, ![c] = {}]
          /\ process_handles' =
               [process_handles EXCEPT
                  ![i][h] = [target |-> NewKey(c), gen |-> next_process_handle],
                  ![c] = NoProcessHandles]
          /\ endpoints' = [endpoints EXCEPT ![c] = NewEndpointState]
     ELSE /\ slots' = [slots EXCEPT ![i] = Resumed(slots[i])]
          /\ UNCHANGED <<handles, process_handles, endpoints>>
  /\ pending_lifecycle' = NoRequest

\* process_capability: the handle resolves to the exact target in its slot.
Controls(i, h, t) ==
  /\ process_handles[i][h] # NoCap
  /\ [kind |-> "Process", gen |-> process_handles[i][h].gen, slot |-> h]
       \in handles[i]
  /\ slots[t] # NoProc
  /\ slots[t].key = process_handles[i][h].target

\* complete_controlled_kill
ControlledKill(i, h, t) ==
  /\ Runs(i)
  /\ Controls(i, h, t)
  /\ t # i
  /\ Live(t)
  /\ Terminate(t, "Killed")

\* close_process_handle: the registry entry that goes with capability h.
ProcessEntry(i, h) ==
  {[kind |-> "Process", gen |-> process_handles[i][h].gen, slot |-> h]}

\* complete_controlled_reap, once the status was copied out.
ControlledReap(i, h, t) ==
  /\ Runs(i)
  /\ Controls(i, h, t)
  /\ slots[t].completed
  /\ FreeSlot(t)
  /\ handles' = [k \in Slots |->
       IF k = t THEN {}
       ELSE RevokedEntries(endpoints[k], handles[k], Targets({t})) \
              (IF k = i THEN ProcessEntry(i, h) ELSE {})]
  /\ process_handles' = [process_handles EXCEPT ![t] = NoProcessHandles,
                                                ![i][h] = NoCap]
  /\ UNCHANGED <<incarnations, next_process_handle, pending_lifecycle>>

-----------------------------------------------------------------------------
(* The endpoint system calls.                                              *)

EndpointStep == UNCHANGED <<incarnations, process_handles, next_process_handle,
                            pending_lifecycle>>

\* EndpointState::create and ::allocate share their first half: the lowest
\* free slot, the next generation (consumed even if registration is refused).
NewHandle(i, s) == [gen |-> endpoints[i].next_generation, slot |-> s]

\* Mutant of CanAllocate: hands out one generation too many.
CanAllocatePastMax(i, s) ==
  /\ IsFirstFree(endpoints[i], s)
  /\ endpoints[i].next_generation <= GenerationMax + 1

CanAllocate(i, s) ==
  /\ IsFirstFree(endpoints[i], s)
  /\ endpoints[i].next_generation <= GenerationMax

\* complete_endpoint_create
CreateEndpoint(i, s) ==
  LET entry == EndpointEntry("EndpointReceive", NewHandle(i, s)) IN
  /\ Runs(i)
  /\ endpoints[i].published = 0
  /\ CanAllocate(i, s)
  /\ IF CanRegister(handles[i], entry)
     THEN /\ endpoints' = [endpoints EXCEPT ![i] = WithPublished(endpoints[i], s)]
          /\ handles' = [handles EXCEPT ![i] = handles[i] \cup {entry}]
     ELSE /\ endpoints' = [endpoints EXCEPT ![i] = TakeGeneration(endpoints[i])]
          /\ UNCHANGED handles
  /\ UNCHANGED slots
  /\ EndpointStep

\* complete_endpoint_connect to the live process in slot t.
ConnectEndpoint(i, s, t) ==
  LET entry == EndpointEntry("EndpointSend", NewHandle(i, s))
      cap == [role |-> "Send", gen |-> endpoints[i].next_generation,
              target_pid |-> slots[t].pid,
              target_generation |-> endpoints[t].published,
              target |-> slots[t].key]
  IN
  /\ Runs(i)
  /\ Live(t)
  /\ endpoints[t].published # 0
  /\ CanAllocate(i, s)
  /\ IF CanRegister(handles[i], entry)
     THEN /\ endpoints' = [endpoints EXCEPT ![i] = WithCapability(endpoints[i], s, cap)]
          /\ handles' = [handles EXCEPT ![i] = handles[i] \cup {entry}]
     ELSE /\ endpoints' = [endpoints EXCEPT ![i] = TakeGeneration(endpoints[i])]
          /\ UNCHANGED handles
  /\ UNCHANGED slots
  /\ EndpointStep

\* deliver_endpoint_message resolves the capability to the process that
\* publishes that generation under that pid now.
Publishes(t, pid, generation) ==
  Live(t) /\ slots[t].pid = pid /\ endpoints[t].published = generation

\* Mutant of Parked: the wake-up path is never taken.
ParkedMissed(t, generation) == FALSE

\* The target is parked on exactly this endpoint.
Parked(t, generation) ==
  /\ slots[t].state = "Waiting"
  /\ slots[t].blocked_on = "Endpoint"
  /\ endpoints[t].pending # NoHandle
  /\ endpoints[t].pending.gen = generation

\* complete_endpoint_send through deliver_endpoint_message.
SendEndpoint(i, h, t) ==
  LET cap == endpoints[i].handles[h.slot]
      msg == [sender_pid |-> slots[i].pid, sender |-> slots[i].key]
  IN
  /\ Runs(i)
  /\ ResolvesSend(endpoints[i], handles[i], h)
  /\ Publishes(t, cap.target_pid, cap.target_generation)
  /\ IF Parked(t, cap.target_generation)
     THEN /\ ResolvesReceive(endpoints[t], handles[t], endpoints[t].pending)
          /\ slots' = [slots EXCEPT ![t] = Woken(slots[t])]
          /\ endpoints' = [endpoints EXCEPT ![t].pending = NoHandle]
     ELSE /\ Admits(endpoints[t], msg)
          /\ endpoints' = [endpoints EXCEPT ![t] = Enqueued(endpoints[t], msg)]
          /\ UNCHANGED slots
  /\ UNCHANGED handles
  /\ EndpointStep

\* complete_endpoint_receive: pop the oldest message, or park.
ReceiveEndpoint(i, h) ==
  /\ Runs(i)
  /\ ResolvesReceive(endpoints[i], handles[i], h)
  /\ IF endpoints[i].queue # << >>
     THEN /\ endpoints' = [endpoints EXCEPT ![i].queue = Tail(endpoints[i].queue),
                                            ![i].pending = NoHandle]
          /\ UNCHANGED slots
     ELSE /\ endpoints' = [endpoints EXCEPT ![i].pending = h]
          /\ slots' = [slots EXCEPT ![i].state = "Waiting",
                                    ![i].blocked_on = "Endpoint"]
  /\ UNCHANGED handles
  /\ EndpointStep

\* complete_endpoint_close: closing the receive side sweeps every process.
CloseEndpoint(i, h) ==
  LET cap == endpoints[i].handles[h.slot]
      closed == [endpoints EXCEPT ![i] = Closed(endpoints[i], h)]
      left == [handles EXCEPT ![i] = handles[i] \ {EndpointEntry(Kind(cap), h)}]
      revoked == {<<slots[i].pid, h.gen>>}
  IN
  /\ Runs(i)
  /\ Resolves(endpoints[i], handles[i], h)
  /\ IF cap.role = "Receive"
     THEN /\ endpoints[i].published = h.gen
          /\ endpoints' = [k \in Slots |-> Revoked(closed[k], revoked)]
          /\ handles' = [k \in Slots |-> RevokedEntries(closed[k], left[k], revoked)]
     ELSE /\ endpoints' = closed
          /\ handles' = left
  /\ UNCHANGED slots
  /\ EndpointStep

-----------------------------------------------------------------------------
Init ==
  /\ slots = [i \in Slots |-> NoProc]
  /\ incarnations = [i \in Slots |-> 0]
  /\ endpoints = [i \in Slots |-> NewEndpointState]
  /\ handles = [i \in Slots |-> {}]
  /\ process_handles = [i \in Slots |-> NoProcessHandles]
  /\ next_process_handle = 1
  /\ pending_lifecycle = NoRequest

Lifecycle ==
  \/ SpawnShell
  \/ SpawnFamily
  \/ DropStaleLaunch
  \/ \E i \in Slots :
       \/ Kill(i)
       \/ Wait(i)
       \/ RequestLaunch(i)
       \/ \E final \in {"Exited", "Faulted"} : Exit(i, final)
       \/ \E c \in Slots :
            \/ WaitChild(i, c)
            \/ LaunchFails(i, c)
            \/ \E h \in ProcSlots :
                 \/ ControlledKill(i, h, c)
                 \/ ControlledReap(i, h, c)
                 \/ \E pid \in Pids : LaunchSucceeds(i, c, pid, h)

Messaging ==
  \E i \in Slots :
    \/ \E s \in CapSlots : CreateEndpoint(i, s)
    \/ \E s \in CapSlots, t \in Slots : ConnectEndpoint(i, s, t)
    \/ \E h \in Handle, t \in Slots : SendEndpoint(i, h, t)
    \/ \E h \in Handle : ReceiveEndpoint(i, h)
    \/ \E h \in Handle : CloseEndpoint(i, h)

Next == Lifecycle \/ Messaging

Spec == Init /\ [][Next]_vars

-----------------------------------------------------------------------------
(* Properties.                                                             *)

EndpointState ==
  [handles : [CapSlots -> SendCap \cup ReceiveCap \cup {NoCap}],
   next_generation : 1..(GenerationMax + 1), published : 0..GenerationMax,
   queue : Seq(Message), pending : Handle \cup {NoHandle}]

Entry ==
  [kind : {"EndpointSend", "EndpointReceive"}, gen : Generations, slot : CapSlots]
  \cup [kind : {"Process"}, gen : 1..ProcHandleGenMax, slot : ProcSlots]
  \cup ShellEntries

\* Every variable holds values of the type its Rust declaration gives it.
TypeOK ==
  /\ slots \in [Slots -> Process \cup {NoProc}]
  /\ incarnations \in [Slots -> 0..IncarnationMax]
  /\ endpoints \in [Slots -> EndpointState]
  /\ handles \in [Slots -> SUBSET Entry]
  /\ process_handles \in [Slots -> [ProcSlots -> ProcessCap \cup {NoCap}]]
  /\ next_process_handle \in 1..ProcHandleGenMax
  /\ pending_lifecycle \in LaunchRequest \cup {NoRequest}

\* revoke_endpoint_send_handles: "no handle outlives the endpoint it targets".
\* Every send capability held anywhere names the endpoint that a live process
\* publishes now, and no send can reach any process but the one it connected
\* to, although pids are recycled and every new process starts its endpoint
\* generations at 1 again.
SendAuthority ==
  \A i \in Slots, s \in CapSlots :
    LET cap == endpoints[i].handles[s] IN
    cap # NoCap /\ cap.role = "Send" =>
      /\ \E t \in Slots : Publishes(t, cap.target_pid, cap.target_generation)
      /\ \A t \in Slots : Publishes(t, cap.target_pid, cap.target_generation) =>
           slots[t].key = cap.target

\* receive_endpoint parks only on an empty queue and deliver_endpoint_message
\* wakes it: a live process blocked on its endpoint has a parked receive that
\* still resolves and no message is waiting behind it.
ParkedReceiver ==
  \A i \in Slots :
    Live(i) /\ slots[i].state = "Waiting" /\ slots[i].blocked_on = "Endpoint" =>
      /\ endpoints[i].pending # NoHandle
      /\ ResolvesReceive(endpoints[i], handles[i], endpoints[i].pending)
      /\ endpoints[i].queue = << >>

\* ChannelQueue admission: an endpoint holds at most one message per producer
\* pid and never more than its capacity, and only while it is published.
FairQueue ==
  \A i \in Slots :
    LET q == endpoints[i].queue IN
    /\ Len(q) <= QueueCapacity
    /\ endpoints[i].published = 0 => q = << >>
    /\ \A j, k \in 1..Len(q) : q[j].sender_pid = q[k].sender_pid => j = k

\* complete_child_wait and wake_waiting_parent: a parent blocked on a child
\* waits for a process that still exists under that exact key, is its own
\* child and has not ended, so the wake-up is still to come.
ChildWaitIsLive ==
  \A i \in Slots :
    Live(i) /\ slots[i].state = "Waiting" /\ slots[i].blocked_on = "Child" =>
      \E c \in Slots : /\ Live(c)
                       /\ slots[c].key = slots[i].child
                       /\ slots[c].parent_key = slots[i].key

\* block_process_launch and the coordinator's single slot: a process blocked on
\* a launch is the one whose request the coordinator still holds.
LaunchNotLost ==
  \A i \in Slots :
    Live(i) /\ slots[i].state = "Waiting" /\ slots[i].blocked_on = "ProcessLaunch" =>
      LaunchActive(i, pending_lifecycle)

\* Nobody waits for what can no longer come: a blocked process waits for a
\* message, a child or a launch that is still to be delivered to it.
BlockedIsWoken == ParkedReceiver /\ ChildWaitIsLive /\ LaunchNotLost

\* handle_table_is_consistent: the registry of a process holds exactly one
\* entry for every endpoint capability, process capability and shell right.
RegistryAgrees ==
  \A i \in Slots :
    handles[i] =
      {EndpointEntry(Kind(endpoints[i].handles[s]),
                     [gen |-> endpoints[i].handles[s].gen, slot |-> s]) :
         s \in {c \in CapSlots : endpoints[i].handles[c] # NoCap}}
      \cup {[kind |-> "Process", gen |-> process_handles[i][s].gen, slot |-> s] :
              s \in {c \in ProcSlots : process_handles[i][c] # NoCap}}
      \cup (IF Live(i) /\ slots[i].supervisor THEN ShellEntries ELSE {})

\* process_capability resolves the exact slot incarnation: whatever process a
\* handle controls is a child its owner launched, and no two handles control
\* the same process, however often slots and pids are reused.
HandleControlsOwnChild ==
  \A i, t \in Slots, h \in ProcSlots :
    Controls(i, h, t) =>
      /\ slots[t].parent_key = slots[i].key
      /\ \A j \in Slots, g \in ProcSlots : Controls(j, g, t) => j = i /\ g = h

\* revoke_resources: a process that has ended holds no capability, no registry
\* entry and no parked request, and publishes nothing.
TerminalHoldsNothing ==
  \A i \in Slots : slots[i] # NoProc /\ slots[i].completed =>
    /\ slots[i].state \in TerminalStates
    /\ slots[i].pending_launch = 0
    /\ \A s \in CapSlots : endpoints[i].handles[s] = NoCap
    /\ endpoints[i].published = 0
    /\ endpoints[i].pending = NoHandle
    /\ handles[i] = {}
    /\ process_handles[i] = NoProcessHandles

\* cleanup_supervised_children: a supervisor that has ended leaves no child.
NoOrphanOfSupervisor ==
  \A i, c \in Slots :
    /\ slots[i] # NoProc /\ slots[i].completed /\ slots[i].supervisor
    /\ slots[c] # NoProc
    => slots[c].parent_key # slots[i].key

\* A process that has ended holds nothing and leaves no supervised child.
EndedLeavesNothing == TerminalHoldsNothing /\ NoOrphanOfSupervisor

=============================================================================
