------------------------- MODULE ProcessInvariants --------------------------
(***************************************************************************)
(* The safety invariants of ProcessManager, for every number of slots,     *)
(* pids, handles, generations and incarnations: what a process waits for,  *)
(* controls and leaves behind, although slots and pids are reused.         *)
(***************************************************************************)
EXTENDS ProcessResources

\* allocate_key: a process carries the key of its slot, no key is ahead of the
\* slot's counter, and no process is its own parent.
KeysOwned ==
  \A i \in Slots : slots[i] # NoProc =>
    /\ slots[i].key.slot = i
    /\ slots[i].key.incarnation <= incarnations[i]
    /\ slots[i].parent_key = NoKey \/ slots[i].parent_key.slot # i

\* A process handle names a key that was handed out, and a process that still
\* has that key is a child of the owner.
HandlesPast ==
  \A i \in Slots, h \in ProcSlots : process_handles[i][h] # NoCap =>
    LET target == process_handles[i][h].target IN
    /\ target.incarnation <= incarnations[target.slot]
    /\ slots[target.slot] # NoProc /\ slots[target.slot].key = target
         => slots[target.slot].parent_key = slots[i].key

\* No two handles name the same key.
HandlesDistinct ==
  \A i, j \in Slots, h, g \in ProcSlots :
    /\ process_handles[i][h] # NoCap
    /\ process_handles[j][g] # NoCap
    /\ process_handles[i][h].target = process_handles[j][g].target
    => i = j /\ h = g

Kinship == KeysOwned /\ HandlesPast /\ HandlesDistinct

\* The inductive invariant of ProcessManager.
ManagerInv ==
  /\ TypeOK
  /\ HoldingsOrderly
  /\ Kinship
  /\ ChildWaitIsLive
  /\ LaunchNotLost
  /\ NoOrphanOfSupervisor

-----------------------------------------------------------------------------
(* Keys, parents and process handles.                                      *)

\* Two processes never share a key.
LEMMA KeysDiffer ==
  ASSUME KeysOwned, NEW i \in Slots, NEW j \in Slots,
         slots[i] # NoProc, slots[j] # NoProc, slots[i].key = slots[j].key
  PROVE  i = j
BY DEF KeysOwned

\* A step leaves slot k to the process that had it, with its identity.
SameIdentity(k) ==
  /\ slots[k] # NoProc
  /\ slots'[k].key = slots[k].key
  /\ slots'[k].pid = slots[k].pid
  /\ slots'[k].parent_key = slots[k].parent_key
  /\ slots'[k].supervisor <=> slots[k].supervisor

\* A step fills slot k with a new process.
Fresh(k) ==
  /\ slots[k] = NoProc
  /\ slots'[k].key = NewKey(k)
  /\ incarnations'[k] = incarnations[k] + 1
  /\ slots'[k].parent_key = NoKey \/ slots'[k].parent_key.slot # k
  /\ ~slots'[k].completed
  /\ slots'[k].state = "Ready"

\* Incarnations only grow.
Aging == \A k \in Slots : incarnations[k] <= incarnations'[k]

\* The key of a new process is nobody's yet.
LEMMA NewKeyIsAhead ==
  ASSUME TypeOK, Kinship, NEW k \in Slots
  PROVE  /\ NewKey(k).slot = k
         /\ NewKey(k).incarnation = incarnations[k] + 1
         /\ \A i \in Slots, h \in ProcSlots :
              process_handles[i][h] # NoCap => process_handles[i][h].target # NewKey(k)
<1>1. NewKey(k).slot = k /\ NewKey(k).incarnation = incarnations[k] + 1
  BY DEF NewKey
<1>2. \A i \in Slots, h \in ProcSlots :
        process_handles[i][h] # NoCap => process_handles[i][h].target # NewKey(k)
  <2> SUFFICES ASSUME NEW i \in Slots, NEW h \in ProcSlots,
                      process_handles[i][h] # NoCap, process_handles[i][h].target = NewKey(k)
               PROVE  FALSE
    OBVIOUS
  <2>1. incarnations[k] + 1 <= incarnations[k]
    BY <1>1 DEF Kinship, HandlesPast
  <2>2. incarnations[k] \in Nat
    BY EndpointConstants DEF TypeOK
  <2> QED BY <2>1, <2>2
<1> QED BY <1>1, <1>2

\* Whoever is in a slot after the step was there before or is new.
Settled == \A k \in Slots : slots'[k] # NoProc => SameIdentity(k) \/ Fresh(k)

\* The keys stay in their slots.
LEMMA KeysKept ==
  ASSUME TypeOK, TypeOK', Kinship, Aging, Settled
  PROVE  KeysOwned'
<1>0. \A k \in Slots : incarnations[k] \in Nat /\ incarnations'[k] \in Nat
  BY EndpointConstants DEF TypeOK
<1> SUFFICES ASSUME NEW i \in Slots, slots'[i] # NoProc
             PROVE  /\ slots'[i].key.slot = i
                    /\ slots'[i].key.incarnation <= incarnations'[i]
                    /\ slots'[i].parent_key = NoKey \/ slots'[i].parent_key.slot # i
  BY DEF KeysOwned
<1>1. CASE Fresh(i)
  BY <1>0, <1>1 DEF Fresh, NewKey
<1>2. CASE SameIdentity(i)
  <2>1. slots[i] \in Process /\ slots[i].key.incarnation \in Nat
    BY <1>2, EndpointConstants DEF SameIdentity, TypeOK, Process, Key
  <2> QED BY <1>0, <1>2, <2>1 DEF SameIdentity, Kinship, KeysOwned, Aging
<1> QED BY <1>1, <1>2 DEF Settled

\* What HandlesPast says of one handle after the step.
PastNext(i, h) ==
  LET target == process_handles'[i][h].target IN
  /\ target.incarnation <= incarnations'[target.slot]
  /\ slots'[target.slot] # NoProc /\ slots'[target.slot].key = target
       => slots'[target.slot].parent_key = slots'[i].key

\* A handle that is kept by its owner still names a child or nobody.
LEMMA HandleKept ==
  ASSUME TypeOK, TypeOK', Kinship, Aging, Settled,
         NEW i \in Slots, NEW h \in ProcSlots, process_handles[i][h] # NoCap,
         process_handles'[i][h] = process_handles[i][h], SameIdentity(i)
  PROVE  PastNext(i, h)
<1>0. \A k \in Slots : incarnations[k] \in Nat /\ incarnations'[k] \in Nat
  BY EndpointConstants DEF TypeOK
<1> DEFINE target == process_handles[i][h].target
           k == target.slot
<1>1. target \in Key /\ k \in Slots /\ target.incarnation \in Nat
  BY EndpointConstants DEF TypeOK, ProcessCap, Key
<1>2. /\ target.incarnation <= incarnations[k]
      /\ slots[k] # NoProc /\ slots[k].key = target => slots[k].parent_key = slots[i].key
  BY DEF Kinship, HandlesPast
<1>3. target.incarnation <= incarnations'[k]
  BY <1>0, <1>1, <1>2, SMTT(20) DEF Aging
<1>4. target # NewKey(k)
  BY <1>1, NewKeyIsAhead
<1> HIDE DEF target, k
<1>5. ASSUME slots'[k] # NoProc, slots'[k].key = target
      PROVE  slots'[k].parent_key = slots'[i].key
  <2>1. SameIdentity(k)
    BY <1>1, <1>4, <1>5 DEF Fresh, Settled
  <2> QED BY <1>2, <1>5, <2>1 DEF SameIdentity
<1> QED BY <1>3, <1>5 DEF PastNext, target, k

\* A step that gives out no process handle.
LEMMA KinshipKept ==
  ASSUME TypeOK, TypeOK', Kinship, Aging, Settled,
         \A k \in Slots, h \in ProcSlots : process_handles'[k][h] # NoCap =>
            /\ process_handles'[k][h] = process_handles[k][h]
            /\ slots'[k] # NoProc /\ SameIdentity(k)
  PROVE  Kinship'
<1>1. KeysOwned'
  BY KeysKept
<1>2. HandlesPast'
  <2>1. \A i \in Slots, h \in ProcSlots : process_handles'[i][h] # NoCap => PastNext(i, h)
    BY HandleKept
  <2> QED BY <2>1 DEF HandlesPast, PastNext
<1>3. HandlesDistinct'
  BY DEF HandlesDistinct, Kinship
<1> QED BY <1>1, <1>2, <1>3 DEF Kinship

-----------------------------------------------------------------------------
(* Steps in which no process starts, ends or is reaped.                    *)

\* Everybody keeps slot, identity and life.
Quiet ==
  \A k \in Slots : /\ (slots'[k] = NoProc) <=> (slots[k] = NoProc)
                   /\ slots[k] # NoProc =>
                        /\ SameIdentity(k)
                        /\ slots'[k].completed <=> slots[k].completed

\* A quiet step that changes no process handle keeps keys and parents.
LEMMA QuietKinship ==
  ASSUME ManagerInv, TypeOK', Aging, Quiet, process_handles' = process_handles
  PROVE  Kinship' /\ NoOrphanOfSupervisor'
<1>1. TypeOK /\ Kinship /\ NoOrphanOfSupervisor /\ HoldingsOrderly
  BY DEF ManagerInv
<1>2. \A k \in Slots, h \in ProcSlots : process_handles[k][h] # NoCap => slots[k] # NoProc
  <2>1. \A k \in Slots : slots[k] = NoProc => process_handles[k] = NoProcessHandles
    BY <1>1 DEF HoldingsOrderly, Holding, Orderly, VacantClean
  <2> QED BY <2>1 DEF NoProcessHandles
<1>3. Kinship'
  <2>1. Settled
    BY DEF Quiet, Settled
  <2>2. \A k \in Slots, h \in ProcSlots : process_handles'[k][h] # NoCap =>
            /\ process_handles'[k][h] = process_handles[k][h]
            /\ slots'[k] # NoProc /\ SameIdentity(k)
    BY <1>2 DEF Quiet
  <2> QED BY <1>1, <2>1, <2>2, KinshipKept
<1>4. NoOrphanOfSupervisor'
  BY <1>1 DEF NoOrphanOfSupervisor, Quiet, SameIdentity
<1> QED BY <1>3, <1>4

\* The process in slot k waits for what it waited for before.
SameWait(k, reason) ==
  WaitsOn(slots'[k], reason) =>
    /\ WaitsOn(slots[k], reason)
    /\ slots'[k].child = slots[k].child
    /\ slots'[k].pending_launch = slots[k].pending_launch

\* A child that is waited for is live, for the process in slot k.
WaitedChildLives(k) ==
  \E c \in Slots : /\ slots'[c] # NoProc /\ ~slots'[c].completed
                   /\ slots'[c].key = slots'[k].child
                   /\ slots'[c].parent_key = slots'[k].key

\* ChildWaitIsLive in the next state.
LEMMA ChildWaitNextState ==
  ASSUME \A k \in Slots : WaitsOn(slots'[k], "Child") => WaitedChildLives(k)
  PROVE  ChildWaitIsLive'
BY DEF ChildWaitIsLive, Live, WaitsOn, WaitedChildLives

\* The coordinator holds the request of the process in slot k.
LaunchHeld(k) ==
  /\ pending_lifecycle' # NoRequest
  /\ slots'[k].key = pending_lifecycle'.owner
  /\ slots'[k].pid = pending_lifecycle'.pid
  /\ slots'[k].pending_launch = pending_lifecycle'.request_id

\* LaunchNotLost in the next state.
LEMMA LaunchNextState ==
  ASSUME \A k \in Slots : WaitsOn(slots'[k], "ProcessLaunch") => LaunchHeld(k)
  PROVE  LaunchNotLost'
BY DEF LaunchNotLost, Live, WaitsOn, LaunchActive, LaunchHeld

\* The invariants of the two waits, for one process.
LEMMA WaitsHold ==
  ASSUME ManagerInv, NEW k \in Slots
  PROVE  /\ WaitsOn(slots[k], "ProcessLaunch") => LaunchActive(k, pending_lifecycle)
         /\ WaitsOn(slots[k], "Child") =>
              \E c \in Slots : /\ slots[c] # NoProc /\ ~slots[c].completed
                               /\ slots[c].key = slots[k].child
                               /\ slots[c].parent_key = slots[k].key
BY DEF ManagerInv, ChildWaitIsLive, LaunchNotLost, WaitsOn, Live

\* A quiet step in which a process keeps its wait keeps the wait's reason.
LEMMA QuietChildWait ==
  ASSUME ManagerInv, Quiet, NEW k \in Slots, SameWait(k, "Child"),
         WaitsOn(slots'[k], "Child")
  PROVE  WaitedChildLives(k)
<1>1. WaitsOn(slots[k], "Child") /\ slots'[k].child = slots[k].child
  BY DEF SameWait
<1>2. PICK c \in Slots : /\ slots[c] # NoProc /\ ~slots[c].completed
                         /\ slots[c].key = slots[k].child
                         /\ slots[c].parent_key = slots[k].key
  BY <1>1, WaitsHold
<1>3. slots[k] # NoProc
  BY <1>1 DEF WaitsOn
<1> QED BY <1>1, <1>2, <1>3 DEF Quiet, SameIdentity, WaitedChildLives

\* The same for a process that waits for its launch.
LEMMA QuietLaunchWait ==
  ASSUME ManagerInv, Quiet, NEW k \in Slots, SameWait(k, "ProcessLaunch"),
         pending_lifecycle' = pending_lifecycle, WaitsOn(slots'[k], "ProcessLaunch")
  PROVE  LaunchHeld(k)
<1>1. WaitsOn(slots[k], "ProcessLaunch") /\ slots'[k].pending_launch = slots[k].pending_launch
  BY DEF SameWait
<1>2. LaunchActive(k, pending_lifecycle)
  BY <1>1, WaitsHold
<1> QED BY <1>1, <1>2 DEF Quiet, SameIdentity, LaunchActive, LaunchHeld, Live

\* What remains to be shown of a step.
Rest == Kinship' /\ ChildWaitIsLive' /\ LaunchNotLost' /\ NoOrphanOfSupervisor'

\* A step that leaves all process records and handles alone.
LEMMA StillStep ==
  ASSUME ManagerInv, TypeOK', slots' = slots, incarnations' = incarnations,
         process_handles' = process_handles, pending_lifecycle' = pending_lifecycle
  PROVE  Rest
<1>1. Quiet /\ Aging
  <2>1. \A k \in Slots : incarnations[k] <= incarnations[k]
    BY EndpointConstants DEF ManagerInv, TypeOK
  <2>2. Quiet
    BY DEF Quiet, SameIdentity
  <2> QED BY <2>1, <2>2 DEF Aging
<1>2. ChildWaitIsLive'
  BY DEF ManagerInv, ChildWaitIsLive, Live
<1>3. LaunchNotLost'
  BY DEF ManagerInv, LaunchNotLost, Live, LaunchActive
<1> QED BY <1>1, <1>2, <1>3, QuietKinship DEF Rest

\* A step that changes the record of one live process in slot i and keeps its
\* identity.
LEMMA RecordIsQuiet ==
  ASSUME TypeOK, NEW i \in Slots, NEW q \in Process, slots[i] # NoProc,
         slots' = [slots EXCEPT ![i] = q],
         q.key = slots[i].key, q.pid = slots[i].pid, q.parent_key = slots[i].parent_key,
         q.supervisor <=> slots[i].supervisor, q.completed <=> slots[i].completed
  PROVE  /\ Quiet
         /\ slots'[i] = q
         /\ \A k \in Slots \ {i} : slots'[k] = slots[k]
                                   /\ \A reason : SameWait(k, reason)
<1>1. slots'[i] = q /\ \A k \in Slots \ {i} : slots'[k] = slots[k]
  BY DEF TypeOK
<1>2. \A k \in Slots \ {i} : \A reason : SameWait(k, reason)
  BY <1>1 DEF SameWait
<1>3. q # NoProc
  BY NoProcIsNoProcess
<1>4. Quiet
  BY <1>1, <1>3 DEF Quiet, SameIdentity
<1> QED BY <1>1, <1>2, <1>4

\* Incarnations that do not change have not shrunk.
LEMMA NoAging ==
  ASSUME TypeOK, incarnations' = incarnations
  PROVE  Aging
<1>1. \A k \in Slots : incarnations[k] \in Nat
  BY EndpointConstants DEF TypeOK
<1> QED BY <1>1 DEF Aging

\* complete_child_wait on a live child: that child is the one waited for.
LEMMA RestWaitChild ==
  ASSUME ManagerInv, TypeOK', NEW i \in Slots, NEW c \in Slots, WaitChild(i, c)
  PROVE  Rest
<1> DEFINE q == [slots[i] EXCEPT !.state = "Waiting", !.blocked_on = "Child",
                                 !.child = slots[c].key]
<1>1. /\ TypeOK /\ slots[i] \in Process /\ slots[i] # NoProc /\ ~slots[i].completed
      /\ slots[c] \in Process /\ slots[c] # NoProc /\ ~slots[c].completed
      /\ slots[c].parent_key = slots[i].key
  BY DEF ManagerInv, WaitChild, Runs, Live, TypeOK
<1>2. /\ q \in Process /\ q.key = slots[i].key /\ q.pid = slots[i].pid
      /\ q.parent_key = slots[i].parent_key
      /\ q.supervisor <=> slots[i].supervisor
      /\ q.completed <=> slots[i].completed
      /\ q.child = slots[c].key /\ q.blocked_on = "Child"
  BY <1>1, Zenon DEF Process, LiveStates
<1>3. /\ slots' = [slots EXCEPT ![i] = q] /\ incarnations' = incarnations
      /\ process_handles' = process_handles /\ pending_lifecycle' = pending_lifecycle
  BY <1>1, Zenon DEF WaitChild, TypeOK
<1> HIDE DEF q
<1>4. /\ Quiet /\ slots'[i] = q
      /\ \A k \in Slots \ {i} : slots'[k] = slots[k] /\ \A reason : SameWait(k, reason)
  BY <1>1, <1>2, <1>3, RecordIsQuiet, Zenon
<1>5. Kinship' /\ NoOrphanOfSupervisor'
  BY <1>1, <1>3, <1>4, NoAging, QuietKinship
<1>6. ChildWaitIsLive'
  <2>1. WaitedChildLives(i)
    BY <1>1, <1>2, <1>4 DEF WaitedChildLives, Quiet, SameIdentity
  <2>2. \A k \in Slots \ {i} : WaitsOn(slots'[k], "Child") => WaitedChildLives(k)
    BY <1>4, QuietChildWait
  <2> QED BY <2>1, <2>2, ChildWaitNextState
<1>7. LaunchNotLost'
  <2>1. ~WaitsOn(slots'[i], "ProcessLaunch")
    BY <1>2, <1>4 DEF WaitsOn
  <2>2. \A k \in Slots \ {i} : WaitsOn(slots'[k], "ProcessLaunch") => LaunchHeld(k)
    BY <1>3, <1>4, QuietLaunchWait
  <2> QED BY <2>1, <2>2, LaunchNextState
<1> QED BY <1>5, <1>6, <1>7 DEF Rest

\* block_process_launch: the coordinator's slot was empty, so nobody else waits
\* for a launch.
LEMMA RestRequest ==
  ASSUME ManagerInv, TypeOK', NEW i \in Slots, RequestLaunch(i)
  PROVE  Rest
<1> DEFINE n == slots[i].next_request
           q == [slots[i] EXCEPT !.state = "Waiting", !.blocked_on = "ProcessLaunch",
                                 !.pending_launch = n, !.next_request = n + 1]
           request == [owner |-> slots[i].key, pid |-> slots[i].pid, request_id |-> n]
<1>1. /\ TypeOK /\ slots[i] \in Process /\ slots[i] # NoProc
      /\ pending_lifecycle = NoRequest
  BY DEF ManagerInv, RequestLaunch, Runs, Live, TypeOK
<1>2. n \in 1..RequestMax /\ n \in 0..RequestMax /\ n + 1 \in 1..(RequestMax + 1)
  BY <1>1, ManagerConstants DEF Process, RequestLaunch
<1>3. /\ q \in Process /\ q.key = slots[i].key /\ q.pid = slots[i].pid
      /\ q.parent_key = slots[i].parent_key
      /\ q.supervisor <=> slots[i].supervisor
      /\ q.completed <=> slots[i].completed
      /\ q.pending_launch = n /\ q.blocked_on = "ProcessLaunch"
  BY <1>1, <1>2, Zenon DEF Process, LiveStates
<1>4. /\ slots' = [slots EXCEPT ![i] = q] /\ incarnations' = incarnations
      /\ process_handles' = process_handles /\ pending_lifecycle' = request
  BY <1>1, Zenon DEF RequestLaunch, TypeOK
<1>5. request \in LaunchRequest
  BY <1>1, <1>2 DEF LaunchRequest, Process
<1> HIDE DEF q
<1>6. /\ Quiet /\ slots'[i] = q
      /\ \A k \in Slots \ {i} : slots'[k] = slots[k] /\ \A reason : SameWait(k, reason)
  BY <1>1, <1>3, <1>4, RecordIsQuiet, Zenon
<1>7. Kinship' /\ NoOrphanOfSupervisor'
  BY <1>1, <1>4, <1>6, NoAging, QuietKinship
<1>8. ChildWaitIsLive'
  <2>1. ~WaitsOn(slots'[i], "Child")
    BY <1>3, <1>6 DEF WaitsOn
  <2>2. \A k \in Slots \ {i} : WaitsOn(slots'[k], "Child") => WaitedChildLives(k)
    BY <1>6, QuietChildWait
  <2> QED BY <2>1, <2>2, ChildWaitNextState
<1>9. LaunchNotLost'
  <2>1. LaunchHeld(i)
    BY <1>3, <1>4, <1>5, <1>6, NoRequestIsNoRequest DEF LaunchHeld
  <2>2. \A k \in Slots \ {i} : ~WaitsOn(slots'[k], "ProcessLaunch")
    BY <1>1, <1>6, WaitsHold DEF LaunchActive
  <2> QED BY <2>1, <2>2, LaunchNextState
<1> QED BY <1>7, <1>8, <1>9 DEF Rest

\* A request that is dropped was nobody's.
LEMMA RestDrop ==
  ASSUME ManagerInv, TypeOK', DropStaleLaunch
  PROVE  Rest
<1>1. /\ TypeOK /\ slots' = slots /\ incarnations' = incarnations
      /\ process_handles' = process_handles
      /\ \A k \in Slots : ~LaunchActive(k, pending_lifecycle)
  BY DEF ManagerInv, DropStaleLaunch
<1>2. Quiet
  BY <1>1 DEF Quiet, SameIdentity
<1>3. Kinship' /\ NoOrphanOfSupervisor'
  BY <1>1, <1>2, NoAging, QuietKinship
<1>4. ChildWaitIsLive'
  BY <1>1 DEF ManagerInv, ChildWaitIsLive, Live
<1>5. LaunchNotLost'
  BY <1>1, WaitsHold, LaunchNextState
<1> QED BY <1>3, <1>4, <1>5 DEF Rest

\* Only one process can be waiting for the pending launch.
LEMMA OneLaunchActive ==
  ASSUME ManagerInv, NEW i \in Slots, NEW k \in Slots,
         LaunchActive(i, pending_lifecycle), LaunchActive(k, pending_lifecycle)
  PROVE  k = i
BY KeysDiffer DEF ManagerInv, Kinship, LaunchActive, Live

\* complete_process_launch without a child resumes the only process that waits.
LEMMA RestLaunchFails ==
  ASSUME ManagerInv, TypeOK', NEW i \in Slots, NEW c \in Slots, LaunchFails(i, c)
  PROVE  Rest
<1> DEFINE q == Resumed(slots[i])
<1>1. /\ TypeOK /\ LaunchActive(i, pending_lifecycle) /\ Live(i)
      /\ slots[i] \in Process /\ slots[i] # NoProc
  BY DEF ManagerInv, LaunchFails, LaunchActive, Live, TypeOK
<1>2. /\ q \in Process /\ q.key = slots[i].key /\ q.pid = slots[i].pid
      /\ q.parent_key = slots[i].parent_key
      /\ q.supervisor <=> slots[i].supervisor
      /\ q.completed <=> slots[i].completed
      /\ q.state = "Ready"
  BY <1>1, WokenType, WokenValue
<1>3. /\ slots' = [slots EXCEPT ![i] = q]
      /\ process_handles' = process_handles /\ pending_lifecycle' = NoRequest
  BY DEF LaunchFails
<1>4. Aging
  <2>1. \A k \in Slots : incarnations[k] \in Nat
    BY <1>1, EndpointConstants DEF TypeOK
  <2> QED BY <1>1, <2>1 DEF LaunchFails, Aging, TypeOK
<1> HIDE DEF q
<1>5. /\ Quiet /\ slots'[i] = q
      /\ \A k \in Slots \ {i} : slots'[k] = slots[k] /\ \A reason : SameWait(k, reason)
  BY <1>1, <1>2, <1>3, RecordIsQuiet, Zenon
<1>6. Kinship' /\ NoOrphanOfSupervisor'
  BY <1>3, <1>4, <1>5, QuietKinship
<1>7. \A reason : ~WaitsOn(slots'[i], reason)
  BY <1>2, <1>5 DEF WaitsOn
<1>8. ChildWaitIsLive'
  BY <1>5, <1>7, QuietChildWait, ChildWaitNextState
<1>9. LaunchNotLost'
  <2>1. \A k \in Slots \ {i} : ~WaitsOn(slots'[k], "ProcessLaunch")
    BY <1>1, <1>5, WaitsHold, OneLaunchActive
  <2> QED BY <1>7, <2>1, LaunchNextState
<1> QED BY <1>6, <1>8, <1>9 DEF Rest

\* A process that starts or stops waiting for a message.
LEMMA RestMessageWait ==
  ASSUME ManagerInv, TypeOK', NEW i \in Slots, NEW q \in Process, slots[i] # NoProc,
         slots' = [slots EXCEPT ![i] = q],
         q.key = slots[i].key, q.pid = slots[i].pid, q.parent_key = slots[i].parent_key,
         q.supervisor <=> slots[i].supervisor, q.completed <=> slots[i].completed,
         q.blocked_on \in {"None", "Endpoint"}, incarnations' = incarnations,
         process_handles' = process_handles, pending_lifecycle' = pending_lifecycle
  PROVE  Rest
<1>1. TypeOK
  BY DEF ManagerInv
<1>2. /\ Quiet /\ slots'[i] = q
      /\ \A k \in Slots \ {i} : slots'[k] = slots[k] /\ \A reason : SameWait(k, reason)
  BY <1>1, RecordIsQuiet, Zenon
<1>3. Kinship' /\ NoOrphanOfSupervisor'
  BY <1>1, <1>2, NoAging, QuietKinship
<1>4. ~WaitsOn(slots'[i], "Child") /\ ~WaitsOn(slots'[i], "ProcessLaunch")
  BY <1>2 DEF WaitsOn
<1>5. ChildWaitIsLive'
  BY <1>2, <1>4, QuietChildWait, ChildWaitNextState
<1>6. LaunchNotLost'
  BY <1>2, <1>4, QuietLaunchWait, LaunchNextState
<1> QED BY <1>3, <1>5, <1>6 DEF Rest

\* complete_endpoint_send.
LEMMA RestSend ==
  ASSUME ManagerInv, TypeOK', NEW i \in Slots, NEW h \in Handle, NEW t \in Slots,
         SendEndpoint(i, h, t)
  PROVE  Rest
<1>1. /\ incarnations' = incarnations /\ process_handles' = process_handles
      /\ pending_lifecycle' = pending_lifecycle
      /\ slots' = slots \/ slots' = [slots EXCEPT ![t] = Woken(slots[t])]
      /\ slots[t] \in Process /\ slots[t] # NoProc
  BY DEF ManagerInv, SendEndpoint, EndpointStep, Publishes, Live, TypeOK
<1>2. CASE slots' = slots
  BY <1>1, <1>2, StillStep
<1>3. CASE slots' = [slots EXCEPT ![t] = Woken(slots[t])]
  BY <1>1, <1>3, WokenType, WokenValue, RestMessageWait, Zenon
<1> QED BY <1>1, <1>2, <1>3

\* complete_endpoint_receive.
LEMMA RestReceive ==
  ASSUME ManagerInv, TypeOK', NEW i \in Slots, NEW h \in Handle, ReceiveEndpoint(i, h)
  PROVE  Rest
<1> DEFINE q == [slots[i] EXCEPT !.state = "Waiting", !.blocked_on = "Endpoint"]
<1>1. /\ incarnations' = incarnations /\ process_handles' = process_handles
      /\ pending_lifecycle' = pending_lifecycle
      /\ slots' = slots \/ slots' = [slots EXCEPT ![i] = q]
      /\ slots[i] \in Process /\ slots[i] # NoProc
  BY Zenon DEF ManagerInv, ReceiveEndpoint, EndpointStep, Runs, Live, TypeOK
<1>2. /\ q \in Process /\ q.key = slots[i].key /\ q.pid = slots[i].pid
      /\ q.parent_key = slots[i].parent_key
      /\ q.supervisor <=> slots[i].supervisor
      /\ q.completed <=> slots[i].completed
      /\ q.blocked_on = "Endpoint"
  BY <1>1, Zenon DEF Process, LiveStates
<1> HIDE DEF q
<1>3. CASE slots' = slots
  BY <1>1, <1>3, StillStep
<1>4. CASE slots' = [slots EXCEPT ![i] = q]
  BY <1>1, <1>2, <1>4, RestMessageWait, Zenon
<1> QED BY <1>1, <1>3, <1>4

-----------------------------------------------------------------------------
(* Steps in which processes end or are reaped.                             *)

\* Whoever has process handles occupies a slot.
LEMMA OwnerIsThere ==
  ASSUME HoldingsOrderly, NEW k \in Slots, NEW h \in ProcSlots,
         process_handles[k][h] # NoCap
  PROVE  slots[k] # NoProc
BY DEF HoldingsOrderly, Holding, Orderly, VacantClean, NoProcessHandles

\* What Terminate leaves in each slot.
LEMMA TerminateSurvivors ==
  ASSUME ManagerInv, NEW i \in Slots, slots[i] # NoProc, NEW final \in TerminalStates,
         Terminate(i, final)
  PROVE  /\ \A k \in Slots : slots'[k] # NoProc =>
              /\ SameIdentity(k)
              /\ slots'[k].completed <=> slots[k].completed \/ k = i
              /\ \A reason : SameWait(k, reason)
         /\ \A k \in Slots : slots[k] # NoProc /\ k \notin Supervised(i) => slots'[k] # NoProc
         /\ \A k \in Slots \ {i} : k \in Supervised(i) => slots'[k] = NoProc
         /\ \A k \in Slots \ {i} : ~WaitsFor(slots'[k], slots[i].key)
<1>1. TypeOK /\ HoldingsOrderly /\ slots[i] \in Process
  BY DEF ManagerInv, TypeOK
<1>2. ASSUME NEW k \in Slots, k = i
      PROVE  /\ slots'[k] # NoProc /\ SameIdentity(k) /\ slots'[k].completed
             /\ \A reason : SameWait(k, reason)
  <2>1. slots'[k] = Corpse(slots[i], final)
    BY <1>1, <1>2, TerminateValue, Zenon
  <2> QED BY <1>1, <1>2, <2>1, CorpseValue DEF SameIdentity, SameWait, WaitsOn
<1>3. ASSUME NEW k \in Slots, k # i, k \in Supervised(i)
      PROVE  slots'[k] = NoProc
  BY <1>1, <1>3, TerminateValue, Zenon
<1>4. ASSUME NEW k \in Slots, k # i, k \notin Supervised(i), slots[k] # NoProc
      PROVE  /\ slots'[k] # NoProc /\ SameIdentity(k)
             /\ slots'[k].completed <=> slots[k].completed
             /\ \A reason : SameWait(k, reason)
             /\ ~WaitsFor(slots'[k], slots[i].key)
  <2>1. slots'[k] = IF WaitsFor(slots[k], slots[i].key) THEN Woken(slots[k]) ELSE slots[k]
    BY <1>1, <1>4, TerminateValue, Zenon
  <2>2. slots[k] \in Process
    BY <1>1, <1>4 DEF TypeOK
  <2>3. CASE WaitsFor(slots[k], slots[i].key)
    <3>1. slots'[k] = Woken(slots[k]) /\ Woken(slots[k]) \in Process
      BY <2>1, <2>2, <2>3, WokenType
    <3> QED BY <1>4, <2>2, <3>1, WokenValue, NoProcIsNoProcess
            DEF SameIdentity, SameWait, WaitsOn, WaitsFor
  <2>4. CASE ~WaitsFor(slots[k], slots[i].key)
    <3>1. slots'[k] = slots[k]
      BY <2>1, <2>4
    <3> QED BY <1>4, <2>4, <3>1 DEF SameIdentity, SameWait
  <2> QED BY <2>3, <2>4
<1>5. ASSUME NEW k \in Slots, k # i, k \notin Supervised(i), slots[k] = NoProc
      PROVE  slots'[k] = NoProc
  BY <1>1, <1>5, TerminateValue, Zenon DEF WaitsFor
<1>6. \A k \in Slots : ~WaitsFor(NoProc, slots[i].key)
  BY DEF WaitsFor
<1> QED BY <1>2, <1>3, <1>4, <1>5, <1>6

\* terminate_process_at: the parent that waits is woken, supervised children
\* go, and everybody else waits for what is still there.
LEMMA RestTerminate ==
  ASSUME ManagerInv, TypeOK', NEW i \in Slots, slots[i] # NoProc,
         NEW final \in TerminalStates, Terminate(i, final)
  PROVE  Rest
<1>1. /\ TypeOK /\ HoldingsOrderly /\ Kinship /\ KeysOwned
      /\ incarnations' = incarnations /\ pending_lifecycle' = pending_lifecycle
  BY DEF ManagerInv, Kinship, Terminate
<1>2. \A k \in Slots : slots'[k] # NoProc =>
          /\ SameIdentity(k) /\ \A reason : SameWait(k, reason)
          /\ slots'[k].completed <=> slots[k].completed \/ k = i
  BY TerminateSurvivors
<1>3. \A k \in Slots \ {i} : k \in Supervised(i) => slots'[k] = NoProc
  BY TerminateSurvivors
<1>4. \A k \in Slots : slots[k] # NoProc /\ k \notin Supervised(i) => slots'[k] # NoProc
  BY TerminateSurvivors
<1>5. \A k \in Slots : k \in Supervised(i) <=>
         slots[i].supervisor /\ slots[k] # NoProc /\ slots[k].parent_key = slots[i].key
  BY DEF Supervised, Occupied
<1>6. Kinship'
  <2>1. \A k \in Slots, h \in ProcSlots : process_handles'[k][h] # NoCap =>
            /\ process_handles'[k][h] = process_handles[k][h]
            /\ slots'[k] # NoProc /\ SameIdentity(k)
    <3> SUFFICES ASSUME NEW k \in Slots, NEW h \in ProcSlots,
                        process_handles'[k][h] # NoCap
                 PROVE  /\ process_handles'[k][h] = process_handles[k][h]
                        /\ slots'[k] # NoProc /\ SameIdentity(k)
      OBVIOUS
    <3>1. k # i /\ k \notin Supervised(i)
      <4>1. k = i \/ k \in Supervised(i) => process_handles'[k] = NoProcessHandles
        BY <1>1, TerminateValue, Zenon
      <4> QED BY <4>1 DEF NoProcessHandles
    <3>2. process_handles'[k] = process_handles[k]
      BY <1>1, <3>1, TerminateValue, Zenon
    <3>3. slots[k] # NoProc
      BY <1>1, <3>2, OwnerIsThere
    <3> QED BY <1>2, <1>4, <3>1, <3>2, <3>3
  <2>2. Settled
    BY <1>2 DEF Settled
  <2> QED BY <1>1, <2>1, <2>2, NoAging, KinshipKept
<1>7. NoOrphanOfSupervisor'
  <2> SUFFICES ASSUME NEW j \in Slots, NEW c \in Slots,
                      slots'[j] # NoProc, slots'[j].completed, slots'[j].supervisor,
                      slots'[c] # NoProc, slots'[c].parent_key = slots'[j].key
               PROVE  FALSE
    BY DEF NoOrphanOfSupervisor
  <2>1. /\ slots[j] # NoProc /\ slots[j].supervisor
        /\ slots[c] # NoProc /\ slots[c].parent_key = slots[j].key
    BY <1>2 DEF SameIdentity
  <2>2. CASE slots[j].completed
    BY <2>1, <2>2 DEF ManagerInv, NoOrphanOfSupervisor
  <2>3. CASE j = i
    <3>1. c = i
      BY <1>3, <1>5, <2>1, <2>3
    <3>2. slots[i].key \in Key
      BY <1>1 DEF TypeOK, Process
    <3> QED BY <1>1, <2>1, <2>3, <3>1, <3>2, NoKeyIsNoKey DEF KeysOwned
  <2> QED BY <1>2, <2>2, <2>3
<1>8. ChildWaitIsLive'
  <2> SUFFICES ASSUME NEW k \in Slots, WaitsOn(slots'[k], "Child")
               PROVE  WaitedChildLives(k)
    BY ChildWaitNextState
  <2>1. slots'[k] # NoProc /\ ~slots'[k].completed
    BY DEF WaitsOn
  <2>2. /\ SameIdentity(k) /\ WaitsOn(slots[k], "Child") /\ slots'[k].child = slots[k].child
        /\ k # i
    BY <1>2, <2>1 DEF SameWait
  <2>3. PICK c \in Slots : /\ slots[c] # NoProc /\ ~slots[c].completed
                           /\ slots[c].key = slots[k].child
                           /\ slots[c].parent_key = slots[k].key
    BY <2>2, WaitsHold
  <2>4. c # i
    <3>1. ~WaitsFor(slots'[k], slots[i].key)
      BY <2>2, TerminateSurvivors
    <3> QED BY <2>2, <2>3, <3>1 DEF WaitsFor, WaitsOn
  <2>5. c \notin Supervised(i)
    <3>1. slots[k] # NoProc
      BY <2>2 DEF WaitsOn
    <3> QED BY <1>1, <1>5, <2>2, <2>3, <3>1, KeysDiffer
  <2>6. slots'[c] # NoProc
    BY <1>4, <2>3, <2>5
  <2> QED BY <1>2, <2>2, <2>3, <2>4, <2>6 DEF SameIdentity, WaitedChildLives
<1>9. LaunchNotLost'
  <2> SUFFICES ASSUME NEW k \in Slots, WaitsOn(slots'[k], "ProcessLaunch")
               PROVE  LaunchHeld(k)
    BY LaunchNextState
  <2>1. slots'[k] # NoProc
    BY DEF WaitsOn
  <2>2. /\ SameIdentity(k) /\ WaitsOn(slots[k], "ProcessLaunch")
        /\ slots'[k].pending_launch = slots[k].pending_launch
    BY <1>2, <2>1 DEF SameWait
  <2>3. LaunchActive(k, pending_lifecycle)
    BY <2>2, WaitsHold
  <2> QED BY <1>1, <2>2, <2>3 DEF SameIdentity, LaunchActive, LaunchHeld
<1> QED BY <1>6, <1>7, <1>8, <1>9 DEF Rest

\* Freeing the slot of a process that has ended.
LEMMA RestFree ==
  ASSUME ManagerInv, TypeOK', NEW t \in Slots, slots[t] # NoProc, slots[t].completed,
         slots' = [slots EXCEPT ![t] = NoProc], incarnations' = incarnations,
         pending_lifecycle' = pending_lifecycle,
         \A k \in Slots, h \in ProcSlots : process_handles'[k][h] # NoCap =>
            k # t /\ process_handles'[k][h] = process_handles[k][h]
  PROVE  Rest
<1>1. TypeOK /\ HoldingsOrderly /\ Kinship
  BY DEF ManagerInv
<1>2. slots'[t] = NoProc /\ \A k \in Slots \ {t} : slots'[k] = slots[k]
  BY <1>1 DEF TypeOK
<1>3. \A k \in Slots : slots'[k] # NoProc => k # t /\ slots'[k] = slots[k] /\ SameIdentity(k)
  BY <1>2 DEF SameIdentity
<1>4. Kinship'
  <2>1. \A k \in Slots, h \in ProcSlots : process_handles'[k][h] # NoCap =>
            /\ process_handles'[k][h] = process_handles[k][h]
            /\ slots'[k] # NoProc /\ SameIdentity(k)
    BY <1>1, <1>2, <1>3, OwnerIsThere
  <2>2. Settled
    BY <1>3 DEF Settled
  <2> QED BY <1>1, <2>1, <2>2, NoAging, KinshipKept
<1>5. NoOrphanOfSupervisor'
  BY <1>3 DEF ManagerInv, NoOrphanOfSupervisor
<1>6. ChildWaitIsLive'
  <2> SUFFICES ASSUME NEW k \in Slots, WaitsOn(slots'[k], "Child")
               PROVE  WaitedChildLives(k)
    BY ChildWaitNextState
  <2>1. slots'[k] = slots[k]
    BY <1>3 DEF WaitsOn
  <2>2. PICK c \in Slots : /\ slots[c] # NoProc /\ ~slots[c].completed
                           /\ slots[c].key = slots[k].child
                           /\ slots[c].parent_key = slots[k].key
    BY <2>1, WaitsHold
  <2>3. slots'[c] = slots[c]
    BY <1>2, <2>2
  <2> QED BY <2>1, <2>2, <2>3 DEF WaitedChildLives
<1>7. LaunchNotLost'
  <2> SUFFICES ASSUME NEW k \in Slots, WaitsOn(slots'[k], "ProcessLaunch")
               PROVE  LaunchHeld(k)
    BY LaunchNextState
  <2>1. slots'[k] = slots[k]
    BY <1>3 DEF WaitsOn
  <2> QED BY <2>1, WaitsHold DEF LaunchActive, LaunchHeld
<1> QED BY <1>4, <1>5, <1>6, <1>7 DEF Rest

\* ProcessManager::wait.
LEMMA RestWait ==
  ASSUME ManagerInv, TypeOK', NEW i \in Slots, Wait(i)
  PROVE  Rest
<1>1. \A k \in Slots, h \in ProcSlots : process_handles'[k][h] # NoCap =>
         k # i /\ process_handles'[k][h] = process_handles[k][h]
  BY DEF Wait, ManagerInv, TypeOK, NoProcessHandles
<1> QED BY <1>1, RestFree, Zenon DEF Wait, FreeSlot

\* The shell's reap.
LEMMA RestReap ==
  ASSUME ManagerInv, TypeOK', NEW i \in Slots, NEW h \in ProcSlots, NEW t \in Slots,
         ControlledReap(i, h, t)
  PROVE  Rest
<1>1. i # t /\ slots[t] # NoProc /\ slots[t].completed
  BY DEF ControlledReap, Controls, Runs, Live
<1>2. \A k \in Slots, g \in ProcSlots : process_handles'[k][g] # NoCap =>
         k # t /\ process_handles'[k][g] = process_handles[k][g]
  BY <1>1 DEF ControlledReap, ManagerInv, TypeOK, NoProcessHandles
<1> QED BY <1>1, <1>2, RestFree, Zenon DEF ControlledReap, FreeSlot

-----------------------------------------------------------------------------
(* Steps in which processes start.                                         *)

\* A step that starts processes in free slots and lets no one else change but
\* for process i, which may stop waiting.
LEMMA RestBirth ==
  ASSUME ManagerInv, TypeOK', Kinship',
         \A k \in Slots : slots[k] # NoProc =>
            /\ slots'[k] # NoProc /\ SameIdentity(k)
            /\ slots'[k].completed <=> slots[k].completed
            /\ \A reason : SameWait(k, reason),
         \A k \in Slots : slots[k] = NoProc /\ slots'[k] # NoProc => Fresh(k),
         \A k \in Slots : WaitsOn(slots'[k], "ProcessLaunch") =>
            pending_lifecycle' = pending_lifecycle,
         \A c, j \in Slots : Fresh(c) /\ slots'[c] # NoProc /\ slots'[j] # NoProc
            /\ slots'[c].parent_key = slots'[j].key => ~slots'[j].completed
  PROVE  Rest
<1>1. \A k \in Slots : slots'[k] # NoProc /\ slots[k] = NoProc =>
         ~slots'[k].completed /\ slots'[k].state = "Ready"
  BY DEF Fresh
<1>2. NoOrphanOfSupervisor'
  <2> SUFFICES ASSUME NEW j \in Slots, NEW c \in Slots,
                      slots'[j] # NoProc, slots'[j].completed, slots'[j].supervisor,
                      slots'[c] # NoProc, slots'[c].parent_key = slots'[j].key
               PROVE  FALSE
    BY DEF NoOrphanOfSupervisor
  <2>1. slots[j] # NoProc /\ slots[c] # NoProc
    BY <1>1
  <2> QED BY <2>1 DEF SameIdentity, ManagerInv, NoOrphanOfSupervisor
<1>3. \A k \in Slots : \A reason : WaitsOn(slots'[k], reason) =>
         slots[k] # NoProc /\ WaitsOn(slots[k], reason) /\ SameIdentity(k)
         /\ slots'[k].child = slots[k].child
         /\ slots'[k].pending_launch = slots[k].pending_launch
  <2>1. \A k \in Slots : \A reason : WaitsOn(slots'[k], reason) => slots[k] # NoProc
    BY <1>1 DEF WaitsOn
  <2> QED BY <2>1 DEF SameWait
<1>4. ChildWaitIsLive'
  <2> SUFFICES ASSUME NEW k \in Slots, WaitsOn(slots'[k], "Child")
               PROVE  WaitedChildLives(k)
    BY ChildWaitNextState
  <2>1. PICK c \in Slots : /\ slots[c] # NoProc /\ ~slots[c].completed
                           /\ slots[c].key = slots[k].child
                           /\ slots[c].parent_key = slots[k].key
    BY <1>3, WaitsHold
  <2> QED BY <1>3, <2>1 DEF SameIdentity, WaitedChildLives
<1>5. LaunchNotLost'
  <2> SUFFICES ASSUME NEW k \in Slots, WaitsOn(slots'[k], "ProcessLaunch")
               PROVE  LaunchHeld(k)
    BY LaunchNextState
  <2>1. LaunchActive(k, pending_lifecycle) /\ pending_lifecycle' = pending_lifecycle
    BY <1>3, WaitsHold
  <2> QED BY <1>3, <2>1 DEF SameIdentity, LaunchActive, LaunchHeld
<1> QED BY <1>2, <1>4, <1>5, Zenon DEF Rest

\* spawn_shell, spawn_single, the coordination pair and the endpoint fan-in.
LEMMA RestSpawn ==
  ASSUME ManagerInv, TypeOK', NEW parent \in FreeSlots,
         NEW children \in SUBSET (FreeSlots \ {parent}),
         NEW pidOf \in [{parent} \cup children -> FreshPids],
         NEW shell \in BOOLEAN, NEW built \in BOOLEAN,
         Spawn(parent, children, pidOf, shell, built)
  PROVE  Rest
<1> DEFINE chosen == {parent} \cup children
<1>1. /\ TypeOK /\ HoldingsOrderly /\ Kinship /\ KeysOwned
      /\ parent \in Slots /\ chosen \subseteq Slots
      /\ pending_lifecycle' = pending_lifecycle
      /\ \A k \in chosen : slots[k] = NoProc
  BY DEF ManagerInv, Kinship, FreeSlots, Occupied, Spawn
<1>2. incarnations' = [s \in Slots |-> IF s \in KeysTaken(chosen)
                          THEN incarnations[s] + 1 ELSE incarnations[s]]
  BY DEF Spawn, TakeKeys
<1>3. \A k \in Slots : incarnations[k] \in Nat
  BY <1>1, EndpointConstants DEF TypeOK
<1>4. Aging
  BY <1>2, <1>3 DEF Aging
<1>5. CASE ~(built /\ KeysTaken(chosen) = chosen)
  <2>1. slots' = slots /\ process_handles' = process_handles
    BY <1>5 DEF Spawn
  <2>2. Quiet
    BY <2>1 DEF Quiet, SameIdentity
  <2>3. Kinship' /\ NoOrphanOfSupervisor'
    BY <1>4, <2>1, <2>2, QuietKinship
  <2>4. ChildWaitIsLive' /\ LaunchNotLost'
    BY <1>1, <2>1 DEF ManagerInv, ChildWaitIsLive, LaunchNotLost, LaunchActive, Live
  <2> QED BY <2>3, <2>4 DEF Rest
<1>6. CASE built /\ KeysTaken(chosen) = chosen
  <2>1. \A k \in Slots :
          /\ slots'[k] = IF k = parent THEN NewProcess(k, pidOf[k], NoKey, shell)
                         ELSE IF k \in children THEN NewProcess(k, pidOf[k], NewKey(parent), shell)
                         ELSE slots[k]
          /\ process_handles'[k] = IF k \in chosen THEN NoProcessHandles
                                   ELSE process_handles[k]
    BY <1>6 DEF Spawn
  <2>2. \A k \in chosen : Fresh(k)
    <3> SUFFICES ASSUME NEW k \in chosen PROVE Fresh(k)
      OBVIOUS
    <3>1. incarnations'[k] = incarnations[k] + 1
      BY <1>1, <1>2, <1>6
    <3>2. NewKey(parent).slot = parent
      BY DEF NewKey
    <3>3. CASE k = parent
      <4>1. slots'[k] = NewProcess(k, pidOf[k], NoKey, shell)
        BY <1>1, <2>1, <3>3
      <4> QED BY <1>1, <3>1, <4>1, NewProcessValue, SMTT(20) DEF Fresh
    <3>4. CASE k # parent
      <4>1. slots'[k] = NewProcess(k, pidOf[k], NewKey(parent), shell)
        BY <1>1, <2>1, <3>4
      <4>2. /\ slots'[k].key = NewKey(k) /\ slots'[k].parent_key = NewKey(parent)
            /\ slots'[k].state = "Ready" /\ ~slots'[k].completed
        BY <4>1, NewProcessValue, SMTT(20)
      <4>3. slots'[k].parent_key.slot # k
        BY <3>2, <3>4, <4>2, Zenon
      <4> QED BY <1>1, <3>1, <4>2, <4>3 DEF Fresh
    <3> QED BY <3>3, <3>4
  <2>3. \A k \in Slots \ chosen : slots'[k] = slots[k] /\ process_handles'[k] = process_handles[k]
    BY <2>1
  <2>4. \A k \in Slots : slots[k] # NoProc =>
            /\ slots'[k] # NoProc /\ SameIdentity(k)
            /\ slots'[k].completed <=> slots[k].completed
            /\ \A reason : SameWait(k, reason)
    BY <1>1, <2>3 DEF SameIdentity, SameWait
  <2>5. \A k \in Slots : slots[k] = NoProc /\ slots'[k] # NoProc => Fresh(k) /\ k \in chosen
    BY <2>2, <2>3
  <2>6. Kinship'
    <3>1. Settled
      BY <2>4, <2>5 DEF Settled
    <3>2. \A k \in Slots, h \in ProcSlots : process_handles'[k][h] # NoCap =>
              /\ process_handles'[k][h] = process_handles[k][h]
              /\ slots'[k] # NoProc /\ SameIdentity(k)
      <4> SUFFICES ASSUME NEW k \in Slots, NEW h \in ProcSlots,
                          process_handles'[k][h] # NoCap
                   PROVE  /\ process_handles'[k][h] = process_handles[k][h]
                          /\ slots'[k] # NoProc /\ SameIdentity(k)
        OBVIOUS
      <4>1. k \notin chosen
        BY <2>1 DEF NoProcessHandles
      <4>2. process_handles'[k] = process_handles[k]
        BY <2>3, <4>1
      <4>3. slots[k] # NoProc
        BY <1>1, <4>2, OwnerIsThere
      <4> QED BY <2>4, <4>2, <4>3
    <3> QED BY <1>1, <1>4, <3>1, <3>2, KinshipKept
  <2>7. \A c, j \in Slots : Fresh(c) /\ slots'[c] # NoProc /\ slots'[j] # NoProc
            /\ slots'[c].parent_key = slots'[j].key => ~slots'[j].completed
    <3> SUFFICES ASSUME NEW c \in Slots, NEW j \in Slots, Fresh(c), slots'[c] # NoProc,
                        slots'[j] # NoProc, slots'[c].parent_key = slots'[j].key
                 PROVE  ~slots'[j].completed
      OBVIOUS
    <3>1. slots'[j].key \in Key /\ slots'[j].key.slot = j
      BY <2>6 DEF TypeOK, Process, Kinship, KeysOwned
    <3>2. c \in chosen
      BY <2>5 DEF Fresh
    <3>3. slots'[c].parent_key \in {NoKey, NewKey(parent)}
      <4>1. CASE c = parent
        BY <1>1, <2>1, <4>1, NewProcessValue
      <4>2. CASE c # parent
        BY <1>1, <2>1, <3>2, <4>2, NewProcessValue, SMTT(20)
      <4> QED BY <4>1, <4>2
    <3>4. j = parent
      BY <3>1, <3>3, NoKeyIsNoKey, SMTT(20) DEF NewKey
    <3> QED BY <2>2, <3>4 DEF Fresh
  <2> QED BY <1>1, <2>4, <2>5, <2>6, <2>7, RestBirth, Zenon
<1> QED BY <1>5, <1>6

\* complete_process_launch with a child: the new handle names a key that no
\* handle named before, of a process whose parent is the owner.
LEMMA RestLaunchSucceeds ==
  ASSUME ManagerInv, TypeOK', NEW i \in Slots, NEW c \in Slots, NEW pid \in Pids,
         NEW h \in ProcSlots, LaunchSucceeds(i, c, pid, h)
  PROVE  Rest
<1> DEFINE entry == [kind |-> "Process", gen |-> next_process_handle, slot |-> h]
           cap == [target |-> NewKey(c), gen |-> next_process_handle]
           child == NewProcess(c, pid, slots[i].key, FALSE)
           q == Resumed(slots[i])
<1>1. /\ TypeOK /\ HoldingsOrderly /\ Kinship /\ KeysOwned
      /\ LaunchActive(i, pending_lifecycle) /\ Live(i)
      /\ slots[i] \in Process /\ slots[i] # NoProc /\ ~slots[i].completed
  BY Zenon DEF ManagerInv, Kinship, LaunchSucceeds, LaunchActive, Live, TypeOK
<1>2. c # i /\ slots[c] = NoProc
  BY <1>1 DEF LaunchSucceeds, AreLowest, FreeSlots, Occupied
<1>3. /\ q \in Process /\ q.key = slots[i].key /\ q.pid = slots[i].pid
      /\ q.parent_key = slots[i].parent_key
      /\ q.supervisor <=> slots[i].supervisor
      /\ q.completed <=> slots[i].completed
      /\ q.state = "Ready" /\ q # NoProc
  BY <1>1, WokenType, WokenValue, NoProcIsNoProcess
<1>4. /\ incarnations' = [incarnations EXCEPT ![c] = incarnations[c] + 1]
      /\ pending_lifecycle' = NoRequest
  BY DEF LaunchSucceeds
<1>5. \A k \in Slots : incarnations[k] \in Nat
  BY <1>1, EndpointConstants DEF TypeOK
<1>6. Aging /\ incarnations'[c] = incarnations[c] + 1
  BY <1>1, <1>4, <1>5 DEF Aging, TypeOK
<1>7. \A k \in Slots \ {i} : ~WaitsOn(slots[k], "ProcessLaunch")
  BY <1>1, WaitsHold, OneLaunchActive, Zenon
<1>8. CASE ~CanRegister(handles[i], entry)
  <2>1. slots' = [slots EXCEPT ![i] = q] /\ process_handles' = process_handles
    BY <1>8 DEF LaunchSucceeds
  <2> HIDE DEF q
  <2>2. /\ Quiet /\ slots'[i] = q
        /\ \A k \in Slots \ {i} : slots'[k] = slots[k] /\ \A reason : SameWait(k, reason)
    BY <1>1, <1>3, <2>1, RecordIsQuiet, Zenon
  <2>3. Kinship' /\ NoOrphanOfSupervisor'
    BY <1>6, <2>1, <2>2, QuietKinship, Zenon
  <2>4. \A reason : ~WaitsOn(slots'[i], reason)
    BY <1>3, <2>2, Zenon DEF WaitsOn
  <2>5. ChildWaitIsLive'
    BY <2>2, <2>4, QuietChildWait, ChildWaitNextState
  <2>6. LaunchNotLost'
    BY <1>7, <2>2, <2>4, LaunchNextState
  <2> QED BY <2>3, <2>5, <2>6 DEF Rest
<1>9. CASE CanRegister(handles[i], entry)
  <2>1. /\ slots' = [slots EXCEPT ![i] = q, ![c] = child]
        /\ process_handles' = [process_handles EXCEPT ![i][h] = cap,
                                                      ![c] = NoProcessHandles]
    BY <1>9, Zenon DEF LaunchSucceeds
  <2>2. /\ child.key = NewKey(c) /\ child.parent_key = slots[i].key
        /\ child.state = "Ready" /\ ~child.completed
    BY DEF NewProcess
  <2>3. cap # NoCap /\ cap.target = NewKey(c)
    <3>1. slots[i].key \in Key /\ incarnations[c] < IncarnationMax
      BY <1>1 DEF Process, LaunchSucceeds
    <3>2. NewKey(c) \in Key
      BY <1>1, <3>1, NewProcessType, Zenon
    <3>3. cap \in ProcessCap
      BY <1>1, <3>2 DEF ProcessCap, TypeOK
    <3> QED BY <3>3, NoCapIsNoProcessCap
  <2> HIDE DEF q, child, cap
  <2>4. /\ slots'[i] = q /\ slots'[c] = child
        /\ \A k \in Slots \ {i, c} : slots'[k] = slots[k]
    BY <1>1, <1>2, <2>1 DEF TypeOK
  <2>5. \A k \in Slots, g \in ProcSlots :
           process_handles'[k][g] = IF k = c THEN NoCap
                                    ELSE IF k = i /\ g = h THEN cap
                                    ELSE process_handles[k][g]
    BY <1>1, <1>2, <2>1, Zenon DEF TypeOK, NoProcessHandles
  <2>6. \A k \in Slots : slots[k] # NoProc =>
            /\ slots'[k] # NoProc /\ SameIdentity(k)
            /\ slots'[k].completed <=> slots[k].completed
            /\ \A reason : SameWait(k, reason)
    <3>1. /\ slots'[i] # NoProc /\ SameIdentity(i)
          /\ slots'[i].completed <=> slots[i].completed
          /\ \A reason : SameWait(i, reason)
      BY <1>1, <1>3, <2>4 DEF SameIdentity, SameWait, WaitsOn
    <3>2. \A k \in Slots \ {i, c} : slots[k] # NoProc =>
            /\ slots'[k] # NoProc /\ SameIdentity(k)
            /\ slots'[k].completed <=> slots[k].completed
            /\ \A reason : SameWait(k, reason)
      BY <2>4 DEF SameIdentity, SameWait
    <3> QED BY <1>2, <3>1, <3>2
  <2>7. Fresh(c)
    <3>1. slots[i].key.slot = i
      BY <1>1 DEF KeysOwned
    <3> QED BY <1>2, <1>6, <2>2, <2>4, <3>1 DEF Fresh
  <2>8. \A k \in Slots : slots[k] = NoProc /\ slots'[k] # NoProc => k = c
    BY <1>1, <2>4
  <2>9. Settled
    BY <2>6, <2>7, <2>8 DEF Settled
  <2>10. KeysOwned'
    BY <1>1, <1>6, <2>9, KeysKept
  <2>11. HandlesPast'
    <3>1. \A k \in Slots, g \in ProcSlots :
             process_handles'[k][g] # NoCap /\ ~(k = i /\ g = h) => PastNext(k, g)
      <4> SUFFICES ASSUME NEW k \in Slots, NEW g \in ProcSlots,
                          process_handles'[k][g] # NoCap, ~(k = i /\ g = h)
                   PROVE  PastNext(k, g)
        BY Zenon
      <4>1. /\ process_handles'[k][g] = process_handles[k][g]
            /\ process_handles[k][g] # NoCap
        BY <2>5
      <4>2. slots[k] # NoProc
        BY <1>1, <4>1, OwnerIsThere, Zenon
      <4>3. SameIdentity(k)
        BY <2>6, <4>2, Zenon
      <4> QED BY <1>1, <1>6, <2>9, <4>1, <4>3, HandleKept, Zenon
    <3>2. PastNext(i, h)
      <4>1. NewKey(c).slot = c /\ NewKey(c).incarnation = incarnations[c] + 1
        BY DEF NewKey
      <4>2. process_handles'[i][h].target = NewKey(c)
        BY <1>2, <2>3, <2>5
      <4>3. incarnations[c] + 1 <= incarnations[c] + 1
        BY <1>5
      <4> QED BY <1>3, <1>6, <2>2, <2>4, <4>1, <4>2, <4>3 DEF PastNext
    <3> QED BY <3>1, <3>2, Zenon DEF HandlesPast, PastNext
  <2>12. HandlesDistinct'
    <3>1. \A k \in Slots, g \in ProcSlots : process_handles[k][g] # NoCap =>
             process_handles[k][g].target # NewKey(c)
      BY <1>1, NewKeyIsAhead
    <3> SUFFICES ASSUME NEW a \in Slots, NEW b \in Slots,
                        NEW e \in ProcSlots, NEW g \in ProcSlots,
                        process_handles'[a][e] # NoCap, process_handles'[b][g] # NoCap,
                        process_handles'[a][e].target = process_handles'[b][g].target
                 PROVE  a = b /\ e = g
      BY DEF HandlesDistinct
    <3>2. \A k \in Slots, f \in ProcSlots : process_handles'[k][f] # NoCap =>
             \/ /\ k = i /\ f = h
                /\ process_handles'[k][f].target = NewKey(c)
             \/ /\ process_handles'[k][f] = process_handles[k][f]
                /\ process_handles[k][f] # NoCap
                /\ process_handles'[k][f].target # NewKey(c)
      BY <2>3, <2>5, <3>1
    <3>3. \A k, l \in Slots, f, d \in ProcSlots :
             /\ process_handles[k][f] # NoCap /\ process_handles[l][d] # NoCap
             /\ process_handles[k][f].target = process_handles[l][d].target
             => k = l /\ f = d
      BY <1>1, SMTT(20) DEF Kinship, HandlesDistinct
    <3>4. CASE process_handles'[a][e].target = NewKey(c)
      BY <3>2, <3>4, Zenon
    <3>5. CASE process_handles'[a][e].target # NewKey(c)
      <4>1. /\ process_handles'[a][e] = process_handles[a][e]
            /\ process_handles[a][e] # NoCap
        BY <3>2, <3>5, Zenon
      <4>2. /\ process_handles'[b][g] = process_handles[b][g]
            /\ process_handles[b][g] # NoCap
        BY <3>2, <3>5, Zenon
      <4> QED BY <3>3, <4>1, <4>2, SMTT(20)
    <3> QED BY <3>4, <3>5, Zenon
  <2>13. \A b, j \in Slots : Fresh(b) /\ slots'[b] # NoProc /\ slots'[j] # NoProc
            /\ slots'[b].parent_key = slots'[j].key => ~slots'[j].completed
    <3> SUFFICES ASSUME NEW b \in Slots, NEW j \in Slots, Fresh(b), slots'[b] # NoProc,
                        slots'[j] # NoProc, slots'[b].parent_key = slots'[j].key
                 PROVE  ~slots'[j].completed
      OBVIOUS
    <3>1. b = c
      BY <2>8 DEF Fresh
    <3>2. slots'[j].key = slots'[i].key
      BY <1>3, <2>2, <2>4, <3>1
    <3>3. j = i
      BY <1>3, <2>4, <2>10, <3>2, SMTT(20) DEF KeysOwned
    <3> QED BY <1>1, <1>3, <2>4, <3>3, Zenon
  <2>14. \A k \in Slots : ~WaitsOn(slots'[k], "ProcessLaunch")
    <3>1. ~WaitsOn(slots'[i], "ProcessLaunch") /\ ~WaitsOn(slots'[c], "ProcessLaunch")
      BY <1>3, <2>2, <2>4 DEF WaitsOn
    <3> QED BY <1>7, <2>4, <3>1
  <2>15. Kinship'
    BY <2>10, <2>11, <2>12 DEF Kinship
  <2> QED BY <2>6, <2>7, <2>8, <2>13, <2>14, <2>15, RestBirth
<1> QED BY <1>8, <1>9

-----------------------------------------------------------------------------
(* The theorems.                                                           *)

\* The inductive invariant holds initially.
LEMMA ManagerInit == Init => ManagerInv
<1> SUFFICES ASSUME Init PROVE ManagerInv
  OBVIOUS
<1>1. /\ \A i \in Slots : slots[i] = NoProc
      /\ \A i \in Slots, h \in ProcSlots : process_handles[i][h] = NoCap
  BY DEF Init, NoProcessHandles
<1>2. Kinship
  BY <1>1 DEF Kinship, KeysOwned, HandlesPast, HandlesDistinct
<1>3. ChildWaitIsLive /\ LaunchNotLost /\ NoOrphanOfSupervisor
  BY <1>1 DEF ChildWaitIsLive, LaunchNotLost, NoOrphanOfSupervisor, Live
<1> QED BY <1>2, <1>3, TypeInit, HoldingsInit DEF ManagerInv

\* Every step keeps it.
LEMMA ManagerNext == ManagerInv /\ [Next]_vars => ManagerInv'
<1> SUFFICES ASSUME ManagerInv, [Next]_vars PROVE Rest
  BY TypeNext, HoldingsNext DEF ManagerInv, Rest
<1>0. TypeOK'
  BY TypeNext DEF ManagerInv
<1>1. CASE SpawnShell
  <2>1. PICK s \in FreeSlots : \E pidOf \in [{s} -> FreshPids], built \in BOOLEAN :
           Spawn(s, {}, pidOf, TRUE, built)
    BY <1>1, Zenon DEF SpawnShell
  <2>2. PICK pidOf \in [{s} -> FreshPids], built \in BOOLEAN :
           Spawn(s, {}, pidOf, TRUE, built)
    BY <2>1, Zenon
  <2>3. pidOf \in [{s} \cup {} -> FreshPids] /\ {} \in SUBSET (FreeSlots \ {s})
    BY <2>2, {s} \cup {} = {s}
  <2> QED BY <1>0, <2>2, <2>3, RestSpawn, Zenon
<1>2. CASE SpawnFamily
  BY <1>0, <1>2, RestSpawn, Zenon DEF SpawnFamily
<1>3. CASE UNCHANGED vars
  BY <1>0, <1>3, StillStep DEF vars
<1>4. ASSUME NEW i \in Slots, Kill(i) PROVE Rest
  BY <1>0, <1>4, RestTerminate DEF Kill, Live, TerminalStates
<1>5. ASSUME NEW i \in Slots, NEW final \in {"Exited", "Faulted"}, Exit(i, final)
      PROVE Rest
  BY <1>0, <1>5, RestTerminate DEF Exit, Runs, Live, TerminalStates
<1>6. ASSUME NEW i \in Slots, NEW h \in ProcSlots, NEW t \in Slots,
             ControlledKill(i, h, t)
      PROVE Rest
  BY <1>0, <1>6, RestTerminate DEF ControlledKill, Live, TerminalStates
<1>7. CASE Lifecycle
  BY <1>7, <1>0, <1>1, <1>2, <1>4, <1>5, <1>6, RestDrop, RestWait, RestReap, RestWaitChild,
     RestRequest, RestLaunchFails, RestLaunchSucceeds DEF Lifecycle
<1>8. ASSUME NEW i \in Slots, NEW s \in CapSlots,
             CreateEndpoint(i, s) \/ \E t \in Slots : ConnectEndpoint(i, s, t)
      PROVE Rest
  BY <1>0, <1>8, StillStep, Zenon DEF CreateEndpoint, ConnectEndpoint, EndpointStep
<1>9. ASSUME NEW i \in Slots, NEW h \in Handle, CloseEndpoint(i, h)
      PROVE Rest
  BY <1>0, <1>9, StillStep, Zenon DEF CloseEndpoint, EndpointStep
<1>10. CASE Messaging
  BY <1>10, <1>0, <1>8, <1>9, RestSend, RestReceive DEF Messaging
<1> QED BY <1>3, <1>7, <1>10 DEF Next

\* The inductive invariant of the process manager: the keys are owned by their
\* slots, the handles name past or present children of their owner, and what
\* every slot holds agrees with its registry.
THEOREM ManagerInvariant == Spec => []ManagerInv
BY ManagerInit, ManagerNext, PTL DEF Spec

\* Nobody waits for what can no longer come: a blocked process waits for a
\* message, a child or a launch that is still to be delivered to it.
THEOREM BlockedIsAlwaysWoken == Spec => []BlockedIsWoken
<1>1. ManagerInv => BlockedIsWoken
  BY HoldingsAreInvariants DEF ManagerInv, BlockedIsWoken
<1> QED BY <1>1, ManagerInvariant, PTL

\* An endpoint never holds two messages of one producer nor more than its
\* capacity, and none when nothing is published.
THEOREM QueuesStayFair == Spec => []FairQueue
<1>1. ManagerInv => FairQueue
  BY HoldingsAreInvariants DEF ManagerInv
<1> QED BY <1>1, ManagerInvariant, PTL

\* handle_table_is_consistent, in every reachable state.
THEOREM RegistryAlwaysAgrees == Spec => []RegistryAgrees
<1>1. ManagerInv => RegistryAgrees
  BY HoldingsAreInvariants DEF ManagerInv
<1> QED BY <1>1, ManagerInvariant, PTL

\* Whatever a process handle controls is a child its owner launched, and no
\* other handle controls it, however often slots and pids are reused.
THEOREM HandlesControlOwnChildren == Spec => []HandleControlsOwnChild
<1>1. ManagerInv => HandleControlsOwnChild
  <2> SUFFICES ASSUME ManagerInv, NEW i \in Slots, NEW t \in Slots, NEW h \in ProcSlots,
                      Controls(i, h, t)
               PROVE  /\ slots[t].parent_key = slots[i].key
                      /\ \A j \in Slots, g \in ProcSlots :
                           Controls(j, g, t) => j = i /\ g = h
    BY Zenon DEF HandleControlsOwnChild
  <2>1. /\ KeysOwned /\ HandlesPast /\ HandlesDistinct
    BY Zenon DEF ManagerInv, Kinship
  <2>2. \A j \in Slots, g \in ProcSlots : Controls(j, g, t) =>
          /\ process_handles[j][g] # NoCap
          /\ slots[t] # NoProc /\ process_handles[j][g].target = slots[t].key
    BY Zenon DEF Controls
  <2>3. slots[t].key.slot = t
    BY <2>1, <2>2, Zenon DEF KeysOwned
  <2>4. slots[t].parent_key = slots[i].key
    <3> DEFINE target == process_handles[i][h].target
    <3>1. target = slots[t].key /\ process_handles[i][h] # NoCap /\ slots[t] # NoProc
      BY <2>2, Zenon
    <3>2. slots[target.slot] # NoProc /\ slots[target.slot].key = target
             => slots[target.slot].parent_key = slots[i].key
      BY <2>1, <3>1, Zenon DEF HandlesPast
    <3> QED BY <2>3, <3>1, <3>2
  <2>5. \A j \in Slots, g \in ProcSlots : Controls(j, g, t) => j = i /\ g = h
    BY <2>1, <2>2 DEF HandlesDistinct
  <2> QED BY <2>4, <2>5
<1> QED BY <1>1, ManagerInvariant, PTL

\* A process that has ended holds nothing and leaves no supervised child.
THEOREM EndedAlwaysLeavesNothing == Spec => []EndedLeavesNothing
<1>1. ManagerInv => EndedLeavesNothing
  BY HoldingsAreInvariants DEF ManagerInv, EndedLeavesNothing
<1> QED BY <1>1, ManagerInvariant, PTL
=============================================================================
