------------------------------ MODULE Dispatch ------------------------------
(* One iteration of the kernel loop: it reads the logical clock, hands one   *)
(* typed key to a waiting process, and, when the clock moved, lets the       *)
(* coordinator complete the pending requests and run one slice of one        *)
(* process.  The slice is published in a context slot; a system call, the    *)
(* timer or a fault ends it and leaves an event for the dispatcher.          *)
(*                                                                           *)
(* Only distances between ticks matter, so a tick is kept as its distance    *)
(* from the clock: lag is how far the tick of this iteration lies behind,    *)
(* a deadline how far it lies ahead.  Both are cut at MaxLag behind.         *)
EXTENDS Integers, FiniteSets, Sequences, SequencesExt

CONSTANTS
    N,              \* process slots
    WakeBudget,     \* SOCKET_WAIT_WAKE_BUDGET
    BatchCapacity,  \* MAX_RUNTIME_EVENTS
    FallbackPeriod, \* FALLBACK_POLL_PERIOD
    MaxSleep,       \* longest sleep and longest socket wait
    MaxLag,         \* ticks that one iteration may last
    Consoles,       \* slots whose process owns the console
    Masks,          \* sets of input kinds a process may wait for
    Calls,          \* system calls the programs make, and "fault"
    Returns,        \* frames they are interrupted in: "bounded", "stray"
    NoValue

VARIABLES
    procs,          \* the managed processes, by slot
    current,        \* CURRENT_PROCESS, the context slot
    root,           \* owner of the active address space
    clock,          \* [seen, phase]: hardware_seen and fallback_phase
    loop,           \* [pc, lag, since, events, left]: the iteration, its tick and its scan
    schedule, socket_wait_schedule,     \* cursors of the two round robins
    pending,        \* request kind -> slot that waits in the coordinator
    dropped,        \* history: a request or an event was overwritten
    passed,         \* history: slices others got while this slot was ready
    skipped,        \* history: passes that left this due waiter asleep
    slice           \* history: timer ticks of the slice since it was armed

vars == <<procs, current, root, clock, loop, schedule, socket_wait_schedule, pending,
          dropped, passed, skipped, slice>>

Slots == 0..(N - 1)
Kinds == {"vfs", "lifecycle", "socket"}

(***************************************************************************)
(* Processes                                                               *)
(***************************************************************************)
UserProcess ==
    [state |-> "Ready", blocked_on |-> "None", wake_at |-> NoValue,
     pending_socket_wait |-> NoValue, pending_input |-> NoValue,
     preemption_armed |-> FALSE, readable |-> FALSE, context |-> "bounded"]

Live(p) == procs[p] # NoValue
Waits(q, reason) == q.state = "Waiting" /\ q.blocked_on = reason
Terminal == [UserProcess EXCEPT !.state = "Ended"]

\* Mutant: the answered input wait stays recorded.
ResumeOnly(q) ==
    [q EXCEPT !.state = "Ready", !.blocked_on = "None", !.wake_at = NoValue,
              !.pending_socket_wait = NoValue]

Resume(q) ==
    [q EXCEPT !.state = "Ready", !.blocked_on = "None", !.wake_at = NoValue,
              !.pending_socket_wait = NoValue, !.pending_input = NoValue]

Block(q, reason) == [q EXCEPT !.state = "Waiting", !.blocked_on = reason]

(***************************************************************************)
(* RoundRobin: a scan starts after the last selected slot.                  *)
(***************************************************************************)
scan(last) == [i \in 1..N |-> (last + i) % N]

\* The ready slots among the first steps of a scan, and the steps to a slot.
ReadyOf(ps, last, steps) ==
    SelectSeq(SubSeq(scan(last), 1, steps),
              LAMBDA p : ps[p] # NoValue /\ ps[p].state = "Ready")

Steps(last, p) == ((p + N - last - 1) % N) + 1

(***************************************************************************)
(* Clock                                                                   *)
(***************************************************************************)
Floor(d) == IF d < -MaxLag THEN -MaxLag ELSE d

\* The clock advances by one: every deadline comes closer.
Elapse(ps) ==
    [p \in Slots |->
        IF ps[p] = NoValue THEN NoValue
        ELSE [ps[p] EXCEPT
                !.wake_at = IF @ = NoValue THEN @ ELSE Floor(@ - 1),
                !.pending_socket_wait = IF @ = NoValue THEN @ ELSE Floor(@ - 1)]]

Later(n) == IF n > MaxLag THEN n ELSE n + 1

\* Mutant: only the very tick of the deadline counts.
DueExactly(deadline) == deadline + loop.lag = 0

\* tick >= deadline, for the tick of this iteration.
Due(deadline) == deadline + loop.lag <= 0

\* tick.saturating_add(ticks)
Deadline(ticks) == ticks - loop.lag

(***************************************************************************)
(* Waking                                                                  *)
(***************************************************************************)
wake_sleepers(ps) ==
    [p \in Slots |->
        IF ps[p] # NoValue /\ ps[p].state = "Sleeping" /\ Due(ps[p].wake_at)
        THEN Resume(ps[p]) ELSE ps[p]]

DueWaiter(q) ==
    /\ q # NoValue /\ Waits(q, "Socket") /\ q.pending_socket_wait # NoValue
    /\ q.readable \/ Due(q.pending_socket_wait)

\* At most WakeBudget due waiters, in the order of the scan.
Woken(ps) ==
    LET due == SelectSeq(scan(socket_wait_schedule), LAMBDA p : DueWaiter(ps[p]))
    IN  SubSeq(due, 1, IF Len(due) < WakeBudget THEN Len(due) ELSE WakeBudget)

LastWoken(woken) == IF woken = <<>> THEN socket_wait_schedule ELSE Last(woken)

wake_socket_waiters(ps, woken) ==
    [p \in Slots |-> IF Contains(woken, p) THEN Resume(ps[p]) ELSE ps[p]]

(***************************************************************************)
(* The kernel loop                                                         *)
(***************************************************************************)
Init ==
    /\ procs = [p \in Slots |-> IF p \in Consoles THEN UserProcess ELSE NoValue]
    /\ current = NoValue /\ root = "kernel"
    /\ clock = [seen |-> FALSE, phase |-> 0]
    /\ loop = [pc |-> "loop", lag |-> 0, since |-> 1, events |-> 0, left |-> 0]
    /\ schedule = 0 /\ socket_wait_schedule = 0
    /\ pending = [k \in Kinds |-> NoValue]
    /\ dropped = FALSE
    /\ passed = [p \in Slots |-> 0] /\ skipped = [p \in Slots |-> 0] /\ slice = 0

console_process_active == \E p \in Consoles : Live(p) /\ procs[p].state # "Ended"

\* Polling moves the clock only until the first hardware tick.
poll_fallback ==
    LET phase == (clock.phase + 1) % FallbackPeriod
        moves == ~clock.seen /\ phase = 0
    IN  /\ loop.pc = "loop" /\ console_process_active
        /\ clock' = IF clock.seen THEN clock ELSE [clock EXCEPT !.phase = phase]
        /\ procs' = IF moves THEN Elapse(procs) ELSE procs
        /\ LET since == IF moves THEN Later(loop.since) ELSE loop.since
           IN  loop' = [loop EXCEPT !.since = since, !.lag = 0, !.events = 0,
                                    !.pc = IF since # 0 THEN "advance" ELSE "loop"]
        /\ UNCHANGED <<current, root, schedule, socket_wait_schedule, pending, dropped,
                       passed, skipped, slice>>

InputWaiter(p, kind, console_only) ==
    /\ Live(p) /\ Waits(procs[p], "Input") /\ kind \in procs[p].pending_input
    /\ console_only => p \in Consoles

\* The first waiter of this kind of event gets it.
deliver_input_owned(kind, console_only) ==
    /\ loop.pc \in {"loop", "advance"}
    /\ \E p \in Slots :
          /\ InputWaiter(p, kind, console_only)
          /\ \A q \in 0..(p - 1) : ~InputWaiter(q, kind, console_only)
          /\ procs' = [procs EXCEPT ![p] = Resume(@)]
    /\ UNCHANGED <<current, root, clock, loop, schedule, socket_wait_schedule, pending,
                   dropped, passed, skipped, slice>>

\* The network marks a socket readable.
segment_arrives(p) ==
    /\ loop.pc = "advance" /\ Live(p) /\ procs[p].state # "Ended" /\ ~procs[p].readable
    /\ procs' = [procs EXCEPT ![p].readable = TRUE]
    /\ UNCHANGED <<current, root, clock, loop, schedule, socket_wait_schedule, pending,
                   dropped, passed, skipped, slice>>

\* The requests of the last slices are completed: files and launches at
\* once, the client transport when the network is done with it.
Served(kind) == pending[kind] # NoValue /\ Live(pending[kind])

Complete(ps, done, child) ==
    [p \in Slots |->
        IF p = child THEN UserProcess
        ELSE IF \E k \in {"vfs", "lifecycle"} : pending[k] = p /\ ps[p] # NoValue /\ Waits(ps[p], "Service")
        THEN Resume(ps[p])
        ELSE IF done /\ pending["socket"] = p /\ ps[p] # NoValue /\ ps[p].state # "Ended" THEN [ps[p] EXCEPT !.readable = TRUE]
        ELSE ps[p]]

\* A launch takes a free slot, or fails.
Children ==
    {NoValue} \cup (IF Served("lifecycle") THEN {p \in Slots : ~Live(p)} ELSE {})

Passing(p) ==
    [q \in Slots |-> IF q # p /\ procs'[q] # NoValue /\ procs'[q].state = "Ready"
                     THEN passed[q] + 1 ELSE 0]

\* A frame is bounded when it returns to user mode inside the program and its
\* stack.
valid_return_context(frame) == frame = "bounded"

\* The slot takes the process only when it is empty, then its address space
\* is activated and the saved context entered.  Interrupts are masked from
\* the check of the context until the program runs, so that nothing observes
\* the steps between.  A context that may not be returned to, and a slot that
\* is taken, stop the kernel.
Enter(p, entered) ==
    IF valid_return_context(procs'[p].context) /\ current = NoValue
    THEN current' = p /\ root' = p /\ slice' = 0 /\ loop' = entered
    ELSE /\ loop' = [entered EXCEPT !.pc = "halted"]
         /\ UNCHANGED <<current, root, slice>>

run_slice(p, entered) ==
    Enter(p, entered) /\ schedule' = p /\ passed' = Passing(p)

NoSlice ==
    /\ UNCHANGED <<current, root, schedule, slice>>
    /\ passed' = [q \in Slots |-> 0]

\* advance up to the slice: complete, wake, select.
advance ==
    /\ loop.pc = "advance"
    /\ \E done \in BOOLEAN, child \in Children :
         LET stale == pending["socket"] # NoValue
                        /\ (~Live(pending["socket"]) \/ procs[pending["socket"]].state = "Ended")
             completed == Complete(procs, done, child)
             woken == Woken(completed)
             awake == wake_sleepers(wake_socket_waiters(completed, woken))
             ready == ReadyOf(awake, schedule, N)
             events == Cardinality({k \in {"vfs", "lifecycle"} : Served(k)})
                         + (IF done /\ ~stale THEN 1 ELSE 0)
         IN  /\ done => pending["socket"] # NoValue
             /\ stale => done
             /\ procs' = awake
             /\ socket_wait_schedule' = LastWoken(woken)
             /\ skipped' = [p \in Slots |->
                               IF DueWaiter(completed[p]) /\ ~Contains(woken, p)
                               THEN skipped[p] + 1 ELSE 0]
             /\ pending' = [k \in Kinds |->
                               IF k = "socket" /\ ~done THEN pending[k] ELSE NoValue]
             /\ IF ready = <<>>
                THEN /\ NoSlice
                     /\ loop' = [loop EXCEPT !.pc = "loop", !.since = loop.lag]
                ELSE run_slice(Head(ready),
                               [loop EXCEPT !.pc = "user", !.events = events,
                                            !.left = N - Steps(schedule, Head(ready))])
    /\ UNCHANGED <<clock, dropped>>

\* Without its console the kernel leaves the loop for good.
halt ==
    /\ loop.pc = "loop" /\ ~console_process_active
    /\ loop' = [loop EXCEPT !.pc = "halted"]
    /\ UNCHANGED <<procs, current, root, clock, schedule, socket_wait_schedule, pending,
                   dropped, passed, skipped, slice>>

(***************************************************************************)
(* The end of a slice: the rest of poll and of advance.  A request goes to  *)
(* the coordinator, one place for each kind; a second socket request is     *)
(* refused.                                                                 *)
(***************************************************************************)
EndSlice(ps, lag, request) ==
    LET full == request = "socket" /\ pending["socket"] # NoValue
        events == loop.events + (IF full THEN 2 ELSE 1)
    IN  /\ procs' = ps
        /\ current' = NoValue /\ root' = "kernel"
        /\ pending' = IF request = NoValue \/ full THEN pending
                      ELSE [pending EXCEPT ![request] = current]
        /\ dropped' = (dropped \/ events > BatchCapacity
                         \/ (request \in {"vfs", "lifecycle"} /\ pending[request] # NoValue))
        /\ loop' = [pc |-> "loop", lag |-> 0, since |-> lag, events |-> 0, left |-> 0]
        /\ UNCHANGED <<schedule, socket_wait_schedule, passed, skipped, slice>>

Runs(call) == loop.pc = "user" /\ call \in Calls

\* Mutant: only the address space is looked at.
ActiveRoot(frame) == root = current

valid_user_frame(frame) == valid_return_context(frame) /\ root = current

\* A call and the timer find the program in any frame.  One that may be
\* returned to is saved as the context of the next slice, and the outcome ps
\* stands; any other ends the process instead.
Leave(frame, ps) ==
    IF valid_user_frame(frame) THEN [ps EXCEPT ![current].context = frame]
    ELSE [procs EXCEPT ![current] = Terminal]

Call(ps, request) ==
    /\ \E frame \in Returns :
         EndSlice(Leave(frame, ps), loop.lag,
                  IF valid_user_frame(frame) THEN request ELSE NoValue)
    /\ UNCHANGED clock

Event(q, request) == Call([procs EXCEPT ![current] = q], request)

Ready == procs[current]

\* Calls that answer without leaving the program; the first one that asks for
\* the version of the interface arms preemption.
abi_version ==
    /\ Runs("abi_version") /\ ~Ready.preemption_armed
    /\ procs' = [procs EXCEPT ![current].preemption_armed = TRUE]
    /\ slice' = 0
    /\ UNCHANGED <<current, root, clock, loop, schedule, socket_wait_schedule, pending,
                   dropped, passed, skipped>>

\* Calls that the dispatcher answers at once: the program stays ready.
yield == Runs("yield") /\ Event(Ready, NoValue)

\* A console call without the console: its slice ends, no update is reported,
\* and the scan goes on to the next ready process.
console_refused ==
    /\ Runs("console") /\ current \notin Consoles
    /\ procs' = Leave("bounded", procs)
    /\ current' = NoValue /\ root' = "kernel"
    /\ loop' = [loop EXCEPT !.pc = "scan"]
    /\ UNCHANGED <<clock, schedule, socket_wait_schedule, pending, dropped, passed,
                   skipped, slice>>

scan_on ==
    LET rest == ReadyOf(procs, schedule, loop.left)
    IN  /\ loop.pc = "scan"
        /\ UNCHANGED <<procs, clock, socket_wait_schedule, pending, dropped, skipped>>
        /\ IF rest = <<>>
           THEN /\ loop' = [pc |-> "loop", lag |-> 0, since |-> loop.lag, events |-> 0,
                            left |-> 0]
                /\ UNCHANGED <<current, root, schedule, passed, slice>>
           ELSE run_slice(Head(rest),
                          [loop EXCEPT !.pc = "user",
                                       !.left = @ - Steps(schedule, Head(rest))])

block_sleep(ticks) ==
    /\ Runs("sleep")
    /\ Event([Ready EXCEPT !.state = "Sleeping", !.wake_at = Deadline(ticks)], NoValue)

OtherWaiter ==
    \E p \in Slots \ {current} : Live(p) /\ Waits(procs[p], "Input")

block_input(mask) ==
    /\ Runs("wait_input")
    /\ Event(IF OtherWaiter THEN Ready
             ELSE [Block(Ready, "Input") EXCEPT !.pending_input = mask], NoValue)

complete_socket_wait(ticks) ==
    /\ Runs("socket_wait")
    /\ Event(IF Ready.readable THEN Ready
             ELSE [Block(Ready, "Socket") EXCEPT !.pending_socket_wait = Deadline(ticks)],
             NoValue)

complete_socket_receive ==
    Runs("socket_receive") /\ Event([Ready EXCEPT !.readable = FALSE], NoValue)

complete_socket_send == Runs("socket_send") /\ Event(Ready, "socket")

block_vfs == Runs("vfs") /\ Event(Block(Ready, "Service"), "vfs")

block_process_launch ==
    /\ Runs("launch") /\ current \in Consoles
    /\ Event(Block(Ready, "Service"), "lifecycle")

complete_controlled_kill ==
    /\ Runs("kill") /\ current \in Consoles
    /\ \E t \in Slots \ {current} :
         /\ Live(t) /\ procs[t].state # "Ended"
         /\ Call([procs EXCEPT ![t] = Terminal], NoValue)

complete_controlled_reap ==
    /\ Runs("reap") /\ current \in Consoles
    /\ \E t \in Slots \ {current} :
         /\ Live(t) /\ procs[t].state = "Ended"
         /\ Call([procs EXCEPT ![t] = NoValue], NoValue)

\* An exception, and the call of exit: the dispatcher finds the process over.
Over(call) ==
    /\ Runs(call)
    /\ EndSlice([procs EXCEPT ![current] = Terminal], loop.lag, NoValue)
    /\ UNCHANGED clock

terminate_current_fault == Over("fault")
complete_terminal == Over("exit")

(***************************************************************************)
(* The timer interrupt: the clock, then the program that runs, if armed.    *)
(***************************************************************************)
hardware_tick == clock' = [seen |-> TRUE, phase |-> 0]

Preempts == loop.pc = "user" /\ procs[current].preemption_armed

\* The program has not asked for the version of the interface yet: the timer
\* comes back to it.
Unarmed == loop.pc = "user" /\ ~procs[current].preemption_armed

\* A pass, and an unarmed program, last at most MaxLag ticks.
genos_irq0 ==
    /\ loop.pc # "halted"
    /\ loop.pc \in {"advance", "scan"} \/ Unarmed => loop.lag < MaxLag
    /\ hardware_tick
    /\ IF Preempts
       THEN \E frame \in Returns :
               EndSlice(Elapse(Leave(frame, procs)), loop.lag + 1, NoValue)
       ELSE /\ procs' = Elapse(procs)
            /\ loop' = [loop EXCEPT !.since = Later(@), !.lag = IF loop.pc = "loop" THEN 0 ELSE @ + 1]
            /\ slice' = IF loop.pc = "user" THEN slice + 1 ELSE slice
            /\ UNCHANGED <<current, root, schedule, socket_wait_schedule, pending,
                           dropped, passed, skipped>>

Next ==
    \/ poll_fallback \/ advance \/ halt \/ genos_irq0
    \/ \E kind \in UNION Masks, console_only \in BOOLEAN : deliver_input_owned(kind, console_only)
    \/ \E p \in Slots : segment_arrives(p)
    \/ abi_version \/ yield \/ console_refused \/ scan_on
    \/ terminate_current_fault
    \/ \E ticks \in 1..MaxSleep : block_sleep(ticks) \/ complete_socket_wait(ticks)
    \/ \E mask \in Masks : block_input(mask)
    \/ complete_socket_receive \/ complete_socket_send
    \/ block_vfs \/ block_process_launch
    \/ complete_controlled_kill \/ complete_controlled_reap \/ complete_terminal

Spec == Init /\ [][Next]_vars
(***************************************************************************)
(* Properties                                                              *)
(***************************************************************************)
\* The round robins serve in turn (RoundRobin, poll, wake_socket_waiters):
\* while a process is ready every other one runs at most once, and a socket
\* waiter whose answer is due is passed over only as often as the budget of
\* each pass makes necessary.
BoundedService ==
    \A p \in Slots : passed[p] < N /\ skipped[p] * WakeBudget < N

\* The context slot (run_slice, with_current_process): while a program runs,
\* and only then, its ready process is published under its own address
\* space, and no tick of the timer passes over an armed one; wherever
\* programs leave their frames, every context a process resumes from is one
\* it may be returned to, so that the kernel stops only with its console.
SliceIsOwned ==
    /\ loop.pc = "user" <=> current # NoValue
    /\ root = (IF current = NoValue THEN "kernel" ELSE current)
    /\ current # NoValue =>
         /\ Live(current) /\ procs[current].state = "Ready"
         /\ procs[current].preemption_armed => slice = 0
    /\ \A p \in Slots : Live(p) => valid_return_context(procs[p].context)
    /\ loop.pc = "halted" => ~console_process_active

\* No wake-up is lost: whatever a suspended process waits for is recorded
\* where the wake-up looks for it, in the process or in the coordinator,
\* whose single places and fixed batch are never overrun (advance,
\* RuntimeBatch::push); and typed input has at most one taker (block_input).
WaitsAreHeld ==
    /\ ~dropped
    /\ \A p \in Slots : Live(p) =>
         LET q == procs[p]
         IN  /\ q.state = "Sleeping" <=> q.wake_at # NoValue
             /\ Waits(q, "Socket") <=> q.pending_socket_wait # NoValue
             /\ Waits(q, "Input") <=> q.pending_input # NoValue
             /\ Waits(q, "Service") <=> p \in {pending["vfs"], pending["lifecycle"]}
    /\ Cardinality({p \in Slots : Live(p) /\ Waits(procs[p], "Input")}) <= 1

\* What must happen: a ready process runs, a sleeper and a socket waiter
\* wake, unless the process ends or the kernel leaves its loop.
Runnable(p) == Live(p) /\ procs[p].state = "Ready" /\ current # p
Suspended(p) == Live(p) /\ (procs[p].state = "Sleeping" \/ Waits(procs[p], "Socket"))
Halted == loop.pc = "halted"
=============================================================================
