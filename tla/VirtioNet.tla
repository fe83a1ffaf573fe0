----------------------------- MODULE VirtioNet -----------------------------
(***************************************************************************)
(* The modern VirtIO network driver of network_device.rs: the handshake    *)
(* that brings the device up, the ownership of the receive descriptors     *)
(* (rx_queue.rs) and of the single transmit buffer (tx_queue.rs), and the  *)
(* two ways an MSI-X interrupt reaches the driver.                         *)
(*                                                                         *)
(* The driver runs in steps at every point where the device, which runs    *)
(* concurrently, can see or change shared memory.  The device is external. *)
(***************************************************************************)
EXTENDS Naturals, Sequences, FiniteSets

CONSTANTS
    N,              \* VIRTQUEUE_SIZE
    W,              \* the indices are u16: they wrap at W, a multiple of N
    POLL_LIMIT, RECOVERY_POLL_INTERVAL,
    MaxFrames,      \* bound: frames the wire delivers
    MaxSends,       \* bound: transmit calls
    Lossy,          \* an MSI-X message may be lost
    Rogue           \* the device may complete what it likes, once and as its last step

ASSUME VirtioNetAssumption ==
    /\ N \in Nat \ {0} /\ W \in Nat /\ W > N /\ W % N = 0
    /\ POLL_LIMIT \in Nat /\ RECOVERY_POLL_INTERVAL \in Nat \ {0}
    /\ Lossy \in BOOLEAN /\ Rogue \in BOOLEAN

VARIABLES
    drv,        \* struct VirtioNet, with the stage of init()
    cpu,        \* the call in progress and its locals
    mem,        \* VirtioDmaMemory as the driver writes it
    dev,        \* the device: status register, rings it writes, descriptors it holds
    flags,      \* VIRTIO_INTERRUPT_EPOCH and VIRTIO_INTERRUPT_PENDING
    hist        \* what was received, delivered, transmitted and reported sent

vars == <<drv, cpu, mem, dev, flags, hist>>

Descriptors == 0..(N - 1)
Lengths == {"short", "frame", "oversize", "beyond"}  \* <12, <=12+1518, <=2048, >2048
Entries == [descriptor : 0..N, length : Lengths]
EMPTY == [descriptor |-> 0, length |-> "short"]

-----------------------------------------------------------------------------
(* rx_queue.rs *)

RxBatch(used) == [used |-> used, entries |-> <<>>, cursor |-> 0, quarantined |-> FALSE]

Pending(rx) == rx.cursor < Len(rx.entries)

Distance(from, to) == (to + W - from) % W

Valid(rx, end, entries) ==
    /\ Distance(rx.used, end) <= N
    /\ Len(entries) = Distance(rx.used, end)
    /\ \A i \in 1..Len(entries) : /\ entries[i].descriptor \in Descriptors
                                   /\ entries[i].length \in {"frame", "oversize"}
    /\ \A i, j \in 1..Len(entries) :
           entries[i].descriptor = entries[j].descriptor => i = j

admit(rx, end, entries) ==
    IF Valid(rx, end, entries)
      THEN [rx EXCEPT !.entries = entries, !.cursor = 0]
      ELSE [rx EXCEPT !.quarantined = TRUE]

TakeSkipsUsed(rx) == [rx EXCEPT !.cursor = @ + 1]

\* The completion that take() returns is entries[cursor] of the result.
take(rx) == [rx EXCEPT !.cursor = @ + 1, !.used = (@ + 1) % W]

-----------------------------------------------------------------------------
(* tx_queue.rs *)

TxQueue == [phase |-> "Idle", available |-> 0, used |-> 0]

begin(tx) == [tx EXCEPT !.phase = "Device", !.available = (@ + 1) % W]

complete(tx, used, descriptor) ==
    IF tx.phase = "Device" /\ Distance(tx.used, used) = 1 /\ descriptor = 0
      THEN [tx EXCEPT !.used = used, !.phase = "Idle"]
      ELSE [tx EXCEPT !.phase = "Quarantined"]

-----------------------------------------------------------------------------
Quarantined == drv.rx.quarantined \/ drv.tx.phase = "Quarantined"

Idle == [at |-> "idle"]

Init ==
    /\ drv = [stage |-> "discover", rx_available |-> 0, rx |-> RxBatch(0),
              tx |-> TxQueue, idle_checks |-> 0]
    /\ cpu = Idle
    /\ mem = [ring |-> [i \in Descriptors |-> 0], available |-> 0,
              buffers |-> [i \in Descriptors |-> 0], tx_available |-> 0, tx_buffer |-> 0]
    /\ dev = [status |-> {}, enabled |-> {}, seen |-> 0, held |-> {}, used |-> 0,
              ring |-> [i \in Descriptors |-> EMPTY], tx_used |-> 0, tx_id |-> 0,
              irq |-> FALSE, lost |-> FALSE, rogue |-> FALSE]
    /\ flags = [epoch |-> 0, pending |-> FALSE]
    /\ hist = [arrived |-> <<>>, delivered |-> <<>>, begun |-> 0, sent |-> <<>>,
               reported |-> <<>>]

(***************************************************************************)
(* init(): each stage answers ok or refuses.  fail() marks the device      *)
(* FAILED once its registers are known and leaves everything else as it    *)
(* is; discover() then tries the NE2000.                                   *)
(***************************************************************************)
NextStage == [reset |-> "features", features |-> "config", config |-> "msix",
              msix |-> "rx_queue", rx_queue |-> "tx_queue", tx_queue |-> "start"]

fail(d) == [d EXCEPT !.status = @ \union {"FAILED"}]

\* The PCI functions and capabilities init() needs are there, or they are not.
Discover ==
    /\ drv.stage = "discover"
    /\ drv' \in {[drv EXCEPT !.stage = s] : s \in {"reset", "ne2000"}}
    /\ UNCHANGED <<cpu, mem, dev, flags, hist>>

StatusRunsEarly(stage, status) ==
    CASE stage = "reset" -> {"ACKNOWLEDGE", "DRIVER"}
      [] stage = "features" -> status \union {"FEATURES_OK", "DRIVER_OK"}
      [] OTHER -> status

StatusAfter(stage, status) ==
    CASE stage = "reset" -> {"ACKNOWLEDGE", "DRIVER"}
      [] stage = "features" -> status \union {"FEATURES_OK"}
      [] OTHER -> status

Handshake ==
    /\ drv.stage \in DOMAIN NextStage
    /\ LET answered == [dev EXCEPT !.status = StatusAfter(drv.stage, @),
                                   !.enabled = @ \union ({drv.stage} \intersect {"rx_queue", "tx_queue"})]
       IN \/ /\ dev' = answered
             /\ drv' = [drv EXCEPT !.stage = NextStage[drv.stage]]
          \/ /\ dev' = fail([dev EXCEPT !.status = IF drv.stage = "reset" THEN {} ELSE @])
             /\ drv' = [drv EXCEPT !.stage = "ne2000"]
    /\ UNCHANGED <<cpu, mem, flags, hist>>

prepare_receive_queue(m) ==
    [m EXCEPT !.ring = [i \in Descriptors |-> i], !.available = N]

\* The notify addresses may overflow; otherwise the queues are filled, then
\* the device is told to run.
Start ==
    /\ drv.stage = "start"
    /\ \/ /\ mem' = prepare_receive_queue(mem)
          /\ drv' = [drv EXCEPT !.stage = "ready", !.rx_available = N, !.rx = RxBatch(0),
                                !.tx = TxQueue, !.idle_checks = 0]
          /\ dev' = [dev EXCEPT !.status = @ \union {"DRIVER_OK"}]
       \/ /\ dev' = fail(dev)
          /\ drv' = [drv EXCEPT !.stage = "ne2000"]
          /\ UNCHANGED mem
    /\ UNCHANGED <<cpu, flags, hist>>

-----------------------------------------------------------------------------
(* receive() *)

Ready == drv.stage = "ready" /\ cpu.at = "idle" /\ ~Quarantined

NeverDue(checks) == FALSE

RecoveryDue(checks) == checks % RECOVERY_POLL_INTERVAL = 0

Copying(rx) == [at |-> "copy", entry |-> rx.entries[rx.cursor]]

\* The flag is consumed by every call, also by one that only drains a batch.
FlagConsumed(pending) == FALSE

FlagKept(pending) == pending /\ flags.pending

\* A pending batch is drained first and leaves the interrupt flag alone;
\* otherwise the flag is consumed, or every so often the ring is looked at
\* anyway.
Receive ==
    /\ Ready
    /\ LET pending == Pending(drv.rx)
           notified == ~pending /\ flags.pending
           checks == (drv.idle_checks + 1) % RECOVERY_POLL_INTERVAL
           rx == IF pending THEN take(drv.rx) ELSE drv.rx
       IN /\ drv' = [drv EXCEPT !.idle_checks = checks, !.rx = rx]
          /\ flags' = [flags EXCEPT !.pending = FlagKept(pending)]
          /\ cpu' = IF pending THEN Copying(rx)
                    ELSE IF notified \/ RecoveryDue(checks) THEN [at |-> "index"] ELSE Idle
    /\ UNCHANGED <<mem, dev, hist>>

ReadIndex ==
    /\ cpu.at = "index"
    /\ IF Distance(drv.rx.used, dev.used) > N
         THEN /\ drv' = [drv EXCEPT !.rx.quarantined = TRUE]
              /\ dev' = fail(dev)
              /\ cpu' = Idle
         ELSE /\ cpu' = [at |-> "entries", used_index |-> dev.used]
              /\ UNCHANGED <<drv, dev>>
    /\ UNCHANGED <<mem, flags, hist>>

SnapshotFromSlotZero(from, to) == [i \in 1..Distance(from, to) |-> dev.ring[i - 1]]

Snapshot(from, to) ==
    [i \in 1..Distance(from, to) |-> dev.ring[(from + i - 1) % N]]

Admit ==
    /\ cpu.at = "entries"
    /\ LET rx == admit(drv.rx, cpu.used_index, Snapshot(drv.rx.used, cpu.used_index))
           taken == take(rx)
       IN IF rx.quarantined
            THEN /\ drv' = [drv EXCEPT !.rx = rx]
                 /\ dev' = fail(dev)
                 /\ cpu' = Idle
            ELSE /\ drv' = [drv EXCEPT !.rx = IF Pending(rx) THEN taken ELSE rx]
                 /\ cpu' = IF Pending(rx) THEN Copying(taken) ELSE Idle
                 /\ UNCHANGED dev
    /\ UNCHANGED <<mem, flags, hist>>

\* The frame goes to the stack's packet unless it exceeds MAX_FRAME.
Copy ==
    /\ cpu.at = "copy"
    /\ hist' = [hist EXCEPT !.delivered =
                    @ \o (IF cpu.entry.length = "frame"
                            THEN <<mem.buffers[cpu.entry.descriptor]>> ELSE <<>>)]
    /\ cpu' = [cpu EXCEPT !.at = "repost"]
    /\ UNCHANGED <<drv, mem, dev, flags>>

Repost ==
    /\ cpu.at = "repost"
    /\ mem' = [mem EXCEPT !.ring[drv.rx_available % N] = cpu.entry.descriptor]
    /\ cpu' = [cpu EXCEPT !.at = "publish"]
    /\ UNCHANGED <<drv, dev, flags, hist>>

Publish ==
    /\ cpu.at = "publish"
    /\ drv' = [drv EXCEPT !.rx_available = (@ + 1) % W]
    /\ mem' = [mem EXCEPT !.available = drv'.rx_available]
    /\ cpu' = Idle
    /\ UNCHANGED <<dev, flags, hist>>

-----------------------------------------------------------------------------
(* transmit(), of frames within MAX_FRAME *)

\* The buffer is reserved, then the epoch is sampled, before anything is
\* written.
Transmit ==
    /\ Ready /\ drv.tx.phase = "Idle"
    /\ hist.begun < MaxSends
    /\ drv' = [drv EXCEPT !.tx = begin(@)]
    /\ cpu' = [at |-> "fill", observed |-> flags.epoch]
    /\ hist' = [hist EXCEPT !.begun = @ + 1]
    /\ UNCHANGED <<mem, dev, flags>>

Fill ==
    /\ cpu.at = "fill"
    /\ mem' = [mem EXCEPT !.tx_buffer = hist.begun]
    /\ cpu' = [cpu EXCEPT !.at = "notify"]
    /\ UNCHANGED <<drv, dev, flags, hist>>

Notify ==
    /\ cpu.at = "notify"
    /\ mem' = [mem EXCEPT !.tx_available = drv.tx.available]
    /\ cpu' = [at |-> "spin", observed |-> cpu.observed, spin |-> 0]
    /\ UNCHANGED <<drv, dev, flags, hist>>

TimeoutFrees(tx) == [tx EXCEPT !.phase = "Idle"]

Timeout(tx) == [tx EXCEPT !.phase = "Quarantined"]

Again == [at |-> "spin", observed |-> cpu.observed, spin |-> cpu.spin + 1]

Spin ==
    /\ cpu.at = "spin"
    /\ LET interrupt_driven == flags.epoch # cpu.observed
           recovery == cpu.spin # 0 /\ RecoveryDue(cpu.spin)
       IN IF cpu.spin = POLL_LIMIT
            THEN /\ drv' = [drv EXCEPT !.tx = Timeout(@)]
                 /\ cpu' = Idle
            ELSE /\ cpu' = IF interrupt_driven \/ recovery
                             THEN [at |-> "used", observed |-> flags.epoch, spin |-> cpu.spin]
                             ELSE Again
                 /\ UNCHANGED drv
    /\ UNCHANGED <<mem, dev, flags, hist>>

\* The vector is shared: an interrupt may announce a received frame instead.
Unchanged == dev.tx_used = drv.tx.used

ReadUsed ==
    /\ cpu.at = "used"
    /\ IF Unchanged
         THEN /\ cpu' = Again
              /\ UNCHANGED <<drv, hist>>
         ELSE LET tx == complete(drv.tx, dev.tx_used, dev.tx_id)
              IN /\ drv' = [drv EXCEPT !.tx = tx]
                 /\ hist' = IF tx.phase = "Idle"
                              THEN [hist EXCEPT !.reported = Append(@, mem.tx_buffer)]
                              ELSE hist
                 /\ cpu' = Idle
    /\ UNCHANGED <<mem, dev, flags>>

-----------------------------------------------------------------------------
(* The device and the interrupt controller: external. *)

Running == dev.status \intersect {"DRIVER_OK", "FAILED"} = {"DRIVER_OK"} /\ ~dev.rogue

FetchRx ==
    /\ Running /\ dev.seen # mem.available
    /\ dev' = [dev EXCEPT !.held = @ \union {mem.ring[dev.seen % N]}, !.seen = (@ + 1) % W]
    /\ UNCHANGED <<drv, cpu, mem, flags, hist>>

\* A frame is written to any buffer the device holds, recorded and announced.
CompleteRx ==
    /\ Running /\ Len(hist.arrived) < MaxFrames
    /\ \E d \in dev.held, length \in {"frame", "oversize"} :
          /\ mem' = [mem EXCEPT !.buffers[d] = Len(hist.arrived) + 1]
          /\ dev' = [dev EXCEPT !.held = @ \ {d}, !.used = (@ + 1) % W, !.irq = TRUE,
                         !.ring[dev.used % N] = [descriptor |-> d, length |-> length]]
          /\ hist' = [hist EXCEPT !.arrived = Append(@, length)]
    /\ UNCHANGED <<drv, cpu, flags>>

CompleteTx ==
    /\ Running /\ dev.tx_used # mem.tx_available
    /\ dev' = [dev EXCEPT !.tx_used = (@ + 1) % W, !.tx_id = 0, !.irq = TRUE]
    /\ hist' = [hist EXCEPT !.sent = Append(@, mem.tx_buffer)]
    /\ UNCHANGED <<drv, cpu, mem, flags>>

GoRogue ==
    /\ Rogue /\ Running
    /\ \/ \E e \in Entries, u \in 0..(W - 1) :
             dev' = [dev EXCEPT !.rogue = TRUE, !.ring[dev.used % N] = e, !.used = u, !.irq = TRUE]
       \/ \E id \in {0, 1}, u \in 0..(W - 1) :
             dev' = [dev EXCEPT !.rogue = TRUE, !.tx_id = id, !.tx_used = u, !.irq = TRUE]
    /\ UNCHANGED <<drv, cpu, mem, flags, hist>>

record_virtio_interrupt ==
    /\ dev.irq
    /\ dev' = [dev EXCEPT !.irq = FALSE]
    /\ flags' = [epoch |-> flags.epoch + 1, pending |-> TRUE]
    /\ UNCHANGED <<drv, cpu, mem, hist>>

LoseInterrupt ==
    /\ Lossy /\ dev.irq
    /\ dev' = [dev EXCEPT !.irq = FALSE, !.lost = TRUE]
    /\ UNCHANGED <<drv, cpu, mem, flags, hist>>

Driver ==
    \/ Discover \/ Handshake \/ Start
    \/ Receive \/ ReadIndex \/ Admit \/ Copy \/ Repost \/ Publish
    \/ Transmit \/ Fill \/ Notify \/ Spin \/ ReadUsed

Device == FetchRx \/ CompleteRx \/ CompleteTx \/ GoRogue

Interrupt == record_virtio_interrupt \/ LoseInterrupt

Next == Driver \/ Device \/ Interrupt

Spec == Init /\ [][Next]_vars

-----------------------------------------------------------------------------
\* The descriptors in device hands: fetched, or published and not fetched yet.
Posted == {mem.ring[(dev.seen + i) % N] : i \in 0..(Distance(dev.seen, mem.available) - 1)}
DeviceOwned == dev.held \union Posted

\* The descriptors completed and not yet given back.
Unread == {dev.ring[(drv.rx.used + i) % N].descriptor : i \in 0..(Distance(drv.rx.used, dev.used) - 1)}
Returning == IF cpu.at \in {"copy", "repost", "publish"} THEN {cpu.entry.descriptor} ELSE {}

\* While the device follows the protocol each receive buffer has exactly one
\* owner: the device, a completion the driver has not consumed, or the call
\* that is copying it; so a buffer is never copied while it may be written.
\* Whatever the device writes, no buffer is copied again after it was reposted
\* in the same batch.
BufferHasOneOwner ==
    /\ drv.stage = "ready" /\ ~dev.rogue =>
        /\ DeviceOwned \intersect (Unread \union Returning) = {}
        /\ Unread \intersect Returning = {}
        /\ DeviceOwned \union Unread \union Returning = Descriptors
        /\ Cardinality(Unread) = Distance(drv.rx.used, dev.used)
    /\ cpu.at = "copy" => \A i \in 1..(drv.rx.cursor - 1) :
                              drv.rx.entries[i].descriptor # cpu.entry.descriptor

\* The frames within the packet budget, by their place on the wire.
Fitting == {k \in DOMAIN hist.arrived : hist.arrived[k] = "frame"}

\* The stack gets every frame within the packet budget, once, in the order the
\* device completed them, across index wrap, batches and oversized drops; and
\* transmit() reports exactly the frames the device has sent, in order, with at
\* most one more in flight.
FramesInOrder ==
    ~dev.rogue =>
        /\ \A i \in DOMAIN hist.delivered : hist.delivered[i] \in Fitting
        /\ \A i, j \in DOMAIN hist.delivered : i < j => hist.delivered[i] < hist.delivered[j]
        /\ \A k \in Fitting, i \in DOMAIN hist.delivered :
               k < hist.delivered[i] => \E j \in DOMAIN hist.delivered : hist.delivered[j] = k
        /\ Len(hist.sent) - Len(hist.reported) \in {0, 1}
        /\ \A i \in DOMAIN hist.reported : hist.reported[i] = hist.sent[i]

\* No wake-up is lost: a completion the driver has not read is either still
\* announced by an interrupt on its way, or leaves the flag (receive) or a
\* changed epoch (transmit) for the driver to find.
ReadinessKept ==
    drv.stage = "ready" /\ ~Quarantined /\ ~dev.irq /\ ~dev.lost /\ ~dev.rogue =>
        /\ \/ dev.used = (drv.rx.used + Len(drv.rx.entries) - drv.rx.cursor) % W
           \/ flags.pending \/ cpu.at = "index"
           \/ cpu.at = "entries" /\ cpu.used_index = dev.used
        /\ cpu.at = "spin" /\ dev.tx_used # drv.tx.used => flags.epoch # cpu.observed

\* The device runs only once both queues are enabled and every receive buffer
\* has been published; a device given up during init() never runs, and one that
\* keeps the protocol is never failed afterwards.
RunsOnlyPrepared ==
    /\ "DRIVER_OK" \in dev.status =>
        /\ dev.enabled = {"rx_queue", "tx_queue"} /\ "FEATURES_OK" \in dev.status
        /\ Distance(drv.rx.used, mem.available) + Cardinality(Returning) = N
        /\ drv.stage = "ready"
    /\ drv.stage = "ready" /\ ~dev.rogue => ~drv.rx.quarantined /\ "FAILED" \notin dev.status

\* The transmit buffer is not rewritten between its publication and its
\* completion, timeout or not.  A quarantine is final: the driver never touches
\* the shared memory again, and neither delivers nor reports a frame.
SharedMemoryDiscipline ==
    [][/\ mem'.tx_buffer # mem.tx_buffer /\ ~dev.rogue => mem.tx_available = dev.tx_used
       /\ Quarantined => /\ Quarantined'
                         /\ mem'.available = mem.available
                         /\ mem'.tx_available = mem.tx_available
                         /\ mem'.tx_buffer = mem.tx_buffer /\ mem'.ring = mem.ring
                         /\ hist'.delivered = hist.delivered
                         /\ hist'.reported = hist.reported]_vars

\* The first n frames of the wire were taken, or the queue was given up.
Taken(n) ==
    \/ Quarantined
    \/ Len(hist.delivered) >= Cardinality({i \in Fitting : i <= n})
=============================================================================
