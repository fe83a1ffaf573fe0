------------------------- MODULE VirtioNetDriver -------------------------
(***************************************************************************)
(* The steps of the driver keep the invariant of VirtioNetRings.           *)
(***************************************************************************)
EXTENDS VirtioNetRings

-----------------------------------------------------------------------------
(* receive()                                                               *)

\* receive() takes a completion of the batch rx, which it had or has just
\* admitted, and starts to copy it.
LEMMA TakeStep ==
  ASSUME NetInv, drv.stage = "ready", ~Quarantined, cpu.at \in {"idle", "entries"},
         NEW rx \in RxType, rx.used = drv.rx.used, ~rx.quarantined, BatchValid(rx),
         rx.cursor < Len(rx.entries), ~dev.rogue => BatchCurrent(rx, dev.used, dev.ring),
         drv' \in DrvType, drv'.stage = "ready", drv'.rx = take(rx), drv'.tx = drv.tx,
         drv'.rx_available = drv.rx_available,
         cpu' = Copying(take(rx)), flags' \in FlagsType, UNCHANGED <<mem, dev, hist>>,
         ~dev.irq /\ ~dev.lost /\ ~dev.rogue =>
            \/ Distance(rx.used, dev.used) = Len(rx.entries) - rx.cursor
            \/ flags'.pending
  PROVE  NetInv'
<1> USE DEF NetInv, Types
<1> DEFINE e == rx.entries[rx.cursor + 1]
<1>1. /\ take(rx).used = Succ(rx.used) /\ take(rx).cursor = rx.cursor + 1
      /\ take(rx).entries = rx.entries /\ ~take(rx).quarantined
      /\ BatchValid(take(rx)) /\ e \in Entries
  BY TakeValid
<1>2. cpu' = [at |-> "copy", entry |-> e]
  BY <1>1 DEF Copying
<1>3. cpu'.at = "copy" /\ cpu'.entry = e /\ cpu' \in CpuType
  BY <1>1, <1>2 DEF CpuType
<1>4. rx.used \in Idx /\ rx.cursor \in Nat /\ rx.entries \in Seq(Entries)
  BY DEF RxType
<1>5. /\ dev.used \in Idx /\ dev.seen \in Idx /\ mem.available \in Idx
      /\ dev.ring \in [Descriptors -> Entries] /\ hist.arrived \in Seq({"frame", "oversize"})
  BY DEF DevType, MemType, HistType
<1>6. mem' = mem /\ dev' = dev /\ hist' = hist
  OBVIOUS
<1> HIDE DEF e
<1>7. Types'
  BY <1>3, <1>6
<1>8. BringupInv'
  BY <1>6, BringupKept
<1>9. DriverInv'
  <2>1. ~Busy /\ Distance(drv.rx.used, mem.available) = N
    BY DEF DriverInv, Busy
  <2>2. rx.used # mem.available
    BY <1>4, <1>5, <2>1, Distances, Sizes
  <2>3. Distance(Succ(rx.used), mem.available) = N - 1
    BY <1>4, <1>5, <2>1, <2>2, Distances
  <2>4. drv.tx.phase # "Device" /\ ~Quarantined'
    BY <1>1 DEF DriverInv, Sending, Quarantined
  <2>5. drv'.rx.cursor > 0 /\ cpu'.entry = drv'.rx.entries[drv'.rx.cursor]
    BY <1>1, <1>3, <1>4 DEF e
  <2> QED
    BY <1>1, <1>3, <1>6, <2>3, <2>4, <2>5 DEF DriverInv, Busy, Sending
<1>10. ReceiveInv'
  <2> SUFFICES ASSUME ~dev.rogue PROVE ReceiveInv'
    BY <1>6, Zenon DEF ReceiveInv
  <2>1. Returning = {} /\ Returning' = {e.descriptor}
    BY <1>3 DEF Returning
  <2>2. /\ Ownership(rx.used, dev.used, dev.seen, mem.available, Ids(dev.ring), mem.ring,
                     dev.held, {})
        /\ Carried(rx.used, dev.used, dev.ring, mem.buffers, hist.arrived)
        /\ Covered(hist.delivered, hist.arrived, Consumed)
        /\ "FAILED" \notin dev.status
    BY <2>1 DEF ReceiveInv
  <2>3. /\ Ownership(Succ(rx.used), dev.used, dev.seen, mem.available, Ids(dev.ring), mem.ring,
                     dev.held, {e.descriptor})
        /\ Distance(Succ(rx.used), dev.used) = Distance(rx.used, dev.used) - 1
        /\ BatchCurrent(take(rx), dev.used, dev.ring)
        /\ Carried(Succ(rx.used), dev.used, dev.ring, mem.buffers, hist.arrived)
        /\ Len(hist.arrived) - Distance(rx.used, dev.used) + 1 > 0
        /\ mem.buffers[e.descriptor] = Len(hist.arrived) - Distance(rx.used, dev.used) + 1
        /\ hist.arrived[Len(hist.arrived) - Distance(rx.used, dev.used) + 1] = e.length
    <3>1. TakenWell(rx, dev.used, dev.seen, mem.available, dev.ring, mem.ring, dev.held,
                    mem.buffers, hist.arrived)
      BY <1>5, <2>2, TakeReceives, Zenon
    <3> QED
      BY <3>1 DEF TakenWell, e
  <2>4. Distance(rx.used, dev.used) \in Nat /\ Len(hist.arrived) \in Nat
    <3>1. Distance(rx.used, dev.used) \in Nat
      BY <1>4, <1>5, DistanceNat, Zenon
    <3>2. Len(hist.arrived) \in Nat
      BY <1>5
    <3> QED
      BY <3>1, <3>2
  <2>5. /\ Consumed' = Len(hist.arrived) - Distance(rx.used, dev.used) + 1
        /\ Consumed = Len(hist.arrived) - Distance(rx.used, dev.used)
    BY <1>1, <1>6, <2>3, <2>4, SMTT(20) DEF Consumed
  <2>6. Consumed' - 1 = Consumed
    BY <2>4, <2>5
  <2> QED
    BY <1>1, <1>3, <1>6, <2>1, <2>2, <2>3, <2>5, <2>6, Zenon DEF ReceiveInv
<1>11. TransmitInv'
  BY <1>3, <1>6, TransmitKept DEF Sending
<1>12. WakeInv'
  <2> SUFFICES ASSUME ~dev.irq, ~dev.lost, ~dev.rogue,
                      Distance(rx.used, dev.used) = Len(rx.entries) - rx.cursor
               PROVE  Distance(Succ(rx.used), dev.used) = Len(rx.entries) - (rx.cursor + 1)
    BY <1>1, <1>3, <1>6 DEF WakeInv, Sending
  <2>1. Len(rx.entries) \in Nat /\ Distance(rx.used, dev.used) # 0
    BY <1>4, SMTT(20)
  <2>2. Distance(Succ(rx.used), dev.used) = Distance(rx.used, dev.used) - 1
    BY <1>4, <1>5, <2>1, Distances
  <2> QED
    BY <1>4, <2>1, <2>2
<1> QED
  BY <1>7, <1>8, <1>9, <1>10, <1>11, <1>12

\* A step of receive() that takes nothing: it looks at the flag, at the index,
\* or finds that the index has not moved.
LEMMA LookStep ==
  ASSUME NetInv, drv.stage = "ready", ~Quarantined, cpu.at \in {"idle", "index", "entries"},
         drv' \in DrvType, drv'.stage = "ready", drv'.tx = drv.tx,
         drv'.rx_available = drv.rx_available,
         drv'.rx.used = drv.rx.used, ~drv'.rx.quarantined, BatchValid(drv'.rx),
         ~dev.rogue => BatchCurrent(drv'.rx, dev.used, dev.ring),
         cpu' \in CpuType, cpu'.at \in {"idle", "index", "entries"},
         cpu'.at # "idle" => drv'.rx.cursor = Len(drv'.rx.entries),
         cpu'.at = "entries" => cpu'.used_index = dev.used,
         flags' \in FlagsType, UNCHANGED <<mem, dev, hist>>,
         cpu'.at = "idle" /\ ~dev.irq /\ ~dev.lost /\ ~dev.rogue =>
            \/ Distance(drv.rx.used, dev.used) = Len(drv'.rx.entries) - drv'.rx.cursor
            \/ flags'.pending
  PROVE  NetInv'
<1> USE DEF NetInv, Types
<1>1. mem' = mem /\ dev' = dev /\ hist' = hist
  OBVIOUS
<1>2. Types'
  BY <1>1
<1>3. BringupInv'
  BY <1>1, BringupKept
<1>4. DriverInv'
  <2>1. drv.tx.phase # "Device" /\ ~Quarantined'
    BY DEF DriverInv, Sending, Quarantined
  <2> QED
    BY <1>1, <2>1 DEF DriverInv, Busy, Sending
<1>5. ReceiveInv'
  <2>1. Returning = {} /\ Returning' = {}
    BY DEF Returning
  <2>2. Consumed' = Consumed
    BY <1>1 DEF Consumed
  <2>3. Distance(drv.rx.used, dev.used) <= Distance(drv.rx.used, dev.used)
    <3>1. drv.rx.used \in Idx /\ dev.used \in Idx
      BY DEF DrvType, RxType, DevType
    <3> QED
      BY <3>1, DistanceNat
  <2> QED
    BY <1>1, <2>1, <2>2, <2>3, Zenon DEF ReceiveInv
<1>6. TransmitInv'
  BY <1>1, TransmitKept DEF Sending
<1>7. WakeInv'
  BY <1>1 DEF WakeInv, Sending
<1> QED
  BY <1>2, <1>3, <1>4, <1>5, <1>6, <1>7

\* receive() takes from the batch, or looks at the flag.
LEMMA StepReceive == NetInv /\ Receive => NetInv'
<1> SUFFICES ASSUME NetInv, Receive PROVE NetInv'
  OBVIOUS
<1> USE DEF NetInv, Types
<1> DEFINE pending == Pending(drv.rx)
           notified == ~pending /\ flags.pending
           checks == (drv.idle_checks + 1) % RECOVERY_POLL_INTERVAL
           rx == IF pending THEN take(drv.rx) ELSE drv.rx
<1>1. drv.stage = "ready" /\ cpu.at = "idle" /\ ~Quarantined /\ ~drv.rx.quarantined
  BY DEF Receive, Ready, Quarantined
<1>2. UNCHANGED <<mem, dev, hist>>
  BY DEF Receive
<1>3. drv.rx \in RxType /\ BatchValid(drv.rx) /\ drv.rx.cursor \in Nat
      /\ drv.rx.entries \in Seq(Entries)
  BY DEF DrvType, DriverInv, RxType
<1>4. checks \in Nat
  <2>1. drv.idle_checks + 1 \in Nat /\ RECOVERY_POLL_INTERVAL \in Nat /\ RECOVERY_POLL_INTERVAL > 0
    BY VirtioNetAssumption DEF DrvType
  <2> QED
    BY <2>1, Division
<1>5. drv' = [drv EXCEPT !.idle_checks = checks, !.rx = rx]
  BY DEF Receive
<1>6. rx \in RxType
  BY <1>3, TakeValid DEF Pending
<1>7. flags' = [flags EXCEPT !.pending = FlagKept(pending)]
  BY DEF Receive
<1>8. flags' \in FlagsType /\ (flags'.pending <=> pending /\ flags.pending)
  BY <1>7, Zenon DEF FlagsType, FlagKept
<1>9. ~dev.rogue => BatchCurrent(drv.rx, dev.used, dev.ring)
  BY <1>1 DEF ReceiveInv
<1>10. ~dev.irq /\ ~dev.lost /\ ~dev.rogue =>
          \/ Distance(drv.rx.used, dev.used) = Len(drv.rx.entries) - drv.rx.cursor
          \/ flags.pending
  BY <1>1 DEF WakeInv
<1>11. cpu' = IF pending THEN Copying(rx)
              ELSE IF notified \/ RecoveryDue(checks) THEN [at |-> "index"] ELSE Idle
  BY DEF Receive
<1> HIDE DEF checks
<1>12. /\ drv' \in DrvType /\ drv'.stage = "ready" /\ drv'.rx = rx /\ drv'.tx = drv.tx
       /\ drv'.rx_available = drv.rx_available
  BY <1>1, <1>4, <1>5, <1>6, Zenon DEF DrvType
<1>13. CASE pending
  <2>1. drv.rx.cursor < Len(drv.rx.entries)
    BY <1>13 DEF Pending
  <2>2. drv'.rx = take(drv.rx) /\ cpu' = Copying(take(drv.rx)) /\ (flags'.pending <=> flags.pending)
    BY <1>8, <1>11, <1>12, <1>13
  <2> QED
    BY <1>1, <1>2, <1>3, <1>8, <1>9, <1>10, <1>12, <2>1, <2>2, TakeStep
<1>14. CASE ~pending
  <2>1. drv.rx.cursor = Len(drv.rx.entries)
    BY <1>3, <1>14 DEF Pending, BatchValid
  <2>2. drv'.rx = drv.rx
    BY <1>12, <1>14
  <2>3. cpu' \in CpuType /\ cpu'.at \in {"idle", "index"} /\ (cpu'.at = "idle" => ~flags.pending)
    BY <1>11, <1>14 DEF CpuType, Idle
  <2> HIDE DEF pending
  <2> QED
    BY <1>1, <1>2, <1>3, <1>8, <1>9, <1>10, <1>12, <2>1, <2>2, <2>3, LookStep
<1> QED
  BY <1>13, <1>14

\* A device that breaks the protocol is quarantined.
LEMMA QuarantineStep ==
  ASSUME NetInv, drv.stage = "ready", dev.rogue, cpu.at \in {"index", "entries"},
         NEW rx \in RxType, rx.used = drv.rx.used, rx.quarantined, BatchValid(rx),
         drv' = [drv EXCEPT !.rx = rx], dev' = fail(dev), cpu' = Idle,
         UNCHANGED <<mem, flags, hist>>
  PROVE  NetInv'
<1> USE DEF NetInv, Types
<1>1. /\ drv' \in DrvType /\ drv'.stage = "ready" /\ drv'.rx = rx /\ drv'.tx = drv.tx
      /\ drv'.rx_available = drv.rx_available
  BY DEF DrvType
<1>2. /\ dev' \in DevType /\ dev'.rogue /\ dev'.enabled = dev.enabled
      /\ dev'.status = dev.status \cup {"FAILED"}
  BY DEF DevType, fail
<1>3. cpu' \in CpuType /\ cpu'.at = "idle"
  BY DEF Idle, CpuType
<1>4. Types'
  BY <1>1, <1>2, <1>3
<1>5. BringupInv'
  BY <1>1, <1>2, BringupKept
<1>6. DriverInv'
  BY <1>1, <1>3 DEF DriverInv, Busy, Sending
<1>7. ReceiveInv' /\ TransmitInv' /\ WakeInv'
  BY <1>2, <1>3 DEF ReceiveInv, TransmitInv, WakeInv, Sending
<1> QED
  BY <1>4, <1>5, <1>6, <1>7

\* The number of completions is read.
LEMMA StepReadIndex == NetInv /\ ReadIndex => NetInv'
<1> SUFFICES ASSUME NetInv, ReadIndex PROVE NetInv'
  OBVIOUS
<1> USE DEF NetInv, Types
<1>1. cpu.at = "index" /\ UNCHANGED <<mem, flags, hist>>
  BY DEF ReadIndex
<1>2. /\ drv.stage = "ready" /\ ~Quarantined /\ ~drv.rx.quarantined
      /\ BatchValid(drv.rx) /\ drv.rx.cursor = Len(drv.rx.entries)
  BY <1>1 DEF DriverInv, Quarantined
<1>3. drv.rx \in RxType /\ drv.rx.used \in Idx /\ dev.used \in Idx /\ dev.seen \in Idx
      /\ mem.available \in Idx
  BY DEF DrvType, RxType, DevType, MemType
<1>4. CASE Distance(drv.rx.used, dev.used) > N
  <2> DEFINE rx == [drv.rx EXCEPT !.quarantined = TRUE]
  <2>1. dev.rogue
    <3> SUFFICES ASSUME ~dev.rogue PROVE FALSE
      OBVIOUS
    <3>1. Counted(drv.rx.used, dev.used, dev.seen, mem.available, dev.held)
      BY <1>2, Zenon DEF ReceiveInv, Ownership
    <3>2. /\ Distance(drv.rx.used, dev.used) \in Nat
          /\ Distance(drv.rx.used, mem.available) \in Nat
          /\ Distance(drv.rx.used, dev.used) <= Distance(drv.rx.used, mem.available)
          /\ Distance(drv.rx.used, mem.available) <= N
      BY <1>3, <3>1, Counts
    <3> QED
      BY <1>4, <3>2, Sizes
  <2>2. drv' = [drv EXCEPT !.rx.quarantined = TRUE] /\ dev' = fail(dev) /\ cpu' = Idle
    BY <1>4 DEF ReadIndex
  <2>3. /\ rx \in RxType /\ rx.used = drv.rx.used /\ rx.quarantined
        /\ rx.entries = drv.rx.entries /\ rx.cursor = drv.rx.cursor
    BY <1>3, Zenon DEF RxType
  <2>4. BatchValid(rx)
    BY <1>2, <2>3 DEF BatchValid
  <2>5. drv' = [drv EXCEPT !.rx = rx]
    BY <2>2 DEF DrvType
  <2> HIDE DEF rx
  <2> QED
    BY <1>1, <1>2, <2>1, <2>2, <2>3, <2>4, <2>5, QuarantineStep, Zenon
<1>5. CASE ~(Distance(drv.rx.used, dev.used) > N)
  <2>1. cpu' = [at |-> "entries", used_index |-> dev.used] /\ drv' = drv /\ dev' = dev
    BY <1>5 DEF ReadIndex
  <2>2. cpu' \in CpuType /\ cpu'.at = "entries" /\ cpu'.used_index = dev.used
    BY <1>3, <2>1 DEF CpuType
  <2>3. ~dev.rogue => BatchCurrent(drv.rx, dev.used, dev.ring)
    BY <1>2 DEF ReceiveInv
  <2> QED
    BY <1>1, <1>2, <2>1, <2>2, <2>3, LookStep
<1> QED
  BY <1>4, <1>5

\* What a device that follows the protocol has completed is valid.
LEMMA SnapshotValid ==
  ASSUME NetInv, drv.stage = "ready", ~dev.rogue, cpu.at = "entries"
  PROVE  Valid(drv.rx, cpu.used_index, Snapshot(drv.rx.used, cpu.used_index))
<1> DEFINE r == drv.rx.used
           t == cpu.used_index
           n == Distance(r, dev.used)
           snap == Snapshot(r, t)
<1>1. dev \in DevType /\ r \in Idx /\ t \in Idx /\ dev.used \in Idx /\ dev.seen \in Idx
      /\ mem.available \in Idx /\ hist.arrived \in Seq({"frame", "oversize"})
      /\ dev.ring \in [Descriptors -> Entries]
  BY CpuFields DEF NetInv, Types, DrvType, RxType, DevType, MemType, HistType
<1>2. /\ Counted(r, dev.used, dev.seen, mem.available, dev.held)
      /\ Distinct(Ids(dev.ring), r, n)
      /\ Window(Ids(dev.ring), r, n) \subseteq Descriptors
      /\ Distance(r, t) <= n
      /\ Carried(r, dev.used, dev.ring, mem.buffers, hist.arrived)
  BY Zenon DEF NetInv, ReceiveInv, Ownership, Owned
<1>3. n \in Nat /\ Distance(r, t) \in Nat /\ n <= N /\ r \in Nat /\ Len(hist.arrived) \in Nat
  <2>1. /\ Distance(r, dev.used) <= Distance(r, mem.available)
        /\ Distance(r, mem.available) <= N
        /\ Distance(r, mem.available) \in Nat
    BY <1>1, <1>2, Counts, Zenon
  <2>2. Distance(r, dev.used) \in Nat /\ Distance(r, t) \in Nat
    BY <1>1, DistanceNat, Zenon
  <2> QED
    BY <1>1, <2>1, <2>2, Sizes, SMTT(20) DEF Idx
<1>4. /\ Len(snap) = Distance(r, t)
      /\ \A i \in 1..Distance(r, t) : snap[i] = dev.ring[Slot(r, i - 1)]
  BY <1>1, SnapshotEntries, Zenon
<1>5. \A i \in 1..Distance(r, t) : i - 1 \in 0..(n - 1) /\ Slot(r, i - 1) \in Descriptors
  BY <1>2, <1>3, SlotType, SMTT(20)
<1>6. \A i \in 1..Distance(r, t) : snap[i].descriptor = Ids(dev.ring)[Slot(r, i - 1)]
  BY <1>4, <1>5 DEF Ids
<1>7. Distance(r, t) <= N
  BY <1>2, <1>3, Sizes, SMTT(20)
<1>8. \A i \in 1..Distance(r, t) : snap[i].descriptor \in Descriptors
  BY <1>2, <1>5, <1>6 DEF Window
<1>9. \A i \in 1..Distance(r, t) : snap[i].length \in {"frame", "oversize"}
  <2>1. TAKE i \in 1..Distance(r, t)
  <2> DEFINE k == Len(hist.arrived) - n + 1 + (i - 1)
  <2>2. k \in 1..Len(hist.arrived)
    <3>1. n <= Len(hist.arrived)
      BY <1>2, Zenon DEF Carried
    <3>2. i - 1 \in 0..(n - 1)
      BY <1>5, Zenon
    <3> HIDE DEF n
    <3> QED
      BY <1>3, <3>1, <3>2
  <2>3. hist.arrived[k] = snap[i].length
    BY <1>2, <1>4, <1>5, Zenon DEF Carried
  <2> QED
    BY <1>1, <2>2, <2>3
<1>10. \A i, j \in 1..Distance(r, t) : snap[i].descriptor = snap[j].descriptor => i = j
  <2>1. TAKE i, j \in 1..Distance(r, t)
  <2>2. HAVE snap[i].descriptor = snap[j].descriptor
  <2>3. i - 1 = j - 1
    BY <1>2, <1>5, <1>6, <2>2, Zenon DEF Distinct
  <2> QED
    BY <1>3, <2>3
<1> QED
  BY <1>4, <1>7, <1>8, <1>9, <1>10 DEF Valid

\* The batch is admitted and its first entry taken, or the queue quarantined.
LEMMA StepAdmit == NetInv /\ Admit => NetInv'
<1> SUFFICES ASSUME NetInv, Admit PROVE NetInv'
  OBVIOUS
<1> USE DEF NetInv, Types
<1> DEFINE t == cpu.used_index
           snap == Snapshot(drv.rx.used, t)
           rx == admit(drv.rx, t, snap)
<1>1. cpu.at = "entries" /\ UNCHANGED <<mem, flags, hist>>
  BY DEF Admit
<1>2. drv.stage = "ready" /\ ~Quarantined /\ ~drv.rx.quarantined /\ BatchValid(drv.rx)
  BY <1>1 DEF DriverInv, Quarantined
<1>3. drv.rx \in RxType /\ drv.rx.used \in Idx /\ t \in Idx /\ dev.used \in Idx
  BY <1>1, CpuFields DEF DrvType, RxType, DevType
<1>4. /\ snap \in Seq(Entries) /\ Len(snap) = Distance(drv.rx.used, t)
      /\ \A i \in 1..Distance(drv.rx.used, t) : snap[i] = dev.ring[Slot(drv.rx.used, i - 1)]
  BY <1>3, SnapshotEntries, Zenon
<1>5. CASE ~Valid(drv.rx, t, snap)
  <2>1. dev.rogue
    BY <1>1, <1>2, <1>5, SnapshotValid
  <2>2. rx \in RxType /\ rx.used = drv.rx.used /\ rx.quarantined /\ BatchValid(rx)
    <3> HIDE DEF NetInv, Types, snap, t
    <3> QED
      BY <1>2, <1>3, <1>5, AdmitInvalid
  <2>3. drv' = [drv EXCEPT !.rx = rx] /\ dev' = fail(dev) /\ cpu' = Idle
    BY <2>2 DEF Admit
  <2> HIDE DEF rx
  <2> QED
    BY <1>1, <1>2, <2>1, <2>2, <2>3, QuarantineStep
<1>6. CASE Valid(drv.rx, t, snap)
  <2>1. /\ rx \in RxType /\ rx.used = drv.rx.used /\ ~rx.quarantined /\ BatchValid(rx)
        /\ rx.entries = snap /\ rx.cursor = 0
    <3> HIDE DEF NetInv, Types, snap, t
    <3> QED
      BY <1>2, <1>3, <1>4, <1>6, AdmitValid
  <2>2. /\ drv' = [drv EXCEPT !.rx = IF Pending(rx) THEN take(rx) ELSE rx]
        /\ cpu' = IF Pending(rx) THEN Copying(take(rx)) ELSE Idle
        /\ dev' = dev
    BY <2>1 DEF Admit
  <2> HIDE DEF rx, snap
  <2>3. Distance(drv.rx.used, t) \in Nat /\ Distance(drv.rx.used, dev.used) \in Nat
    BY <1>3, DistanceNat
  <2>4. ~dev.rogue => BatchCurrent(rx, dev.used, dev.ring)
    <3> SUFFICES ASSUME ~dev.rogue PROVE BatchCurrent(rx, dev.used, dev.ring)
      OBVIOUS
    <3>1. Len(rx.entries) - rx.cursor = Distance(drv.rx.used, t)
      BY <1>4, <2>1, <2>3
    <3>2. Distance(drv.rx.used, t) <= Distance(drv.rx.used, dev.used)
      BY <1>1, <1>2, Zenon DEF ReceiveInv
    <3>3. ASSUME NEW k \in 0..(Distance(drv.rx.used, t) - 1)
          PROVE  rx.entries[rx.cursor + 1 + k] = dev.ring[Slot(rx.used, k)]
      <4>1. k + 1 \in 1..Distance(drv.rx.used, t) /\ rx.cursor + 1 + k = k + 1 /\ (k + 1) - 1 = k
        BY <2>1, <2>3
      <4> QED
        BY <1>4, <2>1, <4>1, Zenon
    <3> QED
      BY <2>1, <3>1, <3>2, <3>3, Zenon DEF BatchCurrent
  <2>5. ~dev.irq /\ ~dev.lost /\ ~dev.rogue =>
           Distance(rx.used, dev.used) = Len(rx.entries) - rx.cursor
                \/ flags'.pending
    <3> SUFFICES ASSUME ~dev.irq, ~dev.lost, ~dev.rogue, ~flags.pending
                 PROVE  Distance(rx.used, dev.used) = Len(rx.entries) - rx.cursor
      BY <1>1
    <3>1. \/ t = dev.used
          \/ Distance(drv.rx.used, dev.used) = Len(drv.rx.entries) - drv.rx.cursor
      BY <1>1, <1>2 DEF WakeInv
    <3>2. CASE t = dev.used
      BY <1>4, <2>1, <2>3, <3>2
    <3>3. CASE Distance(drv.rx.used, dev.used) = Len(drv.rx.entries) - drv.rx.cursor
      <4>1. Distance(drv.rx.used, dev.used) = 0
        BY <1>1, <2>3, <3>3 DEF DriverInv, DrvType, RxType
      <4>2. Distance(drv.rx.used, t) = 0
        <5>1. Distance(drv.rx.used, t) <= Distance(drv.rx.used, dev.used)
          BY <1>1, <1>2, Zenon DEF ReceiveInv
        <5> QED
          BY <2>3, <4>1, <5>1
      <4> QED
        BY <1>4, <2>1, <4>1, <4>2
    <3> QED
      BY <3>1, <3>2, <3>3
  <2>6. flags' \in FlagsType /\ UNCHANGED <<mem, dev, hist>>
    BY <1>1, <2>2
  <2>7. CASE Pending(rx)
    <3>1. take(rx) \in RxType /\ rx.cursor < Len(rx.entries)
      BY <2>1, <2>7, TakeValid DEF Pending
    <3>2. /\ drv' \in DrvType /\ drv'.stage = "ready" /\ drv'.rx = take(rx) /\ drv'.tx = drv.tx
          /\ drv'.rx_available = drv.rx_available
      BY <1>2, <2>2, <2>7, <3>1 DEF DrvType
    <3> QED
      BY <1>1, <1>2, <2>1, <2>2, <2>4, <2>5, <2>6, <2>7, <3>1, <3>2, TakeStep
  <2>8. CASE ~Pending(rx)
    <3>1. /\ drv' \in DrvType /\ drv'.stage = "ready" /\ drv'.rx = rx /\ drv'.tx = drv.tx
          /\ drv'.rx_available = drv.rx_available
      BY <1>2, <2>1, <2>2, <2>8 DEF DrvType
    <3>2. cpu' \in CpuType /\ cpu'.at = "idle"
      BY <2>2, <2>8 DEF CpuType, Idle
    <3> QED
      BY <1>1, <1>2, <2>1, <2>4, <2>5, <2>6, <3>1, <3>2, LookStep
  <2> QED
    BY <2>7, <2>8
<1> QED
  BY <1>5, <1>6

\* A frame is copied to the stack.
LEMMA StepCopy == NetInv /\ Copy => NetInv'
<1> SUFFICES ASSUME NetInv, Copy PROVE NetInv'
  OBVIOUS
<1> USE DEF NetInv, Types
<1>1. cpu.at = "copy" /\ UNCHANGED <<drv, mem, dev, flags>>
  BY DEF Copy
<1>2. cpu' = [at |-> "repost", entry |-> cpu.entry]
  BY <1>1, CpuReturns DEF Copy
<1>3. cpu.entry \in Entries /\ cpu'.at = "repost" /\ cpu'.entry = cpu.entry /\ cpu' \in CpuType
  BY <1>1, <1>2, CpuFields DEF CpuType
<1>4. drv.stage = "ready" /\ ~Quarantined /\ cpu.entry.descriptor \in Descriptors
  <2>1. /\ drv.stage = "ready" /\ ~Quarantined /\ drv.rx.cursor > 0 /\ BatchValid(drv.rx)
        /\ cpu.entry = drv.rx.entries[drv.rx.cursor]
    BY <1>1 DEF DriverInv, Busy
  <2>2. drv.rx.cursor \in Nat /\ drv.rx.entries \in Seq(Entries)
    BY DEF DrvType, RxType
  <2> QED
    BY <2>1, <2>2 DEF BatchValid
<1> DEFINE b == mem.buffers[cpu.entry.descriptor]
<1>5. b \in Nat
  BY <1>4 DEF MemType
<1>6. /\ hist'.arrived = hist.arrived /\ hist'.sent = hist.sent
      /\ hist'.reported = hist.reported
      /\ cpu.entry.length = "frame" => hist'.delivered = hist.delivered \o <<b>>
      /\ cpu.entry.length # "frame" => hist'.delivered = hist.delivered \o <<>>
  BY DEF Copy, HistType
<1>7. hist.delivered \in Seq(Nat) /\ hist.arrived \in Seq({"frame", "oversize"})
  BY DEF HistType
<1>8. hist.delivered \o <<>> = hist.delivered
  BY <1>7
<1>9. hist' \in HistType
  <2> DEFINE more == hist.delivered \o (IF cpu.entry.length = "frame" THEN <<b>> ELSE <<>>)
  <2>1. more \in Seq(Nat)
    BY <1>5, <1>7
  <2>2. hist' = [hist EXCEPT !.delivered = more]
    BY DEF Copy
  <2> HIDE DEF more
  <2> QED
    BY <2>1, <2>2, Zenon DEF HistType
<1>10. Types'
  BY <1>1, <1>3, <1>9
<1>11. BringupInv'
  BY <1>1, <1>4, BringupKept
<1>12. DriverInv'
  BY <1>1, <1>3, <1>4 DEF DriverInv, Busy, Sending, Quarantined
<1>13. ReceiveInv'
  <2> SUFFICES ASSUME ~dev.rogue PROVE ReceiveInv'
    BY <1>1, Zenon DEF ReceiveInv
  <2>1. Returning' = Returning
    BY <1>1, <1>3 DEF Returning
  <2>2. Consumed' = Consumed
    BY <1>1, <1>6 DEF Consumed
  <2>3. /\ Consumed > 0 /\ b = Consumed /\ hist.arrived[Consumed] = cpu.entry.length
        /\ Covered(hist.delivered, hist.arrived, Consumed - 1)
    BY <1>1, <1>4, Zenon DEF ReceiveInv
  <2>4. /\ hist.arrived[b] = "frame" => Covered(hist.delivered \o <<b>>, hist.arrived, b)
        /\ hist.arrived[b] # "frame" => Covered(hist.delivered, hist.arrived, b)
    BY <1>5, <1>7, <2>3, CoveredNext, Zenon
  <2>5. Covered(hist'.delivered, hist'.arrived, Consumed')
    BY <1>6, <1>8, <2>2, <2>3, <2>4, Zenon
  <2> QED
    BY <1>1, <1>3, <1>4, <1>6, <2>1, <2>2, <2>5, Zenon DEF ReceiveInv
<1>14. TransmitInv'
  BY <1>1, <1>3, <1>6, TransmitKept DEF Sending
<1>15. WakeInv'
  BY <1>1, <1>3 DEF WakeInv, Sending, Quarantined
<1> QED
  BY <1>10, <1>11, <1>12, <1>13, <1>14, <1>15

\* The call that returns a descriptor, between its steps.
LEMMA BusyFacts ==
  ASSUME NetInv, Busy
  PROVE  /\ drv.stage = "ready" /\ ~Quarantined /\ cpu.entry \in Entries
         /\ cpu.entry.descriptor \in Descriptors /\ Returning = {cpu.entry.descriptor}
         /\ drv.rx.used \in Idx /\ dev.used \in Idx /\ dev.seen \in Idx /\ mem.available \in Idx
         /\ Distance(drv.rx.used, mem.available) = N - 1
         /\ mem.available % N \in Descriptors
<1>1. /\ drv.stage = "ready" /\ ~Quarantined /\ drv.rx.cursor > 0 /\ BatchValid(drv.rx)
      /\ cpu.entry = drv.rx.entries[drv.rx.cursor]
      /\ Distance(drv.rx.used, mem.available) = N - 1
  BY DEF NetInv, DriverInv, Busy
<1>2. /\ drv.rx.cursor \in Nat /\ drv.rx.entries \in Seq(Entries)
      /\ drv.rx.used \in Idx /\ dev.used \in Idx /\ dev.seen \in Idx /\ mem.available \in Idx
  BY DEF NetInv, Types, DrvType, RxType, DevType, MemType
<1>3. cpu.entry \in Entries
  BY CpuFields DEF NetInv, Types, Busy
<1>4. cpu.entry.descriptor \in Descriptors
  BY <1>1, <1>2 DEF BatchValid
<1>5. Returning = {cpu.entry.descriptor}
  BY DEF Returning, Busy
<1>6. mem.available \in Nat
  BY <1>2, Sizes DEF Idx
<1>7. mem.available % N \in Descriptors
  BY <1>6, SlotType, 0 \in Nat
<1> QED
  BY <1>1, <1>2, <1>3, <1>4, <1>5, <1>7

\* The descriptor is written to the available ring.
LEMMA StepRepost == NetInv /\ Repost => NetInv'
<1> SUFFICES ASSUME NetInv, Repost PROVE NetInv'
  OBVIOUS
<1> USE DEF NetInv, Types
<1>1. cpu.at = "repost" /\ UNCHANGED <<drv, dev, flags, hist>> /\ Busy
  BY DEF Repost, Busy
<1>2. cpu' = [at |-> "publish", entry |-> cpu.entry]
  BY <1>1, CpuReturns DEF Repost
<1>3. cpu'.at = "publish" /\ cpu'.entry = cpu.entry /\ cpu' \in CpuType
  BY <1>1, <1>2, BusyFacts DEF CpuType
<1>4. drv.rx_available = mem.available
  BY DEF DriverInv
<1> DEFINE p == mem.available % N
           d == cpu.entry.descriptor
<1>5. p \in Descriptors /\ d \in Descriptors /\ drv.stage = "ready" /\ ~Quarantined
  BY <1>1, BusyFacts
<1>6. mem' = [mem EXCEPT !.ring[p] = d]
  BY <1>4 DEF Repost
<1> HIDE DEF p
<1>7. /\ mem'.ring = [mem.ring EXCEPT ![p] = d] /\ mem'.available = mem.available
      /\ mem'.buffers = mem.buffers /\ mem'.tx_available = mem.tx_available
      /\ mem'.tx_buffer = mem.tx_buffer
  BY <1>6 DEF MemType
<1>8. mem' \in MemType
  BY <1>5, <1>6 DEF MemType
<1>9. mem'.ring[p] = d /\ \A k \in Descriptors : k # p => mem'.ring[k] = mem.ring[k]
  BY <1>5, <1>7 DEF MemType
<1>10. Types'
  BY <1>1, <1>3, <1>8
<1>11. BringupInv'
  BY <1>1, <1>5, BringupKept
<1>12. DriverInv'
  BY <1>1, <1>3, <1>4, <1>5, <1>7, <1>9, Zenon DEF DriverInv, Busy, Sending, Quarantined, p
<1>13. ReceiveInv'
  <2> SUFFICES ASSUME ~dev.rogue PROVE ReceiveInv'
    BY <1>1, Zenon DEF ReceiveInv
  <2>1. Returning = {d} /\ Returning' = {d}
    BY <1>1, <1>3 DEF Returning
  <2>2. Consumed' = Consumed
    BY <1>1 DEF Consumed
  <2>3. Ownership(drv.rx.used, dev.used, dev.seen, mem.available, Ids(dev.ring), mem.ring,
                  dev.held, {d})
    BY <1>5, <2>1, Zenon DEF ReceiveInv
  <2>4. /\ drv.rx.used \in Idx /\ dev.used \in Idx /\ dev.seen \in Idx /\ mem.available \in Idx
        /\ Distance(drv.rx.used, mem.available) < N
    BY <1>1, BusyFacts, Sizes
  <2>5. \A k \in Descriptors : k # mem.available % N => mem'.ring[k] = mem.ring[k]
    BY <1>9 DEF p
  <2>6. Ownership(drv.rx.used, dev.used, dev.seen, mem.available, Ids(dev.ring), mem'.ring,
                  dev.held, {d})
    BY <2>3, <2>4, <2>5, OwnRepost, Zenon
  <2> QED
    BY <1>1, <1>3, <1>5, <1>7, <2>1, <2>2, <2>6, Zenon DEF ReceiveInv
<1>14. TransmitInv'
  BY <1>1, <1>3, <1>7, TransmitKept DEF Sending
<1>15. WakeInv'
  BY <1>1, <1>3 DEF WakeInv, Sending, Quarantined
<1> QED
  BY <1>10, <1>11, <1>12, <1>13, <1>14, <1>15

\* The new index is published.
LEMMA StepPublish == NetInv /\ Publish => NetInv'
<1> SUFFICES ASSUME NetInv, Publish PROVE NetInv'
  OBVIOUS
<1> USE DEF NetInv, Types
<1>1. cpu.at = "publish" /\ UNCHANGED <<dev, flags, hist>> /\ Busy /\ cpu' = Idle
  BY DEF Publish, Busy
<1>2. cpu'.at = "idle" /\ cpu' \in CpuType
  BY <1>1 DEF Idle, CpuType
<1> DEFINE d == cpu.entry.descriptor
           a == mem.available
<1>3. /\ drv.rx_available = a /\ mem.ring[a % N] = d /\ drv.stage = "ready" /\ ~Quarantined
      /\ drv.rx.used \in Idx /\ dev.used \in Idx /\ dev.seen \in Idx /\ a \in Idx
      /\ Distance(drv.rx.used, a) = N - 1
  BY <1>1, BusyFacts DEF DriverInv
<1>4. Succ(a) \in Idx
  BY <1>3, SuccValue
<1>5. drv' = [drv EXCEPT !.rx_available = Succ(a)] /\ mem' = [mem EXCEPT !.available = Succ(a)]
  <2>1. drv' = [drv EXCEPT !.rx_available = Succ(a)]
    BY <1>3 DEF Publish, Succ
  <2>2. drv'.rx_available = Succ(a)
    BY <2>1 DEF DrvType
  <2> QED
    BY <2>1, <2>2 DEF Publish
<1> HIDE DEF a
<1>6. /\ drv' \in DrvType /\ drv'.stage = drv.stage /\ drv'.rx = drv.rx /\ drv'.tx = drv.tx
      /\ drv'.rx_available = Succ(a)
  BY <1>4, <1>5 DEF DrvType
<1>7. /\ mem' \in MemType /\ mem'.available = Succ(a) /\ mem'.ring = mem.ring
      /\ mem'.buffers = mem.buffers /\ mem'.tx_available = mem.tx_available
      /\ mem'.tx_buffer = mem.tx_buffer
  BY <1>4, <1>5 DEF MemType
<1>8. Types'
  BY <1>1, <1>2, <1>6, <1>7
<1>9. BringupInv'
  BY <1>1, <1>3, <1>6, BringupKept
<1>10. Distance(drv.rx.used, Succ(a)) = N
  <2>1. Distance(drv.rx.used, a) + 1 < W /\ Distance(drv.rx.used, a) + 1 = N
    BY <1>3, Sizes
  <2> QED
    BY <1>3, <2>1, Distances
<1>11. DriverInv'
  BY <1>1, <1>2, <1>3, <1>6, <1>7, <1>10, Zenon DEF DriverInv, Busy, Sending, Quarantined
<1>12. ReceiveInv'
  <2> SUFFICES ASSUME ~dev.rogue PROVE ReceiveInv'
    BY <1>1, Zenon DEF ReceiveInv
  <2>1. Returning = {d} /\ Returning' = {}
    BY <1>1, <1>2 DEF Returning
  <2>2. Consumed' = Consumed
    BY <1>1, <1>6 DEF Consumed
  <2>3. Ownership(drv.rx.used, dev.used, dev.seen, a, Ids(dev.ring), mem.ring, dev.held, {d})
    BY <1>3, <2>1, Zenon DEF ReceiveInv, a
  <2>4. Distance(drv.rx.used, a) < N
    BY <1>3, Sizes
  <2>5. Ownership(drv.rx.used, dev.used, dev.seen, Succ(a), Ids(dev.ring), mem.ring, dev.held, {})
    BY <1>3, <2>3, <2>4, OwnPublish, Zenon
  <2> QED
    BY <1>1, <1>2, <1>3, <1>6, <1>7, <2>1, <2>2, <2>5, Zenon DEF ReceiveInv
<1>13. TransmitInv'
  BY <1>1, <1>2, <1>6, <1>7, TransmitKept DEF Sending
<1>14. WakeInv'
  BY <1>1, <1>2, <1>6 DEF WakeInv, Sending, Quarantined
<1> QED
  BY <1>8, <1>9, <1>11, <1>12, <1>13, <1>14

-----------------------------------------------------------------------------
(* transmit()                                                              *)

\* A step of transmit() leaves the receive side alone.
LEMMA SendStep ==
  ASSUME NetInv, drv.stage = "ready", cpu.at \in {"idle"} \cup Sending,
         drv' \in DrvType, drv'.stage = "ready", drv'.rx = drv.rx,
         drv'.rx_available = drv.rx_available,
         cpu' \in CpuType, cpu'.at \in {"idle"} \cup Sending,
         cpu'.at \in Sending <=> drv'.tx.phase = "Device",
         cpu'.at \in Sending => ~drv.rx.quarantined,
         mem' \in MemType, mem'.ring = mem.ring, mem'.available = mem.available,
         mem'.buffers = mem.buffers,
         hist' \in HistType, hist'.arrived = hist.arrived, hist'.delivered = hist.delivered,
         UNCHANGED <<dev, flags>>
  PROVE  Types' /\ BringupInv' /\ DriverInv' /\ ReceiveInv'
<1> USE DEF NetInv, Types
<1>1. dev' = dev /\ flags' = flags
  OBVIOUS
<1>2. Types'
  BY <1>1
<1>3. BringupInv'
  BY <1>1, BringupKept
<1>4. ~Busy /\ ~Busy'
  BY DEF Busy, Sending
<1>5. DriverInv'
  BY <1>1, <1>4 DEF DriverInv, Sending, Quarantined
<1>6. Returning' = Returning
  BY DEF Returning, Sending
<1>7. ReceiveInv'
  BY <1>1, <1>6, ReceiveKept DEF Sending
<1> QED
  BY <1>2, <1>3, <1>5, <1>7

\* What holds while transmit() runs.
LEMMA SendFacts ==
  ASSUME NetInv, cpu.at \in Sending
  PROVE  /\ drv.stage = "ready" /\ ~Quarantined /\ ~drv.rx.quarantined
         /\ drv.tx.phase = "Device" /\ drv.tx \in TxType /\ drv.tx.available \in Idx
         /\ cpu.observed \in Nat /\ flags.epoch \in Nat /\ cpu.observed <= flags.epoch
<1>1. drv.stage = "ready" /\ ~Quarantined /\ drv.tx.phase = "Device"
  BY DEF NetInv, DriverInv, Sending
<1>2. ~drv.rx.quarantined
  BY <1>1 DEF Quarantined
<1>3. drv.tx \in TxType /\ drv.tx.available \in Idx /\ flags.epoch \in Nat
  BY DEF NetInv, Types, DrvType, TxType, FlagsType
<1>4. cpu.observed \in Nat /\ cpu.observed <= flags.epoch
  BY CpuFields DEF NetInv, Types, WakeInv
<1> QED
  BY <1>1, <1>2, <1>3, <1>4

\* The buffer is reserved.
LEMMA StepTransmit == NetInv /\ Transmit => NetInv'
<1> SUFFICES ASSUME NetInv, Transmit PROVE NetInv'
  OBVIOUS
<1> USE DEF NetInv, Types
<1>1. /\ drv.stage = "ready" /\ cpu.at = "idle" /\ ~Quarantined /\ ~drv.rx.quarantined
      /\ drv.tx.phase = "Idle" /\ UNCHANGED <<mem, dev, flags>>
  BY DEF Transmit, Ready, Quarantined
<1>2. drv.tx \in TxType /\ drv.tx.used \in Idx /\ drv.tx.available \in Idx /\ flags.epoch \in Nat
  BY DEF DrvType, TxType, FlagsType
<1>3. Succ(drv.tx.available) \in Idx
  BY <1>2, SuccValue
<1>4. begin(drv.tx) = [drv.tx EXCEPT !.phase = "Device", !.available = Succ(drv.tx.available)]
  BY DEF begin, Succ
<1>5. /\ begin(drv.tx) \in TxType /\ begin(drv.tx).phase = "Device"
      /\ begin(drv.tx).used = drv.tx.used /\ begin(drv.tx).available = Succ(drv.tx.available)
  BY <1>2, <1>3, <1>4, Zenon DEF TxType
<1>6. drv' = [drv EXCEPT !.tx = begin(drv.tx)]
  BY DEF Transmit
<1>7. /\ drv' \in DrvType /\ drv'.stage = "ready" /\ drv'.rx = drv.rx
      /\ drv'.rx_available = drv.rx_available /\ drv'.tx = begin(drv.tx)
  BY <1>1, <1>5, <1>6 DEF DrvType
<1>8. cpu' = [at |-> "fill", observed |-> flags.epoch]
  BY DEF Transmit
<1>9. cpu' \in CpuType /\ cpu'.at = "fill" /\ cpu'.observed = flags.epoch
  BY <1>2, <1>8 DEF CpuType
<1>10. /\ hist' \in HistType /\ hist'.arrived = hist.arrived
       /\ hist'.delivered = hist.delivered /\ hist'.sent = hist.sent
       /\ hist'.reported = hist.reported
  <2>1. hist' = [hist EXCEPT !.begun = hist.begun + 1] /\ hist.begun + 1 \in Nat
    BY DEF Transmit, HistType
  <2> QED
    BY <2>1, Zenon DEF HistType
<1>11. Types' /\ BringupInv' /\ DriverInv' /\ ReceiveInv'
  BY <1>1, <1>5, <1>7, <1>9, <1>10, SendStep DEF Sending
<1>12. ~dev.rogue => /\ drv.tx.available = drv.tx.used
                     /\ dev.tx_used = drv.tx.used /\ mem.tx_available = drv.tx.used
  BY <1>1 DEF TransmitInv
<1>13. TransmitInv'
  BY <1>1, <1>5, <1>7, <1>9, <1>10, <1>12 DEF TransmitInv
<1>14. WakeInv'
  <2>1. cpu'.observed <= flags'.epoch
    BY <1>1, <1>2, <1>9
  <2>2. cpu'.at = "fill" /\ Quarantined' = FALSE
    BY <1>1, <1>5, <1>7, <1>9, Zenon DEF Quarantined
  <2> QED
    BY <1>1, <1>5, <1>7, <1>12, <2>1, <2>2, Zenon DEF WakeInv, Sending
<1> QED
  BY <1>11, <1>13, <1>14

\* The frame is written to the buffer.
LEMMA StepFill == NetInv /\ Fill => NetInv'
<1> SUFFICES ASSUME NetInv, Fill PROVE NetInv'
  OBVIOUS
<1> USE DEF NetInv, Types
<1>1. cpu.at = "fill" /\ UNCHANGED <<drv, dev, flags, hist>> /\ cpu.at \in Sending
  BY DEF Fill, Sending
<1>2. cpu' = [at |-> "notify", observed |-> cpu.observed]
  BY <1>1, CpuSends DEF Fill
<1>3. cpu' \in CpuType /\ cpu'.at = "notify" /\ cpu'.observed = cpu.observed
  BY <1>1, <1>2, SendFacts DEF CpuType
<1>4. hist.begun \in Nat
  BY DEF HistType
<1>5. mem' = [mem EXCEPT !.tx_buffer = hist.begun]
  BY DEF Fill
<1>6. /\ mem' \in MemType /\ mem'.ring = mem.ring /\ mem'.available = mem.available
      /\ mem'.buffers = mem.buffers /\ mem'.tx_available = mem.tx_available
  BY <1>4, <1>5 DEF MemType
<1>7. Types' /\ BringupInv' /\ DriverInv' /\ ReceiveInv'
  BY <1>1, <1>3, <1>6, SendFacts, SendStep DEF Sending
<1>8. ~dev.rogue => dev.tx_used = drv.tx.used
  BY <1>1 DEF TransmitInv
<1>9. TransmitInv'
  BY <1>1, <1>3, <1>6, <1>8 DEF TransmitInv
<1>10. WakeInv'
  BY <1>1, <1>3, <1>8 DEF WakeInv, Sending, Quarantined
<1> QED
  BY <1>7, <1>9, <1>10

\* The buffer is published and the device notified.
LEMMA StepNotify == NetInv /\ Notify => NetInv'
<1> SUFFICES ASSUME NetInv, Notify PROVE NetInv'
  OBVIOUS
<1> USE DEF NetInv, Types
<1>1. cpu.at = "notify" /\ UNCHANGED <<drv, dev, flags, hist>> /\ cpu.at \in Sending
  BY DEF Notify, Sending
<1>2. cpu' = [at |-> "spin", observed |-> cpu.observed, spin |-> 0]
  BY DEF Notify
<1>3. cpu' \in CpuType /\ cpu'.at = "spin" /\ cpu'.observed = cpu.observed
  BY <1>1, <1>2, SendFacts DEF CpuType
<1>4. mem' = [mem EXCEPT !.tx_available = drv.tx.available] /\ drv.tx.available \in Idx
  BY <1>1, SendFacts DEF Notify
<1>5. /\ mem' \in MemType /\ mem'.ring = mem.ring /\ mem'.available = mem.available
      /\ mem'.buffers = mem.buffers /\ mem'.tx_available = drv.tx.available
      /\ mem'.tx_buffer = mem.tx_buffer
  BY <1>4 DEF MemType
<1>6. Types' /\ BringupInv' /\ DriverInv' /\ ReceiveInv'
  BY <1>1, <1>3, <1>5, SendFacts, SendStep DEF Sending
<1>7. ~dev.rogue => dev.tx_used = drv.tx.used
  BY <1>1 DEF TransmitInv
<1>8. TransmitInv'
  BY <1>1, <1>3, <1>5, <1>7 DEF TransmitInv
<1>9. WakeInv'
  BY <1>1, <1>3, <1>7 DEF WakeInv, Sending, Quarantined
<1> QED
  BY <1>6, <1>8, <1>9

\* One turn of the wait, up to its limit.
LEMMA StepSpin == NetInv /\ Spin => NetInv'
<1> SUFFICES ASSUME NetInv, Spin PROVE NetInv'
  OBVIOUS
<1> USE DEF NetInv, Types
<1>1. cpu.at = "spin" /\ UNCHANGED <<mem, dev, flags, hist>> /\ cpu.at \in Sending
  BY DEF Spin, Sending
<1>2. cpu.spin \in Nat
  BY <1>1, CpuFields
<1>3. CASE cpu.spin = POLL_LIMIT
  <2>1. drv' = [drv EXCEPT !.tx = Timeout(drv.tx)] /\ cpu' = Idle
    BY <1>3 DEF Spin
  <2>2. /\ Timeout(drv.tx) \in TxType /\ Timeout(drv.tx).phase = "Quarantined"
        /\ Timeout(drv.tx).used = drv.tx.used /\ Timeout(drv.tx).available = drv.tx.available
    BY <1>1, SendFacts DEF Timeout, TxType
  <2>3. /\ drv' \in DrvType /\ drv'.stage = drv.stage /\ drv'.rx = drv.rx
        /\ drv'.rx_available = drv.rx_available /\ drv'.tx = Timeout(drv.tx)
    BY <2>1, <2>2 DEF DrvType
  <2>4. cpu' \in CpuType /\ cpu'.at = "idle"
    BY <2>1 DEF Idle, CpuType
  <2>5. Types' /\ BringupInv' /\ DriverInv' /\ ReceiveInv'
    BY <1>1, <2>2, <2>3, <2>4, SendFacts, SendStep DEF Sending
  <2>6. TransmitInv'
    BY <1>1, <2>2, <2>3, <2>4, SendFacts DEF TransmitInv
  <2>7. WakeInv'
    BY <2>2, <2>3, <2>4 DEF WakeInv, Sending, Quarantined
  <2> QED
    BY <2>5, <2>6, <2>7
<1>4. CASE cpu.spin # POLL_LIMIT
  <2>1. drv' = drv
    BY <1>4 DEF Spin
  <2>2. \/ /\ flags.epoch # cpu.observed \/ (cpu.spin # 0 /\ RecoveryDue(cpu.spin))
           /\ cpu' = [at |-> "used", observed |-> flags.epoch, spin |-> cpu.spin]
        \/ /\ flags.epoch = cpu.observed
           /\ cpu' = [at |-> "spin", observed |-> cpu.observed, spin |-> cpu.spin + 1]
    BY <1>4 DEF Spin, Again
  <2>3. /\ cpu' \in CpuType /\ cpu'.at \in {"spin", "used"} /\ cpu'.observed \in Nat
        /\ cpu'.observed <= flags.epoch
        /\ cpu'.at = "spin" => cpu'.observed = cpu.observed
    BY <1>1, <1>2, <2>2, SendFacts, SMTT(20) DEF CpuType
  <2>4. Types' /\ BringupInv' /\ DriverInv' /\ ReceiveInv'
    BY <1>1, <2>1, <2>3, SendFacts, SendStep DEF Sending
  <2>5. TransmitInv'
    BY <1>1, <2>1, <2>3 DEF TransmitInv
  <2>6. WakeInv'
    BY <1>1, <2>1, <2>3 DEF WakeInv, Sending, Quarantined
  <2> QED
    BY <2>4, <2>5, <2>6
<1> QED
  BY <1>3, <1>4

\* The used index is read; a completion ends the call, a bad one quarantines.
LEMMA StepReadUsed == NetInv /\ ReadUsed => NetInv'
<1> SUFFICES ASSUME NetInv, ReadUsed PROVE NetInv'
  OBVIOUS
<1> USE DEF NetInv, Types
<1>1. cpu.at = "used" /\ UNCHANGED <<mem, dev, flags>> /\ cpu.at \in Sending
  BY DEF ReadUsed, Sending
<1>2. CASE Unchanged
  <2>1. /\ drv' = drv /\ hist' = hist
        /\ cpu' = [at |-> "spin", observed |-> cpu.observed, spin |-> cpu.spin + 1]
    BY <1>2 DEF ReadUsed, Again
  <2>2. cpu.spin \in Nat
    BY <1>1, CpuFields
  <2>3. cpu' \in CpuType /\ cpu'.at = "spin" /\ cpu'.observed = cpu.observed
    BY <1>1, <2>1, <2>2, SendFacts, SMTT(20) DEF CpuType
  <2>4. Types' /\ BringupInv' /\ DriverInv' /\ ReceiveInv'
    BY <1>1, <2>1, <2>3, SendFacts, SendStep DEF Sending
  <2>5. TransmitInv'
    BY <1>1, <2>1, <2>3 DEF TransmitInv
  <2>6. WakeInv'
    BY <1>1, <1>2, <2>1, <2>3 DEF WakeInv, Sending, Quarantined, Unchanged
  <2> QED
    BY <2>4, <2>5, <2>6
<1>3. CASE ~Unchanged
  <2> DEFINE tx == complete(drv.tx, dev.tx_used, dev.tx_id)
  <2>1. /\ drv' = [drv EXCEPT !.tx = tx] /\ cpu' = Idle
        /\ hist' = IF tx.phase = "Idle"
                     THEN [hist EXCEPT !.reported = Append(hist.reported, mem.tx_buffer)]
                     ELSE hist
    BY <1>3 DEF ReadUsed
  <2>2. dev.tx_used \in Idx /\ drv.tx.used \in Idx
    BY DEF DevType, DrvType, TxType
  <2>3. /\ tx \in TxType /\ tx.available = drv.tx.available /\ tx.phase # "Device"
        /\ tx.phase \in {"Idle", "Quarantined"}
    BY <1>1, <2>2, SendFacts, Zenon DEF complete, TxType
  <2>4. ~dev.rogue => /\ tx.phase = "Idle" /\ tx.used = dev.tx_used
                      /\ tx.available = tx.used /\ mem.tx_available = tx.used
                      /\ hist.sent = Append(hist.reported, mem.tx_buffer)
    <3> SUFFICES ASSUME ~dev.rogue
                 PROVE  /\ tx.phase = "Idle" /\ tx.used = dev.tx_used
                        /\ tx.available = tx.used /\ mem.tx_available = tx.used
                        /\ hist.sent = Append(hist.reported, mem.tx_buffer)
      OBVIOUS
    <3>1. dev.tx_used # drv.tx.used
      BY <1>3 DEF Unchanged
    <3>2. /\ dev.tx_id = 0 /\ drv.tx.available = Succ(drv.tx.used)
          /\ mem.tx_available = drv.tx.available /\ dev.tx_used = mem.tx_available
          /\ hist.sent = Append(hist.reported, mem.tx_buffer)
      BY <1>1, <3>1, SendFacts DEF TransmitInv
    <3>3. Distance(drv.tx.used, dev.tx_used) = 1
      BY <2>2, <3>2, DistanceOne, Zenon
    <3>4. tx = [drv.tx EXCEPT !.used = dev.tx_used, !.phase = "Idle"]
      BY <1>1, <3>2, <3>3, SendFacts, Zenon DEF complete
    <3> QED
      BY <1>1, <3>2, <3>4, SendFacts, Zenon DEF TxType
  <2> HIDE DEF tx
  <2>5. /\ drv' \in DrvType /\ drv'.stage = drv.stage /\ drv'.rx = drv.rx
        /\ drv'.rx_available = drv.rx_available /\ drv'.tx = tx
    BY <2>1, <2>3 DEF DrvType
  <2>6. cpu' \in CpuType /\ cpu'.at = "idle"
    BY <2>1 DEF Idle, CpuType
  <2>7. Append(hist.reported, mem.tx_buffer) \in Seq(Nat)
    BY DEF HistType, MemType
  <2>8. /\ hist' \in HistType /\ hist'.arrived = hist.arrived
        /\ hist'.delivered = hist.delivered /\ hist'.sent = hist.sent
        /\ tx.phase = "Idle" => hist'.reported = Append(hist.reported, mem.tx_buffer)
    BY <2>1, <2>7, Zenon DEF HistType
  <2>9. Types' /\ BringupInv' /\ DriverInv' /\ ReceiveInv'
    BY <1>1, <2>3, <2>5, <2>6, <2>8, SendFacts, SendStep DEF Sending
  <2>10. TransmitInv'
    BY <1>1, <2>4, <2>5, <2>6, <2>8 DEF TransmitInv
  <2>11. WakeInv'
    BY <1>1, <2>5, <2>6, SendFacts DEF WakeInv, Sending, Quarantined
  <2> QED
    BY <2>9, <2>10, <2>11
<1> QED
  BY <1>2, <1>3
=============================================================================
