------------------------- MODULE VirtioNetProofs -------------------------
(***************************************************************************)
(* The safety properties of VirtioNet for every ring size, index width, poll *)
(* limit and number of frames.                                             *)
(***************************************************************************)
EXTENDS VirtioNetDriver, FiniteSetTheorems

-----------------------------------------------------------------------------
(* Bring-up.                                                               *)

\* The boot state.
LEMMA NetInit == Init => NetInv
<1> SUFFICES ASSUME Init PROVE NetInv
  OBVIOUS
<1> USE DEF Init
<1>1. N \in Nat /\ W \in Nat /\ 0 \in Idx /\ 0 \in Descriptors
  BY VirtioNetAssumption DEF Idx, Descriptors
<1>2. RxBatch(0) \in RxType /\ TxQueue \in TxType
  BY <1>1 DEF RxBatch, RxType, TxQueue, TxType
<1>3. EMPTY \in Entries
  BY <1>1 DEF EMPTY, Entries, Lengths
<1>4. Types
  <2>1. drv \in DrvType
    BY <1>1, <1>2 DEF DrvType, Bringup
  <2>2. cpu \in CpuType
    BY DEF CpuType, Idle
  <2>3. mem \in MemType
    BY <1>1 DEF MemType
  <2>4. dev \in DevType
    BY <1>1, <1>3 DEF DevType
  <2>5. flags \in FlagsType /\ hist \in HistType
    BY DEF FlagsType, HistType
  <2> QED
    BY <2>1, <2>2, <2>3, <2>4, <2>5 DEF Types
<1>5. BringupInv
  BY DEF BringupInv, Bringup, Idle
<1>6. DriverInv
  BY DEF DriverInv, BatchValid, RxBatch, TxQueue, Idle, Busy, Sending
<1>7. ReceiveInv
  BY DEF ReceiveInv
<1>8. TransmitInv
  BY DEF TransmitInv, TxQueue, Idle
<1>9. WakeInv
  BY DEF WakeInv, Idle, Sending
<1> QED
  BY <1>4, <1>5, <1>6, <1>7, <1>8, <1>9 DEF NetInv

\* A step of init() that does not start the device.
LEMMA BringupStep ==
  ASSUME NetInv, drv.stage \in Bringup, drv'.stage # "ready",
         drv' = [drv EXCEPT !.stage = drv'.stage], dev' \in DevType,
         drv'.stage \in Bringup \cup {"ne2000"},
         dev'.seen = dev.seen, dev'.held = dev.held, dev'.used = dev.used,
         dev'.tx_used = dev.tx_used, dev'.tx_id = dev.tx_id, dev'.rogue <=> dev.rogue,
         UNCHANGED <<cpu, mem, flags, hist>>, BringupInv'
  PROVE  NetInv'
<1> USE DEF NetInv, Types
<1>1. /\ drv' \in DrvType /\ drv'.rx = drv.rx /\ drv'.tx = drv.tx
      /\ drv'.rx_available = drv.rx_available
  BY DEF DrvType
<1>2. Types'
  BY <1>1
<1>3. cpu.at = "idle" /\ cpu' = cpu
  BY DEF BringupInv, Bringup
<1>4. DriverInv'
  BY <1>1, <1>3 DEF DriverInv, Busy, Sending
<1>5. ReceiveInv'
  BY DEF ReceiveInv
<1>6. TransmitInv'
  BY <1>1, <1>3, TransmitKept
<1>7. WakeInv'
  BY <1>3 DEF WakeInv, Sending
<1> QED
  BY <1>2, <1>4, <1>5, <1>6, <1>7

\* The device is found, or the NE2000 is tried.
LEMMA StepDiscover == NetInv /\ Discover => NetInv'
<1> SUFFICES ASSUME NetInv, Discover PROVE NetInv'
  OBVIOUS
<1> USE DEF NetInv, Types
<1>1. PICK s \in {"reset", "ne2000"} : drv' = [drv EXCEPT !.stage = s]
  BY DEF Discover
<1>2. drv'.stage = s /\ drv'.rx = drv.rx /\ drv'.tx = drv.tx
  BY <1>1 DEF DrvType
<1>3. drv.stage = "discover" /\ UNCHANGED <<cpu, mem, dev, flags, hist>>
  BY DEF Discover
<1>4. BringupInv'
  BY <1>2, <1>3 DEF BringupInv, Bringup
<1> QED
  BY <1>1, <1>2, <1>3, <1>4, BringupStep DEF Bringup

\* A stage of init() succeeds, or the device is given up.
LEMMA StepHandshake == NetInv /\ Handshake => NetInv'
<1> SUFFICES ASSUME NetInv, Handshake PROVE NetInv'
  OBVIOUS
<1> USE DEF NetInv, Types
<1>1. drv.stage \in {"reset", "features", "config", "msix", "rx_queue", "tx_queue"}
  BY DEF Handshake, NextStage
<1>2. UNCHANGED <<cpu, mem, flags, hist>>
  BY DEF Handshake
<1>3. /\ drv.rx = RxBatch(0) /\ drv.tx = TxQueue /\ cpu.at = "idle"
      /\ dev.seen = 0 /\ dev.held = {} /\ dev.used = 0 /\ dev.tx_used = 0 /\ ~dev.rogue
      /\ hist.arrived = <<>> /\ hist.delivered = <<>>
      /\ "DRIVER_OK" \notin dev.status /\ "FAILED" \notin dev.status
  BY <1>1 DEF BringupInv, Bringup
<1> DEFINE answered == [dev EXCEPT !.status = StatusAfter(drv.stage, @),
                                   !.enabled = @ \union ({drv.stage} \intersect {"rx_queue", "tx_queue"})]
           refused == fail([dev EXCEPT !.status = IF drv.stage = "reset" THEN {} ELSE @])
<1>4. CASE dev' = answered /\ drv' = [drv EXCEPT !.stage = NextStage[drv.stage]]
  <2>1. /\ dev'.status = StatusAfter(drv.stage, dev.status)
        /\ dev'.enabled = dev.enabled \union ({drv.stage} \intersect {"rx_queue", "tx_queue"})
        /\ dev'.seen = dev.seen /\ dev'.held = dev.held /\ dev'.used = dev.used
        /\ dev'.tx_used = dev.tx_used /\ dev'.tx_id = dev.tx_id /\ (dev'.rogue <=> dev.rogue)
    BY <1>4 DEF DevType
  <2>2. dev'.status \in SUBSET {"ACKNOWLEDGE", "DRIVER", "FEATURES_OK", "DRIVER_OK", "FAILED"}
    BY <2>1 DEF StatusAfter, DevType
  <2>3. dev' \in DevType
    BY <1>4, <2>1, <2>2, Zenon DEF DevType
  <2>4. drv'.stage = NextStage[drv.stage] /\ drv'.rx = drv.rx /\ drv'.tx = drv.tx
    BY <1>4 DEF DrvType
  <2>5. /\ drv.stage = "reset" => drv'.stage = "features"
        /\ drv.stage = "features" => drv'.stage = "config"
        /\ drv.stage = "config" => drv'.stage = "msix"
        /\ drv.stage = "msix" => drv'.stage = "rx_queue"
        /\ drv.stage = "rx_queue" => drv'.stage = "tx_queue"
        /\ drv.stage = "tx_queue" => drv'.stage = "start"
    BY <2>4 DEF NextStage
  <2>6. /\ "DRIVER_OK" \notin dev'.status /\ "FAILED" \notin dev'.status
        /\ drv.stage = "features" => "FEATURES_OK" \in dev'.status
        /\ drv.stage \notin {"reset", "features"} => dev'.status = dev.status
    BY <1>3, <2>1 DEF StatusAfter
  <2>7. BringupInv'
    BY <1>1, <1>2, <1>3, <2>1, <2>4, <2>5, <2>6, Zenon DEF BringupInv, Bringup
  <2> QED
    BY <1>1, <1>2, <1>4, <2>1, <2>3, <2>4, <2>5, <2>7, BringupStep DEF Bringup
<1>5. CASE dev' = refused /\ drv' = [drv EXCEPT !.stage = "ne2000"]
  <2>1. /\ dev'.status \subseteq dev.status \cup {"FAILED"}
        /\ dev'.enabled = dev.enabled
        /\ dev'.seen = dev.seen /\ dev'.held = dev.held /\ dev'.used = dev.used
        /\ dev'.tx_used = dev.tx_used /\ dev'.tx_id = dev.tx_id /\ (dev'.rogue <=> dev.rogue)
    BY <1>5 DEF DevType, fail
  <2>2. dev' \in DevType
    BY <1>5, <2>1, Zenon DEF DevType, fail
  <2>3. drv'.stage = "ne2000" /\ drv'.rx = drv.rx /\ drv'.tx = drv.tx
    BY <1>5 DEF DrvType
  <2>4. BringupInv'
    BY <1>1, <1>2, <1>3, <2>1, <2>3 DEF BringupInv, Bringup
  <2> QED
    BY <1>1, <1>2, <1>5, <2>1, <2>2, <2>3, <2>4, BringupStep DEF Bringup
<1> QED
  BY <1>4, <1>5 DEF Handshake

\* The queues are filled and the device is told to run, or it is given up.
LEMMA StepStart == NetInv /\ Start => NetInv'
<1> SUFFICES ASSUME NetInv, Start PROVE NetInv'
  OBVIOUS
<1> USE DEF NetInv, Types
<1>1. drv.stage = "start" /\ UNCHANGED <<cpu, flags, hist>>
  BY DEF Start
<1>2. /\ drv.rx = RxBatch(0) /\ drv.tx = TxQueue /\ cpu.at = "idle"
      /\ dev.seen = 0 /\ dev.held = {} /\ dev.used = 0 /\ dev.tx_used = 0 /\ ~dev.rogue
      /\ hist.arrived = <<>> /\ hist.delivered = <<>>
      /\ "DRIVER_OK" \notin dev.status /\ "FAILED" \notin dev.status
      /\ "FEATURES_OK" \in dev.status /\ dev.enabled = {"rx_queue", "tx_queue"}
  BY <1>1 DEF BringupInv, Bringup
<1>3. CASE /\ mem' = prepare_receive_queue(mem)
           /\ drv' = [drv EXCEPT !.stage = "ready", !.rx_available = N, !.rx = RxBatch(0),
                                 !.tx = TxQueue, !.idle_checks = 0]
           /\ dev' = [dev EXCEPT !.status = @ \union {"DRIVER_OK"}]
  <2>1. N \in Idx /\ 0 \in Idx
    BY VirtioNetAssumption DEF Idx
  <2>2. /\ drv'.stage = "ready" /\ drv'.rx = RxBatch(0) /\ drv'.tx = TxQueue
        /\ drv'.rx_available = N /\ drv' \in DrvType
    BY <1>2, <1>3, <2>1, Zenon DEF DrvType
  <2>3. /\ mem'.ring = [i \in Descriptors |-> i] /\ mem'.available = N
        /\ mem'.tx_available = mem.tx_available /\ mem'.tx_buffer = mem.tx_buffer
        /\ mem' \in MemType
    BY <1>3, <2>1, Zenon DEF MemType, prepare_receive_queue
  <2>4. /\ dev'.status = dev.status \cup {"DRIVER_OK"} /\ dev'.enabled = dev.enabled
        /\ dev'.seen = 0 /\ dev'.held = {} /\ dev'.used = 0 /\ dev'.tx_used = dev.tx_used
        /\ dev'.tx_id = dev.tx_id /\ (dev'.rogue <=> dev.rogue) /\ dev'.ring = dev.ring
    BY <1>2, <1>3 DEF DevType
  <2>5. dev' \in DevType
    BY <1>3 DEF DevType
  <2>6. Types'
    BY <1>1, <2>2, <2>3, <2>5
  <2>7. BringupInv'
    BY <1>2, <2>2, <2>4 DEF BringupInv, Bringup
  <2>8. Distance(0, N) = N /\ Distance(0, 0) = 0
    <3>1. Distance(0, N) = N
      BY OwnInit, Zenon
    <3>2. Distance(0, 0) = 0
      BY <2>1, DistanceValue
    <3> QED
      BY <3>1, <3>2
  <2>9. /\ RxBatch(0).used = 0 /\ RxBatch(0).entries = <<>> /\ RxBatch(0).cursor = 0
        /\ ~RxBatch(0).quarantined
    BY DEF RxBatch
  <2>10. DriverInv'
    BY <1>1, <1>2, <2>2, <2>3, <2>8, <2>9
    DEF DriverInv, BatchValid, Busy, Sending, TxQueue, Quarantined
  <2>11. ReceiveInv'
    <3>1. ~drv'.rx.quarantined /\ "FAILED" \notin dev'.status
      BY <1>2, <2>2, <2>4, <2>9
    <3>2. Returning' = {}
      BY <1>1, <1>2 DEF Returning
    <3>3. Ownership(0, 0, 0, N, Ids(dev.ring), [i \in Descriptors |-> i], {}, {})
      BY OwnInit
    <3>4. BatchCurrent(RxBatch(0), 0, dev.ring)
      BY <2>8, <2>9 DEF BatchCurrent
    <3>5. Consumed' = 0
      BY <1>1, <1>2, <2>2, <2>4, <2>8, <2>9 DEF Consumed
    <3>6. Carried(0, 0, dev'.ring, mem'.buffers, <<>>)
      BY <2>8 DEF Carried
    <3>7. Covered(<<>>, <<>>, 0)
      BY DEF Covered
    <3> QED
      BY <1>1, <1>2, <2>2, <2>3, <2>4, <2>9, <3>1, <3>2, <3>3, <3>4, <3>5, <3>6, <3>7
      DEF ReceiveInv
  <2>12. TransmitInv'
    BY <1>1, <1>2, <2>2, <2>3, <2>4, TransmitKept
  <2>13. WakeInv'
    BY <1>1, <1>2, <2>2, <2>4, <2>8, <2>9 DEF WakeInv, Sending
  <2> QED
    BY <2>6, <2>7, <2>10, <2>11, <2>12, <2>13
<1>4. CASE dev' = fail(dev) /\ drv' = [drv EXCEPT !.stage = "ne2000"] /\ mem' = mem
  <2>1. /\ dev'.status \subseteq dev.status \cup {"FAILED"}
        /\ dev'.enabled = dev.enabled
        /\ dev'.seen = dev.seen /\ dev'.held = dev.held /\ dev'.used = dev.used
        /\ dev'.tx_used = dev.tx_used /\ dev'.tx_id = dev.tx_id /\ (dev'.rogue <=> dev.rogue)
    BY <1>4 DEF DevType, fail
  <2>2. dev' \in DevType
    BY <1>4, <2>1 DEF DevType, fail
  <2>3. drv'.stage = "ne2000" /\ drv'.rx = drv.rx /\ drv'.tx = drv.tx
    BY <1>4 DEF DrvType
  <2>4. BringupInv'
    BY <1>1, <1>2, <1>4, <2>1, <2>3 DEF BringupInv, Bringup
  <2> QED
    BY <1>1, <1>4, <2>1, <2>2, <2>3, <2>4, BringupStep DEF Bringup
<1> QED
  BY <1>3, <1>4 DEF Start

-----------------------------------------------------------------------------
(* The device and the interrupt.                                           *)

\* The device runs only after DRIVER_OK, once the driver is ready.
LEMMA RunningFacts ==
  ASSUME NetInv, Running
  PROVE  /\ drv.stage = "ready" /\ ~dev.rogue /\ "FAILED" \notin dev.status
         /\ "DRIVER_OK" \in dev.status
<1>1. "DRIVER_OK" \in dev.status /\ "FAILED" \notin dev.status /\ ~dev.rogue
  BY DEF Running
<1> QED
  BY <1>1 DEF NetInv, BringupInv

\* A step of the device leaves what the driver keeps to alone.
LEMMA DriverKept ==
  ASSUME DriverInv, UNCHANGED <<drv, cpu>>, mem'.ring = mem.ring, mem'.available = mem.available
  PROVE  DriverInv'
<1>1. drv' = drv /\ cpu' = cpu
  OBVIOUS
<1> QED
  BY <1>1 DEF DriverInv, Quarantined, Busy, Sending

\* The device fetches a published buffer.
LEMMA StepFetchRx == NetInv /\ FetchRx => NetInv'
<1> SUFFICES ASSUME NetInv, FetchRx PROVE NetInv'
  OBVIOUS
<1> USE DEF NetInv, Types
<1>1. /\ Running /\ dev.seen # mem.available
      /\ drv' = drv /\ cpu' = cpu /\ mem' = mem /\ flags' = flags /\ hist' = hist
  BY DEF FetchRx
<1>2. dev.seen \in Idx /\ drv.rx.used \in Idx /\ dev.used \in Idx /\ mem.available \in Idx
  BY DEF DevType, DrvType, RxType, MemType
<1>3. dev.seen \in Nat
  BY <1>2 DEF Idx
<1>4. dev.seen % N \in Descriptors
  BY <1>3, SlotType DEF Slot
<1>5. mem.ring[dev.seen % N] \in Descriptors
  BY <1>4 DEF MemType
<1>6. dev' = [dev EXCEPT !.held = dev.held \cup {mem.ring[dev.seen % N]}, !.seen = Succ(dev.seen)]
  BY DEF FetchRx, Succ
<1>7. Succ(dev.seen) \in Idx
  BY <1>2, SuccValue
<1>8. /\ dev' \in DevType /\ dev'.held = dev.held \cup {mem.ring[dev.seen % N]}
      /\ dev'.seen = Succ(dev.seen) /\ dev'.status = dev.status /\ dev'.enabled = dev.enabled
      /\ dev'.used = dev.used /\ dev'.ring = dev.ring /\ dev'.tx_used = dev.tx_used
      /\ dev'.tx_id = dev.tx_id /\ dev'.irq = dev.irq /\ dev'.lost = dev.lost
      /\ dev'.rogue = dev.rogue
  BY <1>5, <1>6, <1>7, Zenon DEF DevType
<1>9. BringupInv'
  BY <1>1, <1>8, RunningFacts, BringupKept
<1>10. DriverInv'
  BY <1>1, DriverKept
<1>11. Returning' = Returning
  BY <1>1 DEF Returning
<1>12. ReceiveInv'
  <2>1. Ownership(drv.rx.used, dev.used, dev.seen, mem.available, Ids(dev.ring), mem.ring,
                  dev.held, Returning)
    BY <1>1, RunningFacts DEF ReceiveInv
  <2>2. Ownership(drv.rx.used, dev.used, Succ(dev.seen), mem.available, Ids(dev.ring), mem.ring,
                  dev.held \cup {mem.ring[dev.seen % N]}, Returning)
    BY <1>1, <1>2, <2>1, OwnFetch
  <2>3. Consumed' = Consumed
    BY <1>1, <1>8 DEF Consumed
  <2> QED
    BY <1>1, <1>8, <1>11, <2>2, <2>3, RunningFacts, Zenon DEF ReceiveInv
<1>13. TransmitInv'
  BY <1>1, <1>8, TransmitKept
<1>14. WakeInv'
  BY <1>1, <1>8 DEF WakeInv, Sending, Quarantined
<1> QED
  BY <1>1, <1>8, <1>9, <1>10, <1>12, <1>13, <1>14

\* A frame is received.
LEMMA StepCompleteRx == NetInv /\ CompleteRx => NetInv'
<1> SUFFICES ASSUME NetInv, CompleteRx PROVE NetInv'
  OBVIOUS
<1> USE DEF NetInv, Types
<1>1. Running /\ drv' = drv /\ cpu' = cpu /\ flags' = flags
  BY DEF CompleteRx
<1>2. PICK d \in dev.held, length \in {"frame", "oversize"} :
        /\ mem' = [mem EXCEPT !.buffers[d] = Len(hist.arrived) + 1]
        /\ dev' = [dev EXCEPT !.held = dev.held \ {d}, !.used = Succ(dev.used), !.irq = TRUE,
                       !.ring[dev.used % N] = [descriptor |-> d, length |-> length]]
        /\ hist' = [hist EXCEPT !.arrived = Append(hist.arrived, length)]
  BY Zenon DEF CompleteRx, Succ
<1>3. dev.seen \in Idx /\ drv.rx.used \in Idx /\ dev.used \in Idx /\ mem.available \in Idx
  BY DEF DevType, DrvType, RxType, MemType
<1>4. dev.used % N \in Descriptors
  <2>1. dev.used \in Nat
    BY <1>3 DEF Idx
  <2> QED
    BY <2>1, SlotType, Zenon DEF Slot
<1>5. d \in Descriptors /\ Succ(dev.used) \in Idx
  BY <1>3, SuccValue DEF DevType
<1>6. [descriptor |-> d, length |-> length] \in Entries
  BY <1>5, Sizes DEF Entries, Lengths, Descriptors
<1>7. /\ hist.arrived \in Seq({"frame", "oversize"}) /\ Len(hist.arrived) \in Nat
      /\ Append(hist.arrived, length) \in Seq({"frame", "oversize"})
      /\ mem.buffers \in [Descriptors -> Nat] /\ dev.ring \in [Descriptors -> Entries]
  BY DEF HistType, MemType, DevType
<1>8. /\ mem' \in MemType /\ mem'.ring = mem.ring /\ mem'.available = mem.available
      /\ mem'.tx_available = mem.tx_available /\ mem'.tx_buffer = mem.tx_buffer
      /\ mem'.buffers = [mem.buffers EXCEPT ![d] = Len(hist.arrived) + 1]
  <2> DEFINE written == [mem.buffers EXCEPT ![d] = Len(hist.arrived) + 1]
  <2>1. written \in [Descriptors -> Nat]
    BY <1>5, <1>7
  <2>2. mem' = [mem EXCEPT !.buffers = written]
    BY <1>2
  <2> HIDE DEF written
  <2>3. /\ mem' \in MemType /\ mem'.ring = mem.ring /\ mem'.available = mem.available
        /\ mem'.tx_available = mem.tx_available /\ mem'.tx_buffer = mem.tx_buffer
        /\ mem'.buffers = written
    BY <2>1, <2>2 DEF MemType
  <2> QED
    BY <2>3 DEF written
<1>9. /\ hist' \in HistType /\ hist'.arrived = Append(hist.arrived, length)
      /\ hist'.delivered = hist.delivered /\ hist'.sent = hist.sent
      /\ hist'.reported = hist.reported
  BY <1>2, <1>7, Zenon DEF HistType
<1>10. /\ dev'.held = dev.held \ {d} /\ dev'.seen = dev.seen /\ dev'.status = dev.status
       /\ dev'.enabled = dev.enabled /\ dev'.used = Succ(dev.used)
       /\ dev'.ring = [dev.ring EXCEPT ![dev.used % N] = [descriptor |-> d, length |-> length]]
       /\ dev'.tx_used = dev.tx_used /\ dev'.tx_id = dev.tx_id /\ dev'.irq = TRUE
       /\ dev'.lost = dev.lost /\ dev'.rogue = dev.rogue
  BY <1>2 DEF DevType
<1>11. dev' \in DevType
  <2>1. dev'.ring \in [Descriptors -> Entries] /\ dev'.held \in SUBSET Descriptors
    BY <1>4, <1>6, <1>7, <1>10 DEF DevType
  <2>2. dev' = [dev EXCEPT !.held = dev'.held, !.used = dev'.used, !.irq = TRUE, !.ring = dev'.ring]
    BY <1>2, <1>10 DEF DevType
  <2> QED
    BY <1>5, <1>10, <2>1, <2>2, Zenon DEF DevType
<1>12. BringupInv'
  BY <1>1, <1>10, RunningFacts, BringupKept
<1>13. DriverInv'
  BY <1>1, <1>8, DriverKept
<1>14. TransmitInv'
  BY <1>1, <1>8, <1>9, <1>10, TransmitKept
<1>15. WakeInv'
  BY <1>1, <1>10 DEF WakeInv, Sending
<1>16. ReceiveInv'
  <2> DEFINE r == drv.rx.used
             u == dev.used
             ids == Ids(dev.ring)
             new == Ids(dev'.ring)
             held == dev.held
             returning == Returning
  <2>1. /\ ~drv.rx.quarantined
        /\ Ownership(r, u, dev.seen, mem.available, Ids(dev.ring), mem.ring, dev.held, Returning)
        /\ BatchCurrent(drv.rx, u, dev.ring)
        /\ cpu.at = "entries" => Distance(r, cpu.used_index) <= Distance(r, u)
        /\ Carried(r, u, dev.ring, mem.buffers, hist.arrived)
        /\ cpu.at = "copy" => /\ Consumed > 0
                              /\ mem.buffers[cpu.entry.descriptor] = Consumed
                              /\ hist.arrived[Consumed] = cpu.entry.length
        /\ Covered(hist.delivered, hist.arrived, IF cpu.at = "copy" THEN Consumed - 1 ELSE Consumed)
    BY <1>1, RunningFacts, Zenon DEF ReceiveInv
  <2>0. /\ Len(drv.rx.entries) \in Nat /\ drv.rx.cursor \in Nat
        /\ cpu.at = "entries" => Distance(r, cpu.used_index) \in Nat
    <3>1. Len(drv.rx.entries) \in Nat /\ drv.rx.cursor \in Nat
      BY DEF DrvType, RxType
    <3>2. cpu.at = "entries" => Distance(r, cpu.used_index) \in Nat
      BY <1>3, CpuFields, DistanceNat
    <3> QED
      BY <3>1, <3>2, Zenon
  <2> HIDE DEF NetInv, Types
  <2>2. /\ \A k \in Descriptors : k # u % N => dev'.ring[k] = dev.ring[k]
        /\ dev'.ring[u % N] = [descriptor |-> d, length |-> length]
    BY <1>4, <1>7, <1>10
  <2>3. /\ Ids(dev'.ring)[u % N] = d
        /\ \A k \in Descriptors : k # u % N => Ids(dev'.ring)[k] = Ids(dev.ring)[k]
    BY <1>4, <2>2 DEF Ids
  <2>4. /\ Ownership(r, Succ(u), dev.seen, mem.available, new, mem.ring, held \ {d}, returning)
        /\ Distance(r, Succ(u)) = Distance(r, u) + 1 /\ Distance(r, u) < N
    <3>1. r \in Idx /\ u \in Idx /\ dev.seen \in Idx /\ mem.available \in Idx /\ d \in held
      BY <1>3
    <3>2. Ownership(r, u, dev.seen, mem.available, ids, mem.ring, held, returning)
      BY <2>1
    <3>3. Written(new, ids, u % N, d)
      BY <2>3 DEF Written
    <3> HIDE DEF r, u, ids, new, held, returning
    <3> QED
      BY <3>1, <3>2, <3>3, OwnComplete, Zenon
  <2>5. Distance(r, u) \in Nat
    BY <1>3, DistanceNat
  <2>6. BatchCurrent(drv.rx, Succ(u), dev'.ring)
    <3>1. Len(drv.rx.entries) \in Nat /\ drv.rx.cursor \in Nat
      BY <2>0, Zenon
    <3>2. /\ Len(drv.rx.entries) - drv.rx.cursor <= Distance(r, u)
          /\ \A k \in 0..(Len(drv.rx.entries) - drv.rx.cursor - 1) :
                drv.rx.entries[drv.rx.cursor + 1 + k] = dev.ring[Slot(r, k)]
      BY <2>1 DEF BatchCurrent
    <3>3. \A k \in 0..(Len(drv.rx.entries) - drv.rx.cursor - 1) : k \in 0..(Distance(r, u) - 1)
      BY <2>5, <3>1, <3>2
    <3>4. \A k \in 0..(Distance(r, u) - 1) : dev'.ring[Slot(r, k)] = dev.ring[Slot(r, k)]
      BY <1>3, <2>2, <2>4, EarlierSlots
    <3>5. Len(drv.rx.entries) - drv.rx.cursor <= Distance(r, Succ(u))
      BY <2>4, <2>5, <3>1, <3>2
    <3> QED
      BY <3>2, <3>3, <3>4, <3>5 DEF BatchCurrent
  <2>7. /\ d \notin Window(ids, r, Distance(r, u)) /\ d \notin returning
        /\ Window(ids, r, Distance(r, u)) \subseteq Descriptors /\ returning \subseteq Descriptors
    BY <2>1 DEF Ownership, Owned
  <2>8. /\ mem'.buffers[d] = Len(hist.arrived) + 1
        /\ \A c \in Descriptors : c # d => mem'.buffers[c] = mem.buffers[c]
    BY <1>5, <1>7, <1>8
  <2>9. Carried(r, Succ(u), dev'.ring, mem'.buffers, hist'.arrived)
    <3> DEFINE ring == dev.ring
               more == dev'.ring
               buffers == mem.buffers
               written == mem'.buffers
               arrived == hist.arrived
    <3>1. /\ r \in Idx /\ u \in Idx /\ Distance(r, u) < N
          /\ Distance(r, Succ(u)) = Distance(r, u) + 1
      BY <1>3, <2>4
    <3>2. /\ arrived \in Seq({"frame", "oversize"}) /\ Carried(r, u, ring, buffers, arrived)
          /\ d \notin Window(Ids(ring), r, Distance(r, u))
          /\ Window(Ids(ring), r, Distance(r, u)) \subseteq Descriptors
      BY <1>7, <2>1, <2>7, Zenon
    <3>3. Written(more, ring, u % N, [descriptor |-> d, length |-> length])
      BY <2>2 DEF Written
    <3>4. Written(written, buffers, d, Len(arrived) + 1)
      BY <2>8 DEF Written
    <3> HIDE DEF r, u, ring, more, buffers, written, arrived
    <3>5. Carried(r, Succ(u), more, written, Append(arrived, length))
      BY <3>1, <3>2, <3>3, <3>4, CarriedMore, Zenon
    <3> QED
      BY <1>9, <3>5 DEF more, written, arrived
  <2>10. /\ Len(hist'.arrived) = Len(hist.arrived) + 1
         /\ \A k \in 1..Len(hist.arrived) : hist'.arrived[k] = hist.arrived[k]
    BY <1>7, <1>9
  <2>11. Consumed' = Consumed /\ Consumed \in Nat /\ Consumed <= Len(hist.arrived)
    <3>1. Consumed = Len(hist.arrived) - Distance(r, u)
      BY DEF Consumed
    <3>2. Consumed' = (Len(hist.arrived) + 1) - Distance(r, Succ(u))
      BY <1>1, <1>10, <2>10 DEF Consumed
    <3>3. Distance(r, u) <= Len(hist.arrived)
      BY <2>1 DEF Carried
    <3>4. Len(hist.arrived) \in Nat /\ Distance(r, Succ(u)) = Distance(r, u) + 1
      BY <1>7, <2>4
    <3> HIDE DEF r, u
    <3> QED
      BY <2>5, <3>1, <3>2, <3>3, <3>4
  <2>12. cpu.at = "copy" => /\ mem'.buffers[cpu.entry.descriptor] = Consumed
                            /\ hist'.arrived[Consumed] = cpu.entry.length
    <3>1. cpu.at = "copy" => cpu.entry.descriptor # d /\ cpu.entry.descriptor \in Descriptors
      BY <2>7 DEF Returning
    <3>2. cpu.at = "copy" => Consumed \in 1..Len(hist.arrived)
      <4>1. cpu.at = "copy" => Consumed > 0
        BY <2>1, Zenon
      <4>2. Consumed \in Nat /\ Consumed <= Len(hist.arrived) /\ Len(hist.arrived) \in Nat
        BY <1>7, <2>11, Zenon
      <4> QED
        BY <4>1, <4>2
    <3>3. cpu.at = "copy" => /\ mem.buffers[cpu.entry.descriptor] = Consumed
                             /\ hist.arrived[Consumed] = cpu.entry.length
      BY <2>1, Zenon
    <3>4. cpu.at = "copy" => mem'.buffers[cpu.entry.descriptor] = mem.buffers[cpu.entry.descriptor]
      BY <2>8, <3>1, Zenon
    <3>5. cpu.at = "copy" => hist'.arrived[Consumed] = hist.arrived[Consumed]
      BY <2>10, <3>2, Zenon
    <3> QED
      BY <3>3, <3>4, <3>5, Zenon
  <2>13. ASSUME NEW k \in Nat, k <= Len(hist.arrived), Covered(hist.delivered, hist.arrived, k)
         PROVE  Covered(hist.delivered, hist'.arrived, k)
    BY <1>7, <2>10, <2>13, SMTT(20) DEF Covered
  <2>14. Covered(hist.delivered, hist'.arrived, IF cpu.at = "copy" THEN Consumed - 1 ELSE Consumed)
    <3>1. CASE cpu.at = "copy"
      <4>1. Consumed - 1 \in Nat /\ Consumed - 1 <= Len(hist.arrived)
        BY <1>7, <2>1, <2>11, <3>1
      <4>2. Covered(hist.delivered, hist.arrived, Consumed - 1)
        BY <2>1, <3>1, Zenon
      <4>3. Covered(hist.delivered, hist'.arrived, Consumed - 1)
        BY <2>13, <4>1, <4>2, Zenon
      <4> QED
        BY <3>1, <4>3, Zenon
    <3>2. CASE cpu.at # "copy"
      <4>1. Covered(hist.delivered, hist.arrived, Consumed)
        BY <2>1, <3>2, Zenon
      <4>2. Covered(hist.delivered, hist'.arrived, Consumed)
        BY <2>11, <2>13, <4>1, Zenon
      <4> QED
        BY <3>2, <4>2, Zenon
    <3> QED
      BY <3>1, <3>2
  <2>15. Returning' = Returning
    BY <1>1 DEF Returning
  <2>16. cpu.at = "entries" => Distance(r, cpu.used_index) <= Distance(r, Succ(u))
    <3>1. cpu.at = "entries" => Distance(r, cpu.used_index) \in Nat
      BY <2>0, Zenon
    <3> QED
      BY <2>1, <2>4, <2>5, <3>1
  <2> QED
    BY <1>1, <1>8, <1>9, <1>10, <2>1, <2>4, <2>6, <2>9, <2>11, <2>12, <2>14, <2>15, <2>16,
       RunningFacts, Zenon DEF ReceiveInv
<1> QED
  BY <1>1, <1>8, <1>9, <1>11, <1>12, <1>13, <1>14, <1>15, <1>16

\* A frame is sent.
LEMMA StepCompleteTx == NetInv /\ CompleteTx => NetInv'
<1> SUFFICES ASSUME NetInv, CompleteTx PROVE NetInv'
  OBVIOUS
<1> USE DEF NetInv, Types
<1>1. /\ Running /\ dev.tx_used # mem.tx_available
      /\ drv' = drv /\ cpu' = cpu /\ mem' = mem /\ flags' = flags
  BY DEF CompleteTx
<1>2. dev.tx_used \in Idx /\ drv.tx.used \in Idx
  BY DEF DevType, DrvType, TxType
<1>3. Succ(dev.tx_used) \in Idx /\ Succ(dev.tx_used) # dev.tx_used
  BY <1>2, SuccValue, Sizes DEF Idx
<1>4. dev' = [dev EXCEPT !.tx_used = Succ(dev.tx_used), !.tx_id = 0, !.irq = TRUE]
  BY DEF CompleteTx, Succ
<1>5. /\ dev' \in DevType /\ dev'.held = dev.held /\ dev'.seen = dev.seen
      /\ dev'.status = dev.status /\ dev'.enabled = dev.enabled
      /\ dev'.used = dev.used /\ dev'.ring = dev.ring /\ dev'.tx_used = Succ(dev.tx_used)
      /\ dev'.tx_id = 0 /\ dev'.irq = TRUE /\ dev'.lost = dev.lost /\ dev'.rogue = dev.rogue
  BY <1>3, <1>4, Zenon DEF DevType
<1>6. /\ Append(hist.sent, mem.tx_buffer) \in Seq(Nat)
      /\ hist' = [hist EXCEPT !.sent = Append(hist.sent, mem.tx_buffer)]
  BY DEF CompleteTx, HistType, MemType
<1>7. /\ hist' \in HistType /\ hist'.arrived = hist.arrived /\ hist'.delivered = hist.delivered
      /\ hist'.sent = Append(hist.sent, mem.tx_buffer) /\ hist'.reported = hist.reported
  BY <1>6, Zenon DEF HistType
<1>8. BringupInv'
  BY <1>1, <1>5, RunningFacts, BringupKept
<1>9. DriverInv'
  BY <1>1, DriverKept
<1>10. Returning' = Returning /\ Consumed' = Consumed
  BY <1>1, <1>5, <1>7 DEF Returning, Consumed
<1>11. ReceiveInv'
  BY <1>1, <1>5, <1>7, <1>10, RunningFacts, Zenon DEF ReceiveInv
<1>12. /\ dev.tx_used = drv.tx.used /\ hist.sent = hist.reported
       /\ mem.tx_available = Succ(drv.tx.used) /\ dev.tx_id = 0
  BY <1>1, RunningFacts DEF TransmitInv
<1>13. TransmitInv'
  BY <1>1, <1>3, <1>5, <1>7, <1>12, RunningFacts DEF TransmitInv
<1>14. WakeInv'
  BY <1>1, <1>5 DEF WakeInv, Sending
<1> QED
  BY <1>1, <1>5, <1>7, <1>8, <1>9, <1>11, <1>13, <1>14

\* The device leaves the protocol: what remains is what the driver keeps to.
LEMMA StepGoRogue == NetInv /\ GoRogue => NetInv'
<1> SUFFICES ASSUME NetInv, GoRogue PROVE NetInv'
  OBVIOUS
<1> USE DEF NetInv, Types
<1>1. Running /\ drv' = drv /\ cpu' = cpu /\ mem' = mem /\ flags' = flags /\ hist' = hist
  BY Zenon DEF GoRogue
<1>2. dev.used % N \in Descriptors /\ dev.ring \in [Descriptors -> Entries]
  <2>1. dev.used \in Nat
    BY DEF DevType, Idx
  <2>2. dev.used % N \in Descriptors
    BY <2>1, SlotType DEF Slot
  <2> QED
    BY <2>2 DEF DevType
<1>3. /\ dev' \in DevType /\ dev'.rogue /\ dev'.status = dev.status
      /\ dev'.enabled = dev.enabled
  <2>1. CASE \E e \in Entries, u \in 0..(W - 1) :
               dev' = [dev EXCEPT !.rogue = TRUE, !.ring[dev.used % N] = e, !.used = u,
                                  !.irq = TRUE]
    <3>1. PICK e \in Entries, u \in 0..(W - 1) :
               dev' = [dev EXCEPT !.rogue = TRUE, !.ring[dev.used % N] = e, !.used = u,
                                  !.irq = TRUE]
      BY <2>1, Zenon
    <3> DEFINE ring == [dev.ring EXCEPT ![dev.used % N] = e]
    <3>2. ring \in [Descriptors -> Entries] /\ u \in Idx
      BY <1>2 DEF Idx
    <3>3. dev' = [dev EXCEPT !.rogue = TRUE, !.ring = ring, !.used = u, !.irq = TRUE]
      BY <3>1
    <3> HIDE DEF ring
    <3> QED
      BY <3>2, <3>3, Zenon DEF DevType
  <2>2. CASE \E id \in {0, 1}, u \in 0..(W - 1) :
               dev' = [dev EXCEPT !.rogue = TRUE, !.tx_id = id, !.tx_used = u, !.irq = TRUE]
    <3>1. PICK id \in {0, 1}, u \in 0..(W - 1) :
               dev' = [dev EXCEPT !.rogue = TRUE, !.tx_id = id, !.tx_used = u, !.irq = TRUE]
      BY <2>2, Zenon
    <3>2. id \in Nat /\ u \in Idx
      BY DEF Idx
    <3> QED
      BY <3>1, <3>2, Zenon DEF DevType
  <2> QED
    BY <2>1, <2>2, Zenon DEF GoRogue
<1>4. BringupInv'
  BY <1>1, <1>3, RunningFacts, BringupKept
<1>5. DriverInv'
  BY <1>1, DriverKept
<1>6. ReceiveInv' /\ TransmitInv'
  BY <1>3, Zenon DEF ReceiveInv, TransmitInv
<1>7. WakeInv'
  BY <1>1, <1>3 DEF WakeInv, Sending
<1> QED
  BY <1>1, <1>3, <1>4, <1>5, <1>6, <1>7

\* A step that only concerns the interrupt.
LEMMA InterruptStep ==
  ASSUME NetInv, UNCHANGED <<drv, cpu, mem, hist>>, NEW lost \in BOOLEAN,
         dev' = [dev EXCEPT !.irq = FALSE, !.lost = lost],
         flags' \in FlagsType
  PROVE  /\ Types' /\ BringupInv' /\ DriverInv' /\ ReceiveInv' /\ TransmitInv'
         /\ dev'.lost = lost
<1> USE DEF NetInv, Types
<1>1. drv' = drv /\ cpu' = cpu /\ mem' = mem /\ hist' = hist
  OBVIOUS
<1>2. /\ dev' \in DevType /\ dev'.held = dev.held /\ dev'.seen = dev.seen
      /\ dev'.status = dev.status /\ dev'.enabled = dev.enabled
      /\ dev'.used = dev.used /\ dev'.ring = dev.ring /\ dev'.tx_used = dev.tx_used
      /\ dev'.tx_id = dev.tx_id /\ dev'.rogue = dev.rogue /\ dev'.lost = lost
  BY Zenon DEF DevType
<1>3. BringupInv'
  BY <1>1, <1>2 DEF BringupInv
<1>4. DriverInv'
  BY <1>1, DriverKept
<1>5. Returning' = Returning /\ Consumed' = Consumed
  BY <1>1, <1>2 DEF Returning, Consumed
<1>6. ReceiveInv'
  BY <1>1, <1>2, <1>5 DEF ReceiveInv
<1>7. TransmitInv'
  BY <1>1, <1>2, TransmitKept
<1> QED
  BY <1>1, <1>2, <1>3, <1>4, <1>6, <1>7

\* The interrupt handler.
LEMMA StepInterrupt == NetInv /\ record_virtio_interrupt => NetInv'
<1> SUFFICES ASSUME NetInv, record_virtio_interrupt PROVE NetInv'
  OBVIOUS
<1>1. drv' = drv /\ cpu' = cpu /\ mem' = mem /\ hist' = hist
  BY DEF record_virtio_interrupt
<1>2. /\ flags' \in FlagsType /\ flags'.epoch = flags.epoch + 1 /\ flags'.pending
      /\ flags.epoch \in Nat /\ dev.lost \in BOOLEAN
  BY DEF record_virtio_interrupt, NetInv, Types, FlagsType, DevType
<1>3. dev' = [dev EXCEPT !.irq = FALSE, !.lost = dev.lost]
  BY Zenon DEF record_virtio_interrupt, NetInv, Types, DevType
<1>4. Types' /\ BringupInv' /\ DriverInv' /\ ReceiveInv' /\ TransmitInv'
  BY <1>1, <1>2, <1>3, InterruptStep, Zenon
<1>5. cpu.at \in Sending => cpu.observed \in Nat /\ cpu.observed <= flags.epoch
  BY CpuFields DEF NetInv, Types, WakeInv
<1>6. WakeInv'
  BY <1>1, <1>2, <1>5 DEF WakeInv, Sending
<1> QED
  BY <1>4, <1>6 DEF NetInv

\* An interrupt is lost.
LEMMA StepLoseInterrupt == NetInv /\ LoseInterrupt => NetInv'
<1> SUFFICES ASSUME NetInv, LoseInterrupt PROVE NetInv'
  OBVIOUS
<1>1. /\ drv' = drv /\ cpu' = cpu /\ mem' = mem /\ hist' = hist /\ flags' = flags
      /\ dev' = [dev EXCEPT !.irq = FALSE, !.lost = TRUE] /\ flags' \in FlagsType
  BY DEF LoseInterrupt, NetInv, Types
<1>2. Types' /\ BringupInv' /\ DriverInv' /\ ReceiveInv' /\ TransmitInv' /\ dev'.lost = TRUE
  BY <1>1, InterruptStep, Zenon
<1>3. WakeInv'
  BY <1>1, <1>2 DEF NetInv, WakeInv, Sending
<1> QED
  BY <1>2, <1>3 DEF NetInv

-----------------------------------------------------------------------------
(* The invariant and what it says.                                         *)

\* Every step, and stuttering, keeps the invariant.
LEMMA NetStep == NetInv /\ [Next]_vars => NetInv'
<1> SUFFICES ASSUME NetInv, [Next]_vars PROVE NetInv'
  OBVIOUS
<1>1. CASE Driver
  BY <1>1, StepDiscover, StepHandshake, StepStart, StepReceive, StepReadIndex, StepAdmit,
     StepCopy, StepRepost, StepPublish, StepTransmit, StepFill, StepNotify, StepSpin,
     StepReadUsed DEF Driver
<1>2. CASE Device
  BY <1>2, StepFetchRx, StepCompleteRx, StepCompleteTx, StepGoRogue DEF Device
<1>3. CASE Interrupt
  BY <1>3, StepInterrupt, StepLoseInterrupt DEF Interrupt
<1>4. CASE UNCHANGED vars
  <2>1. /\ drv' = drv /\ cpu' = cpu /\ mem' = mem /\ dev' = dev /\ flags' = flags
        /\ hist' = hist
    BY <1>4 DEF vars
  <2>2. Types'
    BY <2>1 DEF NetInv, Types
  <2>3. BringupInv'
    BY <2>1 DEF NetInv, BringupInv
  <2>4. TransmitInv'
    BY <2>1, TransmitKept DEF NetInv
  <2>5. WakeInv'
    BY <2>1 DEF NetInv, WakeInv, Quarantined
  <2>6. DriverInv'
    BY <2>1, DriverKept DEF NetInv
  <2>7. Returning' = Returning /\ Consumed' = Consumed
    BY <2>1 DEF Returning, Consumed
  <2>8. ReceiveInv'
    BY <2>1, <2>7, Zenon DEF NetInv, ReceiveInv
  <2> QED
    BY <2>2, <2>3, <2>4, <2>5, <2>6, <2>8 DEF NetInv
<1> QED
  BY <1>1, <1>2, <1>3, <1>4 DEF Next

\* The driver, its queues, the device and the interrupt agree in every
\* reachable state, for every ring size, index width and polling limit.
THEOREM NetInvariant == Spec => []NetInv
<1> QED
  BY NetInit, NetStep, PTL DEF Spec

\* A window of different elements has as many as it is long.
LEMMA WindowCount ==
  ASSUME NEW f, NEW x \in Idx, NEW n \in Nat, Distinct(f, x, n)
  PROVE  Cardinality(Window(f, x, n)) = n
<1> DEFINE g == [i \in 0..(n - 1) |-> f[Slot(x, i)]]
<1>1. g \in Bijection(0..(n - 1), Window(f, x, n))
  BY DEF Window, Distinct, Bijection, Injection, Surjection, IsInjective
<1>2. ExistsBijection(0..(n - 1), Window(f, x, n))
  BY <1>1 DEF ExistsBijection
<1>3. IsFiniteSet(0..(n - 1)) /\ Cardinality(0..(n - 1)) = n
  BY FS_Interval
<1> QED
  BY <1>2, <1>3, FS_Bijection

\* Each receive buffer has exactly one owner while the device follows the
\* protocol, and no batch copies a buffer twice whatever it does.
THEOREM BuffersHaveOneOwner == Spec => []BufferHasOneOwner
<1>1. NetInv => BufferHasOneOwner
  <2> SUFFICES ASSUME NetInv PROVE BufferHasOneOwner
    OBVIOUS
  <2>1. drv.rx.used \in Idx /\ dev.used \in Idx /\ drv.rx.cursor \in Nat
    BY DEF NetInv, Types, DevType, DrvType, RxType
  <2>2. Distance(drv.rx.used, dev.used) \in Nat
    BY <2>1, DistanceNat
  <2>3. Unread = Window(Ids(dev.ring), drv.rx.used, Distance(drv.rx.used, dev.used))
    <3>1. \A i \in 0..(Distance(drv.rx.used, dev.used) - 1) :
             Ids(dev.ring)[Slot(drv.rx.used, i)] = dev.ring[(drv.rx.used + i) % N].descriptor
      <4> SUFFICES ASSUME NEW i \in 0..(Distance(drv.rx.used, dev.used) - 1)
                   PROVE  Ids(dev.ring)[Slot(drv.rx.used, i)]
                            = dev.ring[(drv.rx.used + i) % N].descriptor
        OBVIOUS
      <4>1. drv.rx.used \in Nat /\ i \in Nat
        BY <2>1, <2>2 DEF Idx
      <4>2. Slot(drv.rx.used, i) \in Descriptors
        BY <4>1, SlotType
      <4> QED
        BY <4>2 DEF Ids, Slot
    <3> QED
      BY <3>1 DEF Unread, Window
  <2>4. Posted = Window(mem.ring, dev.seen, Distance(dev.seen, mem.available))
    BY DEF Posted, Window, Slot
  <2>5. ASSUME drv.stage = "ready", ~dev.rogue
        PROVE  /\ DeviceOwned \intersect (Unread \union Returning) = {}
               /\ Unread \intersect Returning = {}
               /\ DeviceOwned \union Unread \union Returning = Descriptors
               /\ Cardinality(Unread) = Distance(drv.rx.used, dev.used)
    <3>1. /\ Owned(Unread, Posted, dev.held, Returning)
          /\ Distinct(Ids(dev.ring), drv.rx.used, Distance(drv.rx.used, dev.used))
      BY <2>3, <2>4, <2>5, Zenon DEF NetInv, ReceiveInv, Ownership
    <3>2. Cardinality(Unread) = Distance(drv.rx.used, dev.used)
      BY <2>1, <2>2, <2>3, <3>1, WindowCount
    <3> QED
      BY <3>1, <3>2 DEF Owned, DeviceOwned
  <2>6. ASSUME cpu.at = "copy", NEW i \in 1..(drv.rx.cursor - 1)
        PROVE  drv.rx.entries[i].descriptor # cpu.entry.descriptor
    <3>1. /\ cpu.entry = drv.rx.entries[drv.rx.cursor] /\ BatchValid(drv.rx)
          /\ drv.rx.cursor > 0
      BY <2>6 DEF NetInv, DriverInv, Busy
    <3>2. Len(drv.rx.entries) \in Nat
      BY DEF NetInv, Types, DrvType, RxType
    <3>3. /\ i \in 1..Len(drv.rx.entries) /\ drv.rx.cursor \in 1..Len(drv.rx.entries)
          /\ i # drv.rx.cursor
      BY <2>1, <3>1, <3>2 DEF BatchValid
    <3> QED
      BY <3>1, <3>3 DEF BatchValid
  <2> QED
    BY <2>5, <2>6 DEF BufferHasOneOwner
<1> QED
  BY <1>1, NetInvariant, PTL

\* Frames are delivered and reported once each and in order.
THEOREM FramesStayInOrder == Spec => []FramesInOrder
<1>1. NetInv => FramesInOrder
  <2> SUFFICES ASSUME NetInv, ~dev.rogue
               PROVE  /\ \A i \in DOMAIN hist.delivered : hist.delivered[i] \in Fitting
                      /\ \A i, j \in DOMAIN hist.delivered :
                            i < j => hist.delivered[i] < hist.delivered[j]
                      /\ \A k \in Fitting, i \in DOMAIN hist.delivered :
                            k < hist.delivered[i]
                              => \E j \in DOMAIN hist.delivered : hist.delivered[j] = k
                      /\ Len(hist.sent) - Len(hist.reported) \in {0, 1}
                      /\ \A i \in DOMAIN hist.reported : hist.reported[i] = hist.sent[i]
    BY DEF FramesInOrder
  <2>1. /\ hist.arrived \in Seq({"frame", "oversize"}) /\ hist.delivered \in Seq(Nat)
        /\ hist.sent \in Seq(Nat) /\ hist.reported \in Seq(Nat) /\ mem.tx_buffer \in Nat
        /\ drv.rx.used \in Idx /\ dev.used \in Idx
    BY DEF NetInv, Types, HistType, MemType, DrvType, RxType, DevType
  <2>2. /\ Len(hist.sent) - Len(hist.reported) \in {0, 1}
        /\ \A i \in DOMAIN hist.reported : hist.reported[i] = hist.sent[i]
    <3>1. hist.sent = hist.reported \/ hist.sent = Append(hist.reported, mem.tx_buffer)
      BY DEF NetInv, TransmitInv
    <3>2. ASSUME NEW q \in Seq(Nat), NEW e \in Nat
          PROVE  /\ Len(q) - Len(q) \in {0, 1} /\ Len(Append(q, e)) - Len(q) \in {0, 1}
                 /\ \A i \in DOMAIN q : q[i] = Append(q, e)[i]
      OBVIOUS
    <3> QED
      BY <2>1, <3>1, <3>2, Zenon
  <2>3. \E n \in 0..Len(hist.arrived) : Covered(hist.delivered, hist.arrived, n)
    <3>1. CASE drv.stage # "ready"
      <4>1. hist.delivered = <<>> /\ hist.arrived = <<>>
        BY <3>1 DEF NetInv, BringupInv
      <4>2. Covered(hist.delivered, hist.arrived, 0)
        BY <4>1 DEF Covered
      <4> QED
        BY <4>1, <4>2
    <3>2. CASE drv.stage = "ready"
      <4>1. /\ Carried(drv.rx.used, dev.used, dev.ring, mem.buffers, hist.arrived)
            /\ cpu.at = "copy" => Consumed > 0
            /\ Covered(hist.delivered, hist.arrived, IF cpu.at = "copy" THEN Consumed - 1 ELSE Consumed)
        BY <3>2, Zenon DEF NetInv, ReceiveInv
      <4>2. Distance(drv.rx.used, dev.used) \in Nat /\ Len(hist.arrived) \in Nat
        BY <2>1, DistanceNat
      <4>3. Distance(drv.rx.used, dev.used) <= Len(hist.arrived)
        BY <4>1, Zenon DEF Carried
      <4>4. Consumed \in 0..Len(hist.arrived)
        BY <4>2, <4>3 DEF Consumed
      <4>5. CASE cpu.at = "copy"
        <5>1. Consumed > 0
          BY <4>1, <4>5, Zenon
        <5>2. Consumed - 1 \in 0..Len(hist.arrived)
          BY <4>2, <4>4, <5>1
        <5>3. Covered(hist.delivered, hist.arrived, Consumed - 1)
          BY <4>1, <4>5, Zenon
        <5> QED
          BY <5>2, <5>3, Zenon
      <4>6. CASE cpu.at # "copy"
        <5>1. Covered(hist.delivered, hist.arrived, Consumed)
          BY <4>1, <4>6, Zenon
        <5> QED
          BY <4>4, <5>1, Zenon
      <4> QED
        BY <4>5, <4>6, Zenon
    <3> QED
      BY <3>1, <3>2
  <2>4. PICK n \in 0..Len(hist.arrived) : Covered(hist.delivered, hist.arrived, n)
    BY <2>3
  <2>5. Len(hist.arrived) \in Nat /\ DOMAIN hist.arrived = 1..Len(hist.arrived)
    BY <2>1
  <2>6. \A i \in DOMAIN hist.delivered :
           hist.delivered[i] \in 1..n /\ hist.delivered[i] \in Fitting
    BY <2>4, <2>5 DEF Covered, Fitting
  <2>7. \A i, j \in DOMAIN hist.delivered : i < j => hist.delivered[i] < hist.delivered[j]
    BY <2>4 DEF Covered
  <2>8. ASSUME NEW k \in Fitting, NEW i \in DOMAIN hist.delivered, k < hist.delivered[i]
        PROVE  \E j \in DOMAIN hist.delivered : hist.delivered[j] = k
    <3>1. k \in 1..n /\ hist.arrived[k] = "frame"
      BY <2>5, <2>6, <2>8 DEF Fitting
    <3> QED
      BY <2>4, <3>1 DEF Covered
  <2> QED
    BY <2>2, <2>6, <2>7, <2>8
<1> QED
  BY <1>1, NetInvariant, PTL

\* Going round the circle by the distance arrives.
LEMMA Arrives ==
  ASSUME NEW x \in Idx, NEW y \in Idx
  PROVE  (x + Distance(x, y)) % W = y
<1>1. /\ x \in Nat /\ y \in Nat /\ x < W /\ y \in 0..(W - 1) /\ W \in Nat /\ W > 0
  BY Sizes DEF Idx
<1>2. x + Distance(x, y) = y \/ x + Distance(x, y) = W + y
  BY <1>1, DistanceValue
<1>3. y % W = y /\ (W + y) % W = y
  BY <1>1, Below, Above
<1> QED
  BY <1>2, <1>3

\* No wake-up is lost while the interrupt controller loses none.
THEOREM ReadinessIsKept == Spec => []ReadinessKept
<1>1. NetInv => ReadinessKept
  <2> SUFFICES ASSUME NetInv, drv.stage = "ready", ~Quarantined, ~dev.irq, ~dev.lost, ~dev.rogue
               PROVE  /\ \/ dev.used = (drv.rx.used + Len(drv.rx.entries) - drv.rx.cursor) % W
                         \/ flags.pending \/ cpu.at = "index"
                         \/ cpu.at = "entries" /\ cpu.used_index = dev.used
                      /\ cpu.at = "spin" /\ dev.tx_used # drv.tx.used
                           => flags.epoch # cpu.observed
    BY DEF ReadinessKept
  <2>1. /\ \/ Distance(drv.rx.used, dev.used) = Len(drv.rx.entries) - drv.rx.cursor
           \/ flags.pending \/ cpu.at = "index"
           \/ cpu.at = "entries" /\ cpu.used_index = dev.used
        /\ cpu.at = "spin" /\ dev.tx_used # drv.tx.used => flags.epoch # cpu.observed
    BY DEF NetInv, WakeInv
  <2>2. /\ drv.rx.used \in Idx /\ dev.used \in Idx /\ drv.rx.cursor \in Nat
        /\ Len(drv.rx.entries) \in Nat
    BY DEF NetInv, Types, DevType, DrvType, RxType
  <2>3. drv.rx.used \in Nat
    BY <2>2 DEF Idx
  <2>4. Distance(drv.rx.used, dev.used) = Len(drv.rx.entries) - drv.rx.cursor
          => dev.used = (drv.rx.used + Len(drv.rx.entries) - drv.rx.cursor) % W
    <3>1. drv.rx.used + (Len(drv.rx.entries) - drv.rx.cursor)
            = drv.rx.used + Len(drv.rx.entries) - drv.rx.cursor
      BY <2>2, <2>3
    <3>2. (drv.rx.used + Distance(drv.rx.used, dev.used)) % W = dev.used
      BY <2>2, Arrives
    <3> QED
      BY <3>1, <3>2
  <2> QED
    BY <2>1, <2>4
<1> QED
  BY <1>1, NetInvariant, PTL

\* The device runs only when it is prepared, and is failed only for cause.
THEOREM DeviceRunsPrepared == Spec => []RunsOnlyPrepared
<1>1. NetInv => RunsOnlyPrepared
  <2> SUFFICES ASSUME NetInv PROVE RunsOnlyPrepared
    OBVIOUS
  <2>1. ASSUME "DRIVER_OK" \in dev.status
        PROVE  /\ dev.enabled = {"rx_queue", "tx_queue"} /\ "FEATURES_OK" \in dev.status
               /\ drv.stage = "ready"
    BY <2>1 DEF NetInv, BringupInv
  <2>2. ASSUME "DRIVER_OK" \in dev.status
        PROVE  Distance(drv.rx.used, mem.available) + Cardinality(Returning) = N
    <3>1. Distance(drv.rx.used, mem.available) = IF Busy THEN N - 1 ELSE N
      BY <2>1, <2>2 DEF NetInv, DriverInv
    <3>2. Cardinality(Returning) = IF Busy THEN 1 ELSE 0
      <4>1. CASE Busy
        <5>1. Returning = {cpu.entry.descriptor}
          BY <4>1 DEF Returning, Busy
        <5> QED
          BY <4>1, <5>1, FS_Singleton, Zenon
      <4>2. CASE ~Busy
        <5>1. Returning = {}
          BY <4>2 DEF Returning, Busy
        <5> QED
          BY <4>2, <5>1, FS_EmptySet
      <4> QED
        BY <4>1, <4>2
    <3> QED
      BY <3>1, <3>2, Sizes
  <2>3. drv.stage = "ready" /\ ~dev.rogue => ~drv.rx.quarantined /\ "FAILED" \notin dev.status
    BY DEF NetInv, ReceiveInv
  <2> QED
    BY <2>1, <2>2, <2>3 DEF RunsOnlyPrepared
<1> QED
  BY <1>1, NetInvariant, PTL

\* The transmit buffer is not rewritten while the device may read it, and a
\* quarantine is final.
THEOREM SharedMemoryIsDisciplined == Spec => SharedMemoryDiscipline
<1> DEFINE Kept ==
      /\ mem'.tx_buffer # mem.tx_buffer /\ ~dev.rogue => mem.tx_available = dev.tx_used
      /\ Quarantined => /\ Quarantined'
                        /\ mem'.available = mem.available
                        /\ mem'.tx_available = mem.tx_available
                        /\ mem'.tx_buffer = mem.tx_buffer /\ mem'.ring = mem.ring
                        /\ hist'.delivered = hist.delivered
                        /\ hist'.reported = hist.reported
<1>1. NetInv /\ Next => Kept
  <2> SUFFICES ASSUME NetInv, Next PROVE Kept
    OBVIOUS
  <2>1. Quarantined => drv.stage = "ready" /\ cpu.at = "idle"
    <3>1. cpu.at # "idle" => ~Quarantined
      BY Zenon DEF NetInv, DriverInv
    <3>2. drv.stage # "ready" => drv.rx = RxBatch(0) /\ drv.tx = TxQueue
      BY Zenon DEF NetInv, BringupInv
    <3>3. ~RxBatch(0).quarantined /\ TxQueue.phase # "Quarantined"
      BY DEF RxBatch, TxQueue
    <3> QED
      BY <3>1, <3>2, <3>3, Zenon DEF Quarantined
  <2>2. mem \in MemType /\ hist \in HistType
    BY DEF NetInv, Types
  <2>3. CASE Discover \/ Handshake \/ Start
    <3>1. ~Quarantined
      BY <2>1, <2>3 DEF Discover, Handshake, Start, NextStage
    <3>2. mem'.tx_buffer = mem.tx_buffer
      BY <2>2, <2>3, Zenon DEF Discover, Handshake, Start, prepare_receive_queue, MemType
    <3> QED
      BY <3>1, <3>2
  <2>4. CASE Receive \/ ReadIndex \/ Admit \/ Copy \/ Repost \/ Publish
    <3>1. ~Quarantined
      BY <2>1, <2>4, Zenon DEF Receive, Ready, ReadIndex, Admit, Copy, Repost, Publish
    <3>2. mem'.tx_buffer = mem.tx_buffer
      BY <2>2, <2>4, Zenon DEF Receive, ReadIndex, Admit, Copy, Repost, Publish, MemType
    <3> QED
      BY <3>1, <3>2
  <2>5. CASE Transmit \/ Notify \/ Spin \/ ReadUsed
    <3>1. ~Quarantined
      BY <2>1, <2>5 DEF Transmit, Ready, Notify, Spin, ReadUsed
    <3>2. mem'.tx_buffer = mem.tx_buffer
      BY <2>2, <2>5 DEF Transmit, Notify, Spin, ReadUsed, MemType
    <3> QED
      BY <3>1, <3>2
  <2>6. CASE Fill
    <3>1. ~Quarantined
      BY <2>1, <2>6 DEF Fill
    <3>2. ~dev.rogue => mem.tx_available = dev.tx_used
      BY <2>6 DEF Fill, NetInv, TransmitInv
    <3> QED
      BY <3>1, <3>2
  <2>7. CASE Device \/ Interrupt
    <3>1. drv' = drv
      BY <2>7, Zenon DEF Device, Interrupt, FetchRx, CompleteRx, CompleteTx, GoRogue,
         record_virtio_interrupt, LoseInterrupt
    <3>2. /\ mem'.available = mem.available /\ mem'.tx_available = mem.tx_available
          /\ mem'.tx_buffer = mem.tx_buffer /\ mem'.ring = mem.ring
      BY <2>2, <2>7, Zenon DEF Device, Interrupt, FetchRx, CompleteRx, CompleteTx, GoRogue,
         record_virtio_interrupt, LoseInterrupt, MemType
    <3>3. hist'.delivered = hist.delivered /\ hist'.reported = hist.reported
      BY <2>2, <2>7, Zenon DEF Device, Interrupt, FetchRx, CompleteRx, CompleteTx, GoRogue,
         record_virtio_interrupt, LoseInterrupt, HistType
    <3> QED
      BY <3>1, <3>2, <3>3 DEF Quarantined
  <2> HIDE DEF Kept
  <2> QED
    BY <2>3, <2>4, <2>5, <2>6, <2>7 DEF Next, Driver
<1>2. NetInv /\ [Next]_vars => [Kept]_vars
  BY <1>1
<1> QED
  BY <1>2, NetInvariant, PTL DEF Spec, SharedMemoryDiscipline
=============================================================================
