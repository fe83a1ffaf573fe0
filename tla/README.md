# TLA+ models of the GenOS kernel

GenOS is a single-core monolithic x86_64 kernel written in Rust, with a UEFI
loader, a small set of Ring 3 programs and a persistent volume. This directory
holds TLA+ models of it, TLC configurations that check them on small instances,
and TLAPS proofs about three of the components for every value of their
constants. Paths are relative to the repository root; `kernel/src/` is dropped
where a bare file name is unambiguous. `PROJECT.json` maps every definition to
the lines it models and lists components, runs, mutants, findings, hazards and
theorems.

## 1. The system and its modules

One thread runs the kernel loop. An iteration reads the clock, hands over typed
input, lets the coordinator (`runtime.rs`) complete the pending requests and
advance the network, and runs one slice of one process. A slice ends with a
system call, the timer or a fault. Interrupts only touch counters, flags, the
input ring and the context of the running process. What interleaves is
therefore: slices of processes, passes of the coordinator, the network and disk
devices, interrupts, and power loss.

| Part | Source | Module |
| --- | --- | --- |
| Processes, supervision | `userspace.rs` | `ProcessManager` |
| Endpoints, handle registry | `endpoint.rs`, `ipc.rs`, `capability.rs` | `Endpoint` (operators), `ProcessManager` |
| Persistent volume | `storage.rs`, `storage_format.rs` | `Storage`; its promise: `DurableStore` |
| RAM tree, file capabilities | `vfs.rs`, `file_snapshot.rs`, `path_policy.rs`, `userspace.rs`, `runtime.rs` | `Vfs` (operators), `Files` |
| One passive TCP connection | `network.rs` | `PassiveTcp`; its promise: `StreamSlot` |
| Sockets and the socket service | `socket.rs`, `runtime.rs` | `Sockets` (operators), `SocketService` |
| VirtIO network driver | `network_device.rs`, `rx_queue.rs`, `tx_queue.rs` | `VirtioNet` |
| Network clients, DHCP, IPv6 host | `network.rs`, `net.rs`, `dhcp.rs`, `ipv6.rs` | `Clients`, `Ipv6` |
| Kernel loop, scheduling, clock | `shell.rs`, `runtime.rs`, `scheduler.rs`, `tick_clock.rs`, `context_slot.rs` | `Dispatch` |
| System call boundary | `syscall.rs`, `user_copy.rs` | `Syscalls` |
| Frames, grants, address spaces | `physmem.rs`, `frame_grant.rs`, `memory.rs`, `paging.rs` | `Memory` |
| Boot page tables | `page_table.rs`, `paging.rs`, `cpu_paging.rs` | `BootPaging` |
| Loader and boot memory map | `bootloader/`, `crates/abi/src/boot_memory.rs`, `boot_cpu.rs` | `Handoff` |
| ELF loaders | `elf.rs`, `native_image.rs`, `bootloader/src/kernel_elf.rs` | `Images` |
| Serial terminal | `shell.rs`, `serial_prompt.rs`, `serial_keys.rs`, `userspace/shell/src/editor.rs` | `Terminal` |
| Commands of the Ring 3 shell | `userspace/shell/src/main.rs` | `Commands` |

Modules that begin with `MC` instantiate these for TLC. Several ask more than
one question: a variable `question`, chosen in the initial state and never
changed, selects an instance of the component with constants of its own. So one
run covers several small systems, each large in the direction its question needs.

Conventions. An action is a whole handler: the refresh, sweep or save at its end
is part of it. A call the code refuses without changing modelled state is a
stuttering step or a disabled action. Inputs are drawn from small sets. `NoValue`
and its relatives stand for `None`. Ticks are kept as distances, so time needs no
bound. Mutated definitions (named for a plausible bug, such as `TimeoutFrees`)
stand just before the definitions they vary and are used by nothing.

### State and actions of the larger modules

**ProcessManager.** `slots` is the array of `ManagedProcess`, `incarnations` is
`slot_incarnations`, `endpoints`, `handles` and `process_handles` are the tables
of each process, `pending_lifecycle` is the coordinator's launch slot.
`Terminate` includes the release of endpoints, the sweep that revokes send
handles in every process, the removal of supervised children and the wake-up of
the waiting parent. A failed image build is a nondeterministic choice. The
`target` of a send capability and the `sender` of a message are history: no
action reads them. `allocate_pid` cycles through `u8`; the model picks any pid
that no occupied slot has, which includes every order of the cursor.

**Storage.** A snapshot is what the payload sectors of a slot hold. The header
carries commit mark, generation and checksum; the checksum is assumed to tell
snapshots apart. `device` is what a read returns, `media` the set of values a
sector may hold after power loss: a write adds its data and `Garbage`, a
successful flush leaves only what was last written, a failed write may leave the
old value, the new one or `Garbage`. Each action performs at most one device
command, so power loss falls between any two. `acknowledged` and `unsettled` are
history and form the refinement mapping to `DurableStore`.

**Files.** A call checks the capability, copies what it needs into `pending` and
parks the process. The next pass of the coordinator takes the request, acts on
`tree`, commits to `volume` (which may refuse, fail or leave the outcome unknown)
and wakes the process. In between the process may be killed and its slot given
to another. Names compare through `Fold`, the spelling without case.

**PassiveTcp.** The peer's stream is the bytes 1, 2, ... and a FIN, so content and
position are compared at once. A frame that arrives is any segment the peer may
have sent up to now: that covers loss, duplication, delay and reordering. The
sequence space is small and both initial numbers lie just below its wrap.

**SocketService.** One advance of the coordinator runs through the stages
request, streams, event, starts, handshakes and poll. The network slots are
abstract (`StreamSlot`), which `PassiveTcp` is shown to implement.

**VirtioNet.** The driver runs in steps at every point where the device can see or
change shared memory. `drv` is `struct VirtioNet`, `cpu` the call in progress with
its locals, `mem` the memory the driver writes, `dev` the device with the rings
it writes, `flags` the two interrupt words, `hist` what was received, delivered,
sent and reported. The device is external: it fetches, completes in any order
among the buffers it holds, and with `Rogue` may at the end write any ring entry
and any index. With `Lossy` an MSI-X message may be lost.

**Dispatch.** `loop` is the program counter of the kernel loop with its tick and its
scan, `procs` the state of the processes as the dispatcher sees it, `current` the
published context slot, `root` the owner of the active address space. A slice is
`Enter`, the program, and `Leave`: interrupts are masked from the publication of the
slot to the switch of the address space and back, so nothing falls between.
`Leave` takes the interrupted frame as the context of the process only when it is
inside the bounds of the process (`valid_user_frame`); otherwise the process ends by
a fault. A process that cannot be entered (the slot taken, its context out of
bounds) stops the kernel, as `run_slice` does.

**Terminal, Commands, Clients, Ipv6, Syscalls, Images, Handoff, BootPaging,
Memory** each begin with a comment that says what their state stands for.

## 2. Runs

| Run | Instance | Properties |
| --- | --- | --- |
| `processes` | messages: two slots used twice each, two endpoint generations, queue of two; supervision: three slots, two launches for each process; reuse: two slots used twice each, three launches | `TypeOK`, `SendAuthority`, `BlockedIsWoken`, `FairQueue`, `RegistryAgrees`, `HandleControlsOwnChild`, `EndedLeavesNothing` |
| `volume` | three payload sectors, cache of two, three generations, reads at mount that may fail or not | `ActiveSlotIntact`, `CacheCoherent`, `CreatesOnlyFresh`, `ImplementsStore` |
| `streams` | receive: three bytes cut anywhere; send: two bytes against a window that closes; both: one byte each through a device that refuses frames | `AcknowledgedIsHeld`, `SentIsAcknowledged`, `SlotRefined`, `RetransmissionNotPostponed` |
| `progress` | served: a peer that repeats four bytes; released: nothing asked of wire and peer; turns: three processes; dispatch: two processes, every call, frames in and out of bounds | `StreamProgresses`, `SlicesAreFair`, `ProcessesProgress` |
| `sockets` | streams, budgets, clients, siblings, waiting (below) | `SocketTablesAgree`, `ClientOwnsTransport`, `SocketsProgress` |
| `files` | data: two processes read and write a file and the memory report; names and tree: create and remove in two spellings | `HandlesAreSound`, `TreeIsRecorded`, `MutationIsAuthorised`, `RequestIsAnswered` |
| `network_queues` | ring of two, indices modulo four; receive four frames, send five, break the protocol on either ring, poll | `BufferHasOneOwner`, `FramesInOrder`, `ReadinessKept`, `RunsOnlyPrepared`, `SharedMemoryDiscipline`, `FrameIsTaken` |
| `machine` | frames, boot, handoff, images, calls, lines, keys, commands, jobs, clients, ipv6 | `MemoryIsOwned`, `BootMapIsSealed`, `HandoffIsRetained`, `ImagesLoadExactly`, `CallsAreServed`, `PromptMirrorsEditor`, `ClientsAreAnswered`, `AddressesAreVerified`, `ShellIsFaithful` |
| `volume_unread` | as `volume`, reads at mount may fail | `MountFindsCommitted` violated |
| `handshake_held` | one connection, fair clock and polls | `HandshakeIsReleased` violated |
| `read_after_growth` | as `files`, data | `ReadAdvances` violated |
| `pending_input` | a line of two characters | `PendingInputIsShown` violated |

What the properties say:

- `SendAuthority`: every send capability names an endpoint published now by the
  very process it was connected to.
- `BlockedIsWoken`: a process blocked in receive has an empty queue and a handle
  that equals the published generation; one that waits for a child waits for a
  live child of its own; one that waits for a launch owns the pending request.
- `FairQueue`: bounded, one message per producer, empty when unpublished.
- `RegistryAgrees`: the registry holds exactly the capabilities of the tables.
- `HandleControlsOwnChild`: a process handle reaches only its owner's child, and
  no second handle reaches it.
- `EndedLeavesNothing`: an ended process holds and publishes nothing, and an ended
  supervisor leaves no child.
- `ActiveSlotIntact`: the slot in use is complete and durable in every state.
- `CacheCoherent`: the cache is bounded, its order lists what it holds, clean
  entries equal the device, and a quarantined volume has nothing left to write.
- `CreatesOnlyFresh`: a volume is created only where nothing was acknowledged.
- `ImplementsStore`: the volume refines `DurableStore`, on devices that read
  every sector at mount.
- `AcknowledgedIsHeld`, `SentIsAcknowledged`: bytes acknowledged to the peer are
  delivered or buffered, once and in order; bytes reported as sent were
  acknowledged, and the wire carries the process's stream.
- `SlotRefined`: `PassiveTcp` implements `StreamSlot`.
- `RetransmissionNotPostponed`: received data never delays a retransmission.
- `StreamProgresses`: a stream is served to its end, or its slot is given back.
- `SocketTablesAgree`: network, coordinator and processes agree about every
  connection whenever an advance begins, and no process exceeds its budget.
- `ClientOwnsTransport`: the client transport serves the request that waits for
  it, alone; a port has one owner.
- `SocketsProgress`: a stream with something to report is polled although a
  sibling is never read; a waiting client request is resolved.
- `HandlesAreSound`: a handle designates the node it was opened for.
- `TreeIsRecorded`: the visible tree, the record a mount would find and the
  published diagnostic agree after every outcome of a commit.
- `MutationIsAuthorised`: no step changes a node unless the requester is alive,
  waits for this request and holds the right.
- `RequestIsAnswered`: a process that waits for a file operation is answered.
- `BufferHasOneOwner`: each receive buffer is with the device, in an unread
  completion or with the call that copies it, and in only one of these places.
- `FramesInOrder`: every frame within the packet budget is delivered once and in
  order; what is reported as sent is what was sent.
- `ReadinessKept`: an unread completion is announced, unless a message was lost.
- `RunsOnlyPrepared`: the device runs only with both queues enabled and filled.
- `SharedMemoryDiscipline`: the transmit buffer is not rewritten while the device
  may read it; a quarantine is final.
- `FrameIsTaken`: a completed frame is taken even if its interrupt was lost.
- `MemoryIsOwned`: bitmap, ledger and page tables agree; no page is writable and
  executable; a frame holds only its owner's data.
- `BootMapIsSealed`: the kernel's page tables grant no more than the firmware did;
  once sealed, code and constants and the interrupt table are read-only, data and
  managed RAM are not executable, and each stack keeps its own pages above an
  unmapped guard. A frame that runs out, overlapping stacks, a stack pointer outside
  the first stack or a mapping in the user half halts the boot instead.
- `HandoffIsRetained`: the allocator starts with exactly the RAM that neither the
  loader nor the firmware (boot services, or the attribute of runtime services)
  holds; a map with too many regions or frames halts the boot.
- `ImagesLoadExactly`: an accepted image is in memory byte for byte, also when the
  loaded segments and the file in memory lie close together.
- `CallsAreServed`: each system call checks what it uses and writes only inside
  checked buffers of the caller.
- `SlicesAreFair`: a ready process is passed over for at most one round, a ready
  socket waiter for at most a round of the wake budget. While a program runs, the
  slot and the address space are those of its process; at all other times the
  kernel's own address space is active and the slot is empty; the context of every
  live process is inside its bounds.
- `ProcessesProgress`: no process stays ready, asleep or waiting for a socket for
  ever, unless the kernel stops.
- `PromptMirrorsEditor`: when the shell waits, the terminal's copy of the line is
  the shell's line.
- `ClientsAreAnswered`, `AddressesAreVerified`: an answer belongs to the operation
  it is handed to; an address is used only after an unanswered probe.
- `ShellIsFaithful`: between commands the shell holds no file, its job table names
  its children, and what a command said of a file is so.

### Bounds, and why they are enough

- `processes`: `IncarnationMax`, `GenerationMax`, `ProcHandleGenMax` and
  `RequestMax` stand for the last values of 32-, 48- and 64-bit counters. The code
  stops there too, so small values also reach exhaustion. `Asked` cuts the state
  space for each question: two incarnations let a slot and its pid be reused
  while another process holds authority, three slots are needed for a supervisor,
  its child and a bystander. Symmetry permutes the pids, which no action orders.
- `volume`: with three payload sectors and a cache of two, a dirty entry is
  evicted in the middle of a commit; with two sectors that never happens. Three
  generations make each slot the target of a commit once and reach the last
  generation.
- `streams`: sequence numbers are modulo 64 and start at 61 and 62, so both
  directions wrap; the receive window (2) is smaller than the stream (3).
- `sockets`: *streams* is one process that accepts, sends, shuts down, closes and
  is restarted; *budgets* two peers that compete for a budget of one; *clients*
  two processes beside the passive side; *siblings* two accepted streams of a
  process that never reads; *waiting* two client requests that wait for the network.
- `files`: three requests (six for one process alone) suffice for an open, a
  removal by another process and a use of the stale handle, with a kill and a
  replacement in between.
- `network_queues`: five sends and four frames take every index modulo four round
  once; a poll limit of three reaches the timeout after a recovery look.
- `machine`: the constants of each instance are commented in `MCMachine`. The
  numbers of free frames and table sizes make an allocation fail at every point of a
  build; the registers lie on both sides of every page, window and buffer boundary.

Deadlock is checked in `volume` and `sockets`. The other runs stop
when their bounds are used up (`CHECK_DEADLOCK FALSE`): no incarnation, frame,
byte or request is left.

### Fairness, and what justifies it

- `progress`: the coordinator polls the slots on every pass, so both polls
  are weakly fair, and the clock is an interrupt. The *served* question adds what
  it assumes of the outside: a wire that delivers a segment which is repeated for
  ever, and a process that reads. *released* assumes nothing of the outside. For
  *dispatch* the kernel's own steps are weakly fair, because none of them waits, and
  so is the timer interrupt. Nothing makes a program call the kernel, and the timer
  takes the processor only from a process that armed preemption by asking for the
  ABI version (`timer_preempt`; `docs/SINGLE_CORE.md:73` says the same). So the run
  assumes that a program either arms preemption or ends its slice by a call
  (`ProgramsReturn`); a program that does neither keeps the processor for ever.
- `handshake_held`: clock and polls are fair, for the same reason.
- `sockets`: the kernel loop runs the coordinator on and on, so its stages
  "request" and "poll" come again. The *waiting* question adds two assumptions that
  the code does not guarantee by itself: the passive side is idle again and
  again, and the operation the network has under way ends.
- `files`: `complete_vfs_request` is the first thing in every pass.
- `network_queues`: `receive` is called on every pass and every call ends by
  itself. Nothing is assumed of the device or of interrupts.

## 3. Disagreements with the documentation

- `volume_unread`: `docs/STORAGE.md:52` promises that after a committed operation
  a fresh mount finds the new snapshot, assuming flushes are honoured. If the read
  of the newer slot fails at mount, the older generation is mounted, and the next
  commit overwrites the newer one. The fall-back is intended
  (`storage_tests.rs:662`); the table's assumption does not mention reads. The
  theorem `ReadableMountFindsCommitted` is the other half: without a failed read
  the promise holds.
- `handshake_held`: `docs/TCP_REQUIREMENTS.md:68` says that retry and idle
  lifetimes are finite. A SYN repeated before the deadline renews the deadline
  without being counted (`network.rs:1257`).
- `read_after_growth`: `docs/USERSPACE.md:201` says that a read advances the offset
  by the bytes it returned. The offset stops at the size the file had when it was
  opened (`userspace.rs:4176`), so bytes appended later are read again.
- `pending_input`: `docs/TERMINAL.md:77` says that output redraws the pending input.
  Between the echo of a key and the shell's publication of the line, output
  redraws the line without that key (`shell.rs:166`).

## 4. Proofs

Eight modules hold theorems. All are proved for every value of the constants,
from the named assumptions of `Endpoint`, `ProcessManager`, `Storage` and
`VirtioNet` only: positive capacities, slots that are a finite set of naturals,
markers distinct from the values they mark, a cache no larger than a slot, an
index range larger than the ring and a multiple of it. TLC evaluates these
assumptions in the passing runs.

### Process manager: `ProcessTypes`, `ProcessResources`, `ProcessInvariants`

| Theorem | States |
| --- | --- |
| `TypeCorrect` | `[]TypeOK` |
| `SendAuthorityHolds` | `[]SendAuthority` |
| `ManagerInvariant` | the inductive invariant `ManagerInv` |
| `BlockedIsAlwaysWoken`, `QueuesStayFair`, `RegistryAlwaysAgrees`, `HandlesControlOwnChildren`, `EndedAlwaysLeavesNothing` | the other five invariants of the run `processes` |

`SendAuthority` needs `DistinctPids`: with two processes of one pid, the second
could publish the generation a capability names. A step that closes an endpoint
or ends its process sweeps every capability that names it; a pid is given out
again only when its slot is free and nothing names it any more; every other step
leaves the publishers of each capability alone.

The other invariants are about reuse, and none of them is inductive alone.
`ManagerInv` rests on two facts. First, what one slot holds is orderly as a value
(`ProcessResources`): process record, endpoint state, registry and process handles
agree, and each way a step can change them keeps that. Second, a key (slot and
incarnation) is never handed out twice (`KeysOwned`), so a parent, a process
handle or a wait that names a key means the same process for ever or none. A
parked receiver's handle equals the published generation, so a send to it takes
the path that wakes it. A child that is removed with its supervisor has no waiter
but that supervisor. There is one pending launch, owned by whoever waits for it.

### Volume: `StorageInvariant`, `StorageProofs`

| Theorem | States |
| --- | --- |
| `VolumeInvariant` | the inductive invariant `IInv` |
| `ActiveSlotStaysIntact`, `CacheStaysCoherent`, `CreationIsFresh` | the invariants of the run `volume` |
| `VolumeImplementsStore` | `Storage` implements `DurableStore` |
| `ReadableMountFindsCommitted` | a mount that can read finds what was acknowledged |

`IInv` says how far a commit has come (`Progress`: dirty sectors lie in the target
slot only, no committed header is in it between the first flush and the
publication), that the active slot holds the acknowledged snapshot on stable
media (`Intact`), and what power loss may leave in the other slot (`Recovery`: an
older snapshot, or the one whose publication is under way). For the refinement,
the start of a commit, its acknowledgement after the last flush, its failure,
power loss and the mount that settles an open outcome are the steps of
`DurableStore`; every other device command is a stutter.

### Network driver: `VirtioNetRings`, `VirtioNetDriver`, `VirtioNetProofs`

| Theorem | States |
| --- | --- |
| `NetInvariant` | the inductive invariant `NetInv` |
| `BuffersHaveOneOwner`, `FramesStayInOrder`, `ReadinessIsKept`, `DeviceRunsPrepared` | the invariants of the run `network_queues` |
| `SharedMemoryIsDisciplined` | the action property of that run |

They hold for every ring size, every index range, poll limit, recovery interval
and number of frames, with lost interrupts and a device that breaks the protocol.

The consumed, completed, fetched and published index stand in this order round a
circle of `W` values and span at most `N` places. The descriptors in the three
windows between them (unread completions, buffers the device holds, published
ring entries), with the one that is being copied, are distinct and cover the
ring. Nothing says how the device chooses among the buffers it holds, so they are
only counted: `Numbers(held, n)` says that they can be listed as `n` distinct ones, `n` being
the distance between the completed and the fetched index. The entries of a batch
in progress are the used ring between the consumed and the admitted index, so
`admit` never refuses what a correct device wrote. The i-th unread completion
carries the i-th of the last frames that arrived (`Carried`), and what is delivered
covers all frames before them (`Covered`): order survives any number of wraps. The
device is at most one transmit ahead, and every completion the driver has not
looked at is announced by an interrupt, the flag, or the call that is reading the
index (`WakeInv`).

`Storage` and `VirtioNet` avoid `SequencesExt`, and the theorems of finite sets are
extended only by the last module of a component: every definition in scope slows
each obligation down. TLC checks the three inductive invariants on instances of
the size of the runs too, with the listing that `Numbers` asserts drawn from
`[1..n -> S]`.

### Only model-checked

- Everything with fairness: `FrameIsTaken`, `StreamProgresses`, `SocketsProgress`,
  `RequestIsAnswered`, `ProcessesProgress`. Liveness and `ENABLED` are beyond the
  prover.
- Components built on recursive definitions, folds and searches of data (`Vfs`,
  `Files`, `Images`, `Handoff`, `BootPaging`, `Memory`, `Terminal`, `Commands`): what a
  recursive definition computes for every input needs induction over data,
  which the prover does not do.
- `PassiveTcp`, `Sockets`, `SocketService`, `Clients`, `Ipv6`, `Syscalls` and `Dispatch`: no
  proof has been written. Their invariants quantify over many tables at once and
  hold on the instances above.

## 5. Not modelled, and simplified

`components` in PROJECT.json gives the reason for every part.

- Display and desktop, host tools, register and descriptor-table setup, byte
  layouts and checksums, PCI discovery, the NE2000 fall-back, the keyboard
  controller's event ring, the status commands of the shell, and the self-tests run
  at boot (`prove_*`). The registry of kernel workers (`tasks.rs`) has no worker in
  the running kernel.
- `Clients`: the wait for an idle passive side is left to `SocketService`; ports do
  not wrap within the bounds. The answer of a waited-for TCP exchange may be a prefix
  of the server's stream, because the code accepts a FIN at any sequence number.
- `Ipv6`: if the device refuses the first probe, the link-local address is used
  without having been probed; the property says so.
- `Commands`: the kernel closes every valid handle, so the branches for a failed
  close never run and are left out. `append` and `cat` read until the end of a file, so they do not end
  while another program keeps extending it; a bound on calls stands in.
- `Terminal`: a run of parameter bytes of an escape sequence is one byte. Where
  history or completion replace the line, the cursor is as the code leaves it.
- The stack has no TIME-WAIT, as `docs/KNOWN_LIMITATIONS.md` says; the model
  releases a closed stream as the code does.
