------------------------------ MODULE Storage ------------------------------
(***************************************************************************)
(* The persistent volume of kernel/src/storage.rs and storage_format.rs:   *)
(* two snapshot slots, the write-back block cache, the ordered commit with *)
(* its quarantine, and the mount that picks the newest valid generation.   *)
(*                                                                         *)
(* A snapshot is the contents of the payload sectors of a slot.  The       *)
(* header sector carries the commit byte, the generation and the checksum; *)
(* the checksum is taken to tell any two (generation, snapshot) pairs      *)
(* apart.  A torn or failed sector write may leave Garbage.                *)
(*                                                                         *)
(* Every action performs at most one device command.  Commit and mount are *)
(* synchronous, so only power loss interleaves with them.                  *)
(***************************************************************************)
EXTENDS Naturals, Sequences, FiniteSets

CONSTANTS
  PayloadSectors,   \* SLOT_SECTORS - 1
  Pieces,           \* contents of a payload sector
  Zero,             \* the all-zero sector, one of Pieces
  Garbage,          \* what a torn write leaves behind
  CacheEntries,     \* CACHE_ENTRIES
  GenerationMax,    \* the last u64 generation
  Seed,             \* the tree a fresh volume is created with
  MountFaults,      \* for which devices: may reads at mount fail, the VFS be full
  NotCached, Nothing, NoSlot

VARIABLES
  media,        \* what stable media may hold after power loss, per sector
  device,       \* what the device returns for a sector now
  cache,        \* BlockCache.entries by sector
  recency,      \* the cached sectors, least recently used first
  fs,           \* PersistentFs: partition, active_slot, generation, quarantine
  phase,        \* "off", "running" or "commit"
  step,         \* the next command of commit_with
  buffer,       \* the snapshot being committed
  vfs,          \* the /USER tree that applications see
  acknowledged, \* history: the last acknowledged or mounted snapshot
  unsettled     \* history: snapshots of commits that neither were acknowledged
                \* nor failed before publication
VARIABLE faulty \* whether this device may fail a read at mount


storageVars == <<media, device, cache, recency, fs, phase, step, buffer, vfs,
                 acknowledged, unsettled, faulty>>

PayloadIndex == 1..PayloadSectors
Snapshots == [PayloadIndex -> Pieces]
Lba == {0, 1} \X (0..PayloadSectors)

Header == [mark : {"open", "committed"}, generation : 1..GenerationMax, of : Snapshots]
Sector == Header \cup Pieces \cup {Garbage}

ASSUME StorageConstants ==
  /\ PayloadSectors \in Nat \ {0}
  /\ CacheEntries \in 1..(PayloadSectors + 1)
  /\ GenerationMax \in Nat \ {0}
  /\ Zero \in Pieces
  /\ Seed \in Snapshots
  /\ MountFaults \subseteq BOOLEAN
  /\ Garbage \notin Header \cup Pieces
  /\ Header \cap Pieces = {}
  /\ Nothing \notin Snapshots
  /\ NoSlot \notin {0, 1}

Entry == [data : Sector, dirty : BOOLEAN]

ASSUME NotCachedIsNoEntry == NotCached \notin Entry

Unavailable == [partition |-> "none", active_slot |-> NoSlot, generation |-> 0,
                quarantine |-> "none"]

\* PersistentFs::read_only
ReadOnly == fs.partition # "writable" \/ fs.quarantine # "none"

-----------------------------------------------------------------------------
(* The device, external: writes stay volatile and unordered until a flush  *)
(* succeeds; a failing command may have had any effect on its sector.      *)

DeviceWrites(l, data) ==
  /\ device' = [device EXCEPT ![l] = data]
  /\ media' = [media EXCEPT ![l] = @ \cup {data, Garbage}]

DeviceFailsToWrite(l, data) ==
  \E left \in {device[l], data, Garbage} :
    /\ device' = [device EXCEPT ![l] = left]
    /\ media' = [media EXCEPT ![l] = @ \cup {data, Garbage}]

DeviceFlushes ==
  /\ media' = [l \in Lba |-> {device[l]}]
  /\ UNCHANGED device

-----------------------------------------------------------------------------
(* commit_with: the commands in order.  Commands are cache writes of one   *)
(* sector and two-phase flushes (write back every dirty entry, then flush  *)
(* the device).                                                            *)

\* Mutant of Target: commits over the slot it would fall back to.
TargetActive == IF fs.active_slot = NoSlot THEN 0 ELSE fs.active_slot

Target == IF fs.active_slot = NoSlot THEN 0 ELSE 1 - fs.active_slot

InvalidateStep == 1
FirstFlush == 2
PayloadFlush == PayloadSectors + 3
PublishStep == PayloadSectors + 4
LastFlush == PayloadSectors + 5

FlushSteps == {FirstFlush, PayloadFlush, LastFlush}

\* The sector and the data a cache write of this step is about.
StepLba == <<Target, IF step \in {InvalidateStep, PublishStep} THEN 0 ELSE step - FirstFlush>>

StepData ==
  IF step \in {InvalidateStep, PublishStep}
  THEN [mark |-> IF step = PublishStep THEN "committed" ELSE "open",
        generation |-> fs.generation + 1, of |-> buffer]
  ELSE buffer[step - FirstFlush]

Cached == {l \in Lba : cache[l] # NotCached}
Dirty == {l \in Cached : cache[l].dirty}

\* BlockCache::write evicts only on a miss when no entry is invalid (recency
\* lists the valid ones); the victim is the least recently used sector, and only
\* a dirty victim costs a device write.
Victim == IF StepLba \in Cached \/ Len(recency) < CacheEntries
          THEN {} ELSE {Head(recency)}

\* A sequence without the element at a position.
Without(s, i) == [j \in 1..(Len(s) - 1) |-> IF j < i THEN s[j] ELSE s[j + 1]]

\* The place of the entry that is filled again, unless a free one is.
Filled == {i \in DOMAIN recency : recency[i] \in {StepLba} \cup Victim}

CacheWrite ==
  /\ cache' = [l \in Lba |-> IF l = StepLba THEN [data |-> StepData, dirty |-> TRUE]
                             ELSE IF l \in Victim THEN NotCached ELSE cache[l]]
  /\ recency' = Append(IF Filled = {} THEN recency
                       ELSE Without(recency, CHOOSE i \in Filled : TRUE), StepLba)

\* Whether the committed header may have reached the device.
Publishing == step >= PublishStep

\* The volume is quarantined with what is known of the publication.
Quarantine ==
  /\ fs' = [fs EXCEPT !.quarantine = IF Publishing THEN "Unknown" ELSE "NotPublished"]
  /\ phase' = "running"
  /\ unsettled' = IF Publishing THEN unsettled ELSE {}
  /\ UNCHANGED <<step, buffer, acknowledged>>

\* BlockCache::discard
Discard == cache' = [l \in Lba |-> NotCached] /\ recency' = << >>

\* Mutant of CommitFails: keeps the unacknowledged transaction in the cache.
CommitFailsKeepingCache == Quarantine /\ UNCHANGED <<cache, recency, vfs>>

\* Mutant of CommitFails: leaves the failed mutation visible in RAM.
CommitFailsUnrestored == Quarantine /\ Discard /\ vfs' = buffer

\* The failure path of commit_with and sync_with: quarantine, discard the
\* cache without writing it back, restore RAM.
CommitFails == Quarantine /\ Discard /\ UNCHANGED vfs

WriteStep ==
  /\ phase = "commit" /\ step \notin FlushSteps
  /\ \/ /\ Victim \cap Dirty = {}
        /\ UNCHANGED <<media, device>>
        /\ CacheWrite /\ step' = step + 1
        /\ UNCHANGED <<fs, phase, buffer, vfs, acknowledged, unsettled>>
     \/ \E l \in Victim \cap Dirty :
          \/ /\ DeviceWrites(l, cache[l].data)
             /\ CacheWrite /\ step' = step + 1
             /\ UNCHANGED <<fs, phase, buffer, vfs, acknowledged, unsettled>>
          \/ DeviceFailsToWrite(l, cache[l].data) /\ CommitFails

\* BlockCache::flush, its loop: the position of an entry in the array is not
\* modelled, so any dirty entry may be next.
WritebackStep ==
  /\ phase = "commit" /\ step \in FlushSteps
  /\ \E l \in Dirty :
       \/ /\ DeviceWrites(l, cache[l].data)
          /\ cache' = [cache EXCEPT ![l].dirty = FALSE]
          /\ UNCHANGED <<recency, fs, phase, step, buffer, vfs, acknowledged, unsettled>>
       \/ DeviceFailsToWrite(l, cache[l].data) /\ CommitFails

\* The device flush that ends a flush step.  The last one ends the commit.
FlushStep ==
  /\ phase = "commit" /\ step \in FlushSteps /\ Dirty = {}
  /\ \/ UNCHANGED <<media, device>> /\ CommitFails
     \/ /\ DeviceFlushes
        /\ UNCHANGED <<cache, recency, buffer>>
        /\ IF step # LastFlush
           THEN /\ step' = step + 1
                /\ UNCHANGED <<fs, phase, vfs, acknowledged, unsettled>>
           ELSE /\ fs' = [fs EXCEPT !.active_slot = Target,
                                    !.generation = fs.generation + 1]
                /\ phase' = "running" /\ step' = 0
                /\ vfs' = buffer /\ acknowledged' = buffer /\ unsettled' = {}

StartCommit(v) ==
  /\ phase' = "commit" /\ step' = InvalidateStep
  /\ buffer' = v /\ unsettled' = {v}

\* mutate_vfs through PersistentFs::sync: denied on a read-only volume, and
\* rejected before any I/O for the last generation.  A tree without entries
\* is not a snapshot: encode_snapshot rejects it.
Mutate(v) ==
  /\ phase = "running"
  /\ ~ReadOnly
  /\ fs.generation < GenerationMax
  /\ StartCommit(v)
  /\ UNCHANGED <<media, device, cache, recency, fs, vfs, acknowledged>>

-----------------------------------------------------------------------------
(* Boot.                                                                   *)

\* validate_snapshot of what the device returns for a slot.
Valid(slot) ==
  LET header == device[<<slot, 0>>] IN
  /\ header \in Header
  /\ header.mark = "committed"
  /\ \A k \in PayloadIndex : device[<<slot, k>>] = header.of[k]

Blank(slot) == \A k \in 0..PayloadSectors : device[<<slot, k>>] = Zero

Generation(slot) == device[<<slot, 0>>].generation

\* newest_valid_slot over the slots that could be read; a tie selects slot 0.
Newest(readable) ==
  LET valid == {s \in readable : Valid(s)} IN
  IF valid = {} THEN NoSlot
  ELSE IF valid = {0, 1} THEN (IF Generation(1) > Generation(0) THEN 1 ELSE 0)
  ELSE CHOOSE s \in valid : TRUE

\* The cache after read_slot_with read the given slot last: clean entries for
\* its last sectors, as many as fit (a slot has 40 sectors, the cache 8).
ReadThrough(slot) ==
  LET read == [i \in 1..CacheEntries |-> <<slot, PayloadSectors - CacheEntries + i>>] IN
  /\ recency' = read
  /\ cache' = [l \in Lba |-> IF \E i \in 1..CacheEntries : l = read[i]
                             THEN [data |-> device[l], dirty |-> FALSE]
                             ELSE NotCached]

MountUnavailable ==
  /\ fs' = Unavailable
  /\ Discard
  /\ phase' = "running" /\ vfs' = Nothing
  /\ UNCHANGED <<media, device, step, buffer, acknowledged, unsettled>>

\* The slots whose first read succeeds, and whether the selected slot can be
\* read again and applied to the RAM tree.
ReadOutcomes == IF faulty THEN SUBSET {0, 1} ELSE {{0, 1}}
ApplyOutcomes == IF faulty THEN BOOLEAN ELSE {TRUE}

\* Mutant of Creatable: a slot that cannot be read counts as blank.
CreatableUnread(readable) == \A s \in readable : Blank(s)

\* A volume is created only over two slots that were read and are blank.
Creatable(readable) == readable = {0, 1} /\ Blank(0) /\ Blank(1)

\* mount_device_with: mount the newest valid slot, create a blank volume, or
\* leave the volume unavailable.
Boot(type, readable, applied) ==
  LET selected == Newest(readable) IN
  /\ phase = "off"
  /\ \/ /\ selected # NoSlot /\ applied
        /\ fs' = [partition |-> type, active_slot |-> selected,
                  generation |-> Generation(selected), quarantine |-> "none"]
        /\ ReadThrough(selected)
        /\ phase' = "running"
        /\ vfs' = device[<<selected, 0>>].of
        /\ acknowledged' = vfs' /\ unsettled' = {}
        /\ UNCHANGED <<media, device, step, buffer>>
     \/ selected # NoSlot /\ ~applied /\ MountUnavailable
     \/ /\ selected = NoSlot /\ type = "writable" /\ applied /\ Creatable(readable)
        /\ fs' = [Unavailable EXCEPT !.partition = type]
        /\ ReadThrough(1)
        /\ StartCommit(Seed)
        /\ UNCHANGED <<media, device, vfs, acknowledged>>
     \/ /\ selected = NoSlot
        /\ ~(type = "writable" /\ applied /\ Creatable(readable))
        /\ MountUnavailable

\* Power is lost: every sector settles on one of the values it may hold.
PowerFails ==
  /\ LET open == {l \in Lba : media[l] # {device[l]}} IN
     \E settled \in [open -> UNION {media[l] : l \in open}] :
       /\ \A l \in open : settled[l] \in media[l]
       /\ device' = [l \in Lba |-> IF l \in open THEN settled[l] ELSE device[l]]
  /\ media' = [l \in Lba |-> {device'[l]}]
  /\ fs' = Unavailable
  /\ Discard
  /\ phase' = "off" /\ step' = 0 /\ vfs' = Nothing
  /\ UNCHANGED <<buffer, acknowledged, unsettled>>

StorageInit ==
  /\ device = [l \in Lba |-> Zero]
  /\ media = [l \in Lba |-> {Zero}]
  /\ fs = Unavailable
  /\ cache = [l \in Lba |-> NotCached] /\ recency = << >>
  /\ phase = "off" /\ step = 0 /\ buffer = Seed
  /\ vfs = Nothing /\ acknowledged = Nothing /\ unsettled = {}
  /\ faulty \in MountFaults

StorageStep ==
  \/ \E v \in Snapshots : Mutate(v)
  \/ WriteStep
  \/ WritebackStep
  \/ FlushStep
  \/ \E type \in {"writable", "readonly"}, readable \in ReadOutcomes,
        applied \in ApplyOutcomes : Boot(type, readable, applied)
  \/ PowerFails

StorageNext == StorageStep /\ UNCHANGED faulty

StorageSpec == StorageInit /\ [][StorageNext]_storageVars

-----------------------------------------------------------------------------
(* Properties.                                                             *)

\* The slot a mounted volume relies on is durable and complete in every state,
\* during a commit and after any failed command: whatever power loss leaves,
\* commit_with has put nothing at risk that was acknowledged before.
ActiveSlotIntact ==
  fs.active_slot # NoSlot =>
    /\ media[<<fs.active_slot, 0>>] =
         {[mark |-> "committed", generation |-> fs.generation, of |-> acknowledged]}
    /\ \A k \in PayloadIndex : media[<<fs.active_slot, k>>] = {acknowledged[k]}

\* A clean cached sector is what the device holds, so a read or an eviction
\* that relies on it loses nothing; and a quarantined volume has no commit under
\* way and no dirty sector, so that a transaction whose failure was reported is
\* never completed behind the back of the caller.
CacheCoherent ==
  /\ fs.quarantine # "none" => phase = "running" /\ Dirty = {}
  /\ Cardinality(Cached) <= CacheEntries
  /\ {recency[i] : i \in DOMAIN recency} = Cached /\ Len(recency) = Cardinality(Cached)
  /\ \A l \in Cached \ Dirty : cache[l].data = device[l]

\* A volume is created only where nothing was ever acknowledged, also when a
\* slot cannot be read.
CreatesOnlyFresh ==
  phase = "commit" /\ fs.active_slot = NoSlot => acknowledged = Nothing

\* docs/STORAGE.md, outcome "Committed": a fresh mount finds the new snapshot.
\* A mount that finds a snapshot finds the acknowledged one or a later one
\* whose publication was not settled.
MountFindsCommitted ==
  [][phase = "off" /\ phase' = "running" /\ fs'.active_slot # NoSlot =>
       vfs' \in {acknowledged} \cup unsettled]_storageVars

\* The volume implements the abstract store: a mutation is published as a
\* whole, an acknowledged one survives every crash and every failed command,
\* and only a failure during publication leaves the outcome open.  This is said
\* of devices that read every sector at mount; for the others see
\* MountFindsCommitted.
Store == INSTANCE DurableStore WITH
  mode <- IF faulty \/ phase = "off" THEN "down" ELSE IF phase = "commit" THEN "busy"
          ELSE IF ReadOnly THEN "closed" ELSE "open",
  durable <- IF faulty THEN Nothing ELSE acknowledged,
  maybe <- IF faulty THEN {} ELSE unsettled,
  view <- IF faulty THEN Nothing ELSE vfs

ImplementsStore == Store!StoreSpec
=============================================================================
