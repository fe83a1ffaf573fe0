--------------------------- MODULE StorageProofs ----------------------------
(***************************************************************************)
(* Machine-checked proofs about Storage, for every number of payload       *)
(* sectors, cache entries, generations and sector contents: the invariants *)
(* of the volume, and that it implements DurableStore.                     *)
(***************************************************************************)
EXTENDS StorageInvariant, FiniteSetTheorems

-----------------------------------------------------------------------------
(* Boot.                                                                   *)

\* The cache after a slot was read through it is clean and coherent.
LEMMA ReadThroughFact ==
  ASSUME device \in [Lba -> Sector], UNCHANGED device, NEW slot \in {0, 1}, ReadThrough(slot)
  PROVE  /\ cache' \in [Lba -> Entry \cup {NotCached}] /\ recency' \in Seq(Lba)
         /\ CacheOrder' /\ Coherent' /\ Dirty' = {}
<1> DEFINE read == [i \in 1..CacheEntries |-> <<slot, PayloadSectors - CacheEntries + i>>]
           clean(l) == [data |-> device[l], dirty |-> FALSE]
<1>1. recency' = read /\ cache' = [l \in Lba |-> IF \E i \in 1..CacheEntries : l = read[i] THEN clean(l) ELSE NotCached]
  BY DEF ReadThrough
<1>2. CacheEntries \in Nat /\ \A i \in 1..CacheEntries : PayloadSectors - CacheEntries + i \in 0..PayloadSectors
  BY StorageConstants
<1>3. read \in [1..CacheEntries -> Lba] /\ DOMAIN read = 1..CacheEntries
      /\ \A i \in 1..CacheEntries : read[i] = <<slot, PayloadSectors - CacheEntries + i>>
  BY <1>2, LbaFact
<1>4. Distinct(read)
  <2>1. Len(read) = CacheEntries
    BY <1>2, <1>3
  <2> QED BY <1>2, <1>3, <2>1, StorageConstants DEF Distinct
<1> HIDE DEF read
<1>5. read \in Seq(Lba) /\ Len(read) = CacheEntries
  BY <1>2, <1>3
<1>6. \A l \in Lba : clean(l) \in Entry /\ clean(l) # NotCached /\ clean(l).data = device[l]
  <2>1. \A l \in Lba : device[l] \in Sector
    OBVIOUS
  <2> QED BY <2>1, EntryFact, Zenon
<1>7. \A l \in Lba : ~clean(l).dirty
  OBVIOUS
<1> HIDE DEF clean
<1>8. cache' \in [Lba -> Entry \cup {NotCached}]
  BY <1>1, <1>6
<1>9. \A l \in Lba : l \in Cached' <=> Occurs(read, l)
  BY <1>1, <1>3, <1>5, <1>6 DEF Cached, Occurs
<1>10. CacheOrder'
  BY <1>1, <1>2, <1>4, <1>5, <1>9 DEF CacheOrder
<1>11. \A l \in Lba : l \in Cached' => cache'[l] = clean(l)
  BY <1>1 DEF Cached
<1>12. Dirty' = {}
  BY <1>7, <1>11 DEF Dirty, Cached
<1>13. Coherent'
  BY <1>6, <1>11 DEF Coherent
<1> QED BY <1>1, <1>5, <1>8, <1>10, <1>12, <1>13

\* newest_valid_slot returns a valid slot that no other one is newer than.
LEMMA NewestFact ==
  ASSUME NEW readable \in SUBSET {0, 1}
  PROVE  /\ Newest(readable) = NoSlot => \A s \in readable : ~Valid(s)
         /\ Newest(readable) # NoSlot =>
              /\ Newest(readable) \in readable /\ Valid(Newest(readable))
              /\ \A s \in readable : Valid(s) => Generation(s) <= Generation(Newest(readable))
<1> DEFINE valid == {s \in readable : Valid(s)}
<1>1. \A s \in {0, 1} : Valid(s) => Generation(s) \in Nat
  BY ConstantFact DEF Valid, Generation, Header
<1>2. CASE valid = {}
  BY <1>2 DEF Newest
<1>3. CASE valid = {0, 1}
  <2>1. Newest(readable) = IF Generation(1) > Generation(0) THEN 1 ELSE 0
    BY <1>3 DEF Newest
  <2>2. Valid(0) /\ Valid(1) /\ Generation(0) \in Nat /\ Generation(1) \in Nat /\ readable = {0, 1}
    BY <1>1, <1>3, Zenon
  <2>3. Newest(readable) # NoSlot
    BY <2>1, ConstantFact
  <2>4. CASE Generation(1) > Generation(0)
    BY <2>1, <2>2, <2>3, <2>4
  <2>5. CASE ~(Generation(1) > Generation(0))
    BY <2>1, <2>2, <2>3, <2>5
  <2> QED BY <2>4, <2>5
<1>4. CASE valid # {} /\ valid # {0, 1}
  <2>1. Newest(readable) = CHOOSE s \in valid : TRUE
    BY <1>4 DEF Newest
  <2>2. Newest(readable) \in valid
    BY <1>4, <2>1
  <2>3. Newest(readable) # NoSlot
    BY <2>2, ConstantFact, Zenon
  <2>4. \A s \in valid : s = Newest(readable)
    BY <1>4, <2>2, Zenon
  <2>5. \A s \in readable : Valid(s) => Generation(s) <= Generation(Newest(readable))
    BY <1>1, <2>2, <2>4
  <2> QED BY <2>2, <2>3, <2>5
<1> QED BY <1>2, <1>3, <1>4

\* On a machine that is off, a slot is valid exactly where media hold a snapshot.
LEMMA ValidIsRival ==
  ASSUME IInv, phase = "off", NEW s \in {0, 1}
  PROVE  /\ Valid(s) => /\ device[<<s, 0>>] \in Header /\ Rival(media, s, device[<<s, 0>>])
                         /\ Generation(s) \in 1..GenerationMax
                         /\ device[<<s, 0>>].of \in Snapshots
                         /\ Holds(media, s, Generation(s), device[<<s, 0>>].of)
         /\ \A h \in Header : Rival(media, s, h) => Valid(s) /\ device[<<s, 0>>] = h
<1>1. \A l \in Lba : media[l] = {device[l]}
  BY DEF IInv, Quiet
<1>2. /\ media[<<s, 0>>] = {device[<<s, 0>>]}
      /\ \A k \in PayloadIndex : media[<<s, k>>] = {device[<<s, k>>]}
  BY <1>1, LbaFact, StepFact DEF PayloadIndex
<1>3. \A h \in Header : Rival(media, s, h) => Valid(s) /\ device[<<s, 0>>] = h
  BY <1>2 DEF Rival, Valid
<1>4. ASSUME Valid(s)
      PROVE  /\ device[<<s, 0>>] \in Header /\ Rival(media, s, device[<<s, 0>>])
             /\ Generation(s) \in 1..GenerationMax
             /\ device[<<s, 0>>].of \in Snapshots
             /\ Holds(media, s, Generation(s), device[<<s, 0>>].of)
  <2> DEFINE h == device[<<s, 0>>]
  <2>1. h \in Header /\ h.mark = "committed" /\ \A k \in PayloadIndex : device[<<s, k>>] = h.of[k]
    BY <1>4 DEF Valid
  <2> HIDE DEF h
  <2>2. h.generation \in 1..GenerationMax /\ h.of \in Snapshots /\ h = HeaderOf("committed", h.generation, h.of)
    BY <2>1 DEF Header, HeaderOf
  <2>3. Rival(media, s, h)
    BY <2>1, <1>2 DEF Rival, h
  <2>4. Holds(media, s, h.generation, h.of)
    BY <2>1, <2>2, <1>2 DEF Holds, h
  <2> QED BY <2>1, <2>2, <2>3, <2>4 DEF h, Generation
<1> QED BY <1>3, <1>4

\* What a mount finds on a device that reads every sector: the acknowledged
\* snapshot or an unsettled one, and nothing newer in the other slot.
LEMMA MountFinds ==
  ASSUME IInv, phase = "off", ~faulty, NEW selected, selected = Newest({0, 1})
  PROVE  /\ selected = NoSlot => acknowledged = Nothing
         /\ selected # NoSlot =>
              /\ device[<<selected, 0>>].of \in {acknowledged} \cup unsettled
              /\ \A h \in Header : Rival(media, 1 - selected, h) => h.generation < Generation(selected)
<1>1. Types /\ Recovery
  BY DEF IInv
<1>2. PICK a \in {0, 1}, g \in 0..GenerationMax : Recoverable(media, a, g, acknowledged, unsettled)
  BY <1>1 DEF Recovery, Suspects
<1>3. /\ selected = NoSlot => \A s \in {0, 1} : ~Valid(s)
      /\ selected # NoSlot =>
           /\ selected \in {0, 1} /\ Valid(selected)
           /\ \A s \in {0, 1} : Valid(s) => Generation(s) <= Generation(selected)
  BY NewestFact
<1>4. a \in {0, 1} /\ 1 - a \in {0, 1} /\ 1 - (1 - a) = a /\ \A s \in {0, 1} : s = a \/ s = 1 - a
  OBVIOUS
<1>5. ASSUME acknowledged # Nothing
      PROVE  /\ Valid(a) /\ Generation(a) = g /\ device[<<a, 0>>].of = acknowledged /\ g \in Nat
  <2> DEFINE h == HeaderOf("committed", g, acknowledged)
  <2>1. Holds(media, a, g, acknowledged) /\ g # 0 /\ acknowledged \in Snapshots /\ g \in 1..GenerationMax
    BY <1>1, <1>2, <1>5, ConstantFact DEF Recoverable, Types
  <2>2. h \in Header /\ h.mark = "committed" /\ h.generation = g /\ h.of = acknowledged
    BY <2>1, HeaderFact
  <2>3. Rival(media, a, h)
    <3> HIDE DEF h
    <3>1. media[<<a, 0>>] = {h} /\ \A k \in PayloadIndex : media[<<a, k>>] = {acknowledged[k]}
      BY <2>1 DEF Holds, h
    <3> QED BY <3>1, <2>2 DEF Rival
  <2>4. Valid(a) /\ device[<<a, 0>>] = h
    BY <2>2, <2>3, ValidIsRival
  <2> HIDE DEF h
  <2> QED BY <2>1, <2>2, <2>4, ConstantFact DEF Generation
<1>6. ASSUME acknowledged = Nothing
      PROVE  ~Valid(a) /\ g = 0
  <2>1. g = 0 /\ \A h \in Header : ~Rival(media, a, h)
    BY <1>2, <1>6 DEF Recoverable
  <2> QED BY <2>1, ValidIsRival
<1>7. ASSUME Valid(1 - a)
      PROVE  /\ Generation(1 - a) \in 1..GenerationMax
             /\ Generation(1 - a) < g \/ (Generation(1 - a) = g + 1 /\ device[<<1 - a, 0>>].of \in unsettled)
  <2> DEFINE b == 1 - a
             h == device[<<b, 0>>]
  <2>1. b \in {0, 1}
    BY <1>4
  <2>2. h \in Header /\ Rival(media, b, h) /\ Generation(b) \in 1..GenerationMax
    <3> HIDE DEF b
    <3> QED BY <1>7, <2>1, ValidIsRival DEF b
  <2>3. h.generation < g \/ (h.generation = g + 1 /\ h.of \in unsettled)
    BY <2>2, <1>2 DEF Recoverable
  <2> QED BY <2>2, <2>3 DEF Generation
<1>8. selected = NoSlot => acknowledged = Nothing
  BY <1>3, <1>4, <1>5
<1>9. ASSUME selected # NoSlot
      PROVE  /\ device[<<selected, 0>>].of \in {acknowledged} \cup unsettled
             /\ \A h \in Header : Rival(media, 1 - selected, h) => h.generation < Generation(selected)
  <2>1. selected \in {0, 1} /\ Valid(selected) /\ (Valid(1 - selected) => Generation(1 - selected) <= Generation(selected))
    BY <1>3, <1>9
  <2>2. \A h \in Header : Rival(media, 1 - selected, h) => Valid(1 - selected) /\ h.generation = Generation(1 - selected)
    <3>1. 1 - selected \in {0, 1}
      BY <2>1
    <3> DEFINE o == 1 - selected
    <3> HIDE DEF o
    <3>2. \A h \in Header : Rival(media, o, h) => Valid(o) /\ h.generation = Generation(o)
      BY <3>1, ValidIsRival DEF Generation, o
    <3> QED BY <3>2 DEF o
  <2>3. CASE selected = a
    <3>1. acknowledged # Nothing
      BY <2>1, <2>3, <1>6
    <3>2. Valid(1 - a) => Generation(1 - a) < g
      BY <3>1, <2>1, <2>3, <1>5, <1>7
    <3> QED BY <3>1, <3>2, <2>2, <2>3, <1>5
  <2>4. CASE selected = 1 - a
    <3>1. /\ Generation(selected) \in 1..GenerationMax
          /\ Generation(selected) < g \/ (Generation(selected) = g + 1 /\ device[<<selected, 0>>].of \in unsettled)
      BY <2>1, <2>4, <1>7
    <3>2. acknowledged = Nothing => g = 0 /\ ~Valid(1 - selected)
      BY <2>4, <1>4, <1>6
    <3>3. acknowledged # Nothing => Valid(1 - selected) /\ Generation(1 - selected) = g /\ g \in Nat
      BY <2>4, <1>4, <1>5
    <3>4. Generation(selected) = g + 1 /\ device[<<selected, 0>>].of \in unsettled
      BY <2>1, <3>1, <3>2, <3>3, ConstantFact
    <3>5. Valid(1 - selected) => Generation(1 - selected) < Generation(selected)
      BY <3>2, <3>3, <3>4
    <3> QED BY <3>4, <3>5, <2>2
  <2> QED BY <2>1, <2>3, <2>4, <1>4
<1> QED BY <1>8, <1>9

\* A boot that leaves the volume unavailable keeps the invariant.
LEMMA UnavailableKeeps ==
  ASSUME IInv, phase = "off", MountUnavailable, UNCHANGED faulty
  PROVE  IInv'
<1>1. Types /\ Quiet /\ MayHoldDevice /\ NeverBlank /\ Recovery
  BY DEF IInv
<1>2. /\ fs' = Unavailable /\ Discard /\ phase' = "running" /\ vfs' = Nothing
      /\ UNCHANGED <<media, device, step, buffer, acknowledged, unsettled>>
  BY DEF MountUnavailable
<1>3. /\ cache' \in [Lba -> Entry \cup {NotCached}] /\ recency' \in Seq(Lba)
      /\ CacheOrder' /\ Coherent' /\ Dirty' = {}
  BY <1>2, DiscardFact
<1>4. Types'
  BY <1>1, <1>2, <1>3, UnavailableFact DEF Types
<1>5. Progress' /\ Quiet' /\ MayHoldDevice' /\ Intact'
  BY <1>1, <1>2, <1>3, UnavailableFact DEF Progress, Quiet, MayHoldDevice, Intact, ReadOnly
<1>6. NeverBlank'
  BY <1>1, <1>2 DEF NeverBlank, CreatesOnlyFresh
<1>7. Recovery'
  <2>1. Suspects' = Suspects /\ ~Engaged'
    BY <1>2, UnavailableFact DEF Suspects, Engaged
  <2> QED BY <1>1, <1>2, <2>1 DEF Recovery
<1> QED BY <1>3, <1>4, <1>5, <1>6, <1>7 DEF IInv

\* Mounting the newest valid slot keeps the invariant.
LEMMA MountKeeps ==
  ASSUME IInv, phase = "off", UNCHANGED faulty,
         NEW readable \in ReadOutcomes, NEW type \in {"writable", "readonly"},
         NEW selected, selected = Newest(readable), selected # NoSlot,
         fs' = [partition |-> type, active_slot |-> selected,
                generation |-> Generation(selected), quarantine |-> "none"],
         ReadThrough(selected), phase' = "running",
         vfs' = device[<<selected, 0>>].of, acknowledged' = vfs', unsettled' = {},
         UNCHANGED <<media, device, step, buffer>>
  PROVE  IInv'
<1> DEFINE v == device[<<selected, 0>>].of
           g == Generation(selected)
<1>1. Types /\ MayHoldDevice
  BY DEF IInv
<1>2. readable \in SUBSET {0, 1} /\ (~faulty => readable = {0, 1})
  BY DEF ReadOutcomes
<1>3. selected \in {0, 1} /\ Valid(selected)
  BY <1>2, NewestFact, Zenon
<1>4. g \in 1..GenerationMax /\ v \in Snapshots /\ Holds(media, selected, g, v)
  BY <1>3, ValidIsRival
<1>5. g \in 0..GenerationMax /\ g # 0
  BY <1>4, ConstantFact
<1> HIDE DEF v, g
<1>6. /\ fs' \in FsType /\ fs'.active_slot = selected /\ fs'.generation = g /\ fs'.quarantine = "none"
      /\ vfs' = v /\ acknowledged' = v
  BY <1>3, <1>5 DEF FsType, v, g
<1>7. /\ cache' \in [Lba -> Entry \cup {NotCached}] /\ recency' \in Seq(Lba)
      /\ CacheOrder' /\ Coherent' /\ Dirty' = {}
  BY <1>1, <1>3, ReadThroughFact DEF Types
<1>8. Types'
  BY <1>1, <1>4, <1>6, <1>7 DEF Types
<1>9. Progress' /\ Quiet' /\ MayHoldDevice'
  BY <1>1, <1>6, <1>7 DEF Progress, Quiet, MayHoldDevice
<1>10. Intact'
  BY <1>4, <1>5, <1>6, ConstantFact DEF Intact
<1>11. NeverBlank'
  <2>1. media[<<selected, 0>>] = {HeaderOf("committed", g, v)}
    BY <1>4 DEF Holds
  <2>2. HeaderOf("committed", g, v) # Zero
    BY <1>4, HeaderFact
  <2>3. Zero \notin media'[<<selected, 0>>]
    BY <2>1, <2>2
  <2> QED BY <1>3, <2>3 DEF NeverBlank, CreatesOnlyFresh
<1>12. ~faulty => Recoverable(media, selected, g, v, {})
  <2> SUFFICES ASSUME ~faulty
               PROVE  Recoverable(media, selected, g, v, {})
    OBVIOUS
  <2>1. \A h \in Header : Rival(media, 1 - selected, h) => h.generation < g
    BY <1>2, MountFinds DEF g
  <2> QED BY <2>1, <1>4, <1>5, ConstantFact DEF Recoverable
<1>13. Recovery'
  <2>1. Target' = 1 - selected /\ 1 - Target' = selected
    BY <1>3, <1>6, ConstantFact DEF Target
  <2>2. Suspects' = {}
    BY DEF Suspects
  <2> QED BY <1>3, <1>5, <1>6, <1>12, <2>1, <2>2 DEF Recovery
<1> QED BY <1>7, <1>8, <1>9, <1>10, <1>11, <1>13 DEF IInv

\* Starting to create a volume keeps the invariant: both slots are blank, so
\* nothing was ever acknowledged.
LEMMA CreateKeeps ==
  ASSUME IInv, phase = "off", UNCHANGED faulty, Blank(0), Blank(1),
         fs' = [Unavailable EXCEPT !.partition = "writable"],
         ReadThrough(1), StartCommit(Seed),
         UNCHANGED <<media, device, vfs, acknowledged>>
  PROVE  IInv' /\ acknowledged = Nothing
<1>1. Types /\ MayHoldDevice /\ NeverBlank /\ Quiet
  BY DEF IInv
<1>2. phase' = "commit" /\ step' = 1 /\ buffer' = Seed /\ unsettled' = {Seed} /\ Seed \in Snapshots
  BY StepFact, StorageConstants DEF StartCommit
<1>3. \A s \in {0, 1} : media[<<s, 0>>] = {Zero}
  <2>1. \A s \in {0, 1} : device[<<s, 0>>] = Zero /\ <<s, 0>> \in Lba
    BY StepFact, LbaFact DEF Blank
  <2> QED BY <1>1, <2>1 DEF Quiet
<1>4. acknowledged = Nothing
  BY <1>1, <1>3 DEF NeverBlank
<1>5. /\ fs' \in FsType /\ fs'.partition = "writable" /\ fs'.active_slot = NoSlot
      /\ fs'.generation = 0 /\ fs'.quarantine = "none"
  BY UnavailableFact DEF FsType
<1>6. /\ cache' \in [Lba -> Entry \cup {NotCached}] /\ recency' \in Seq(Lba)
      /\ CacheOrder' /\ Coherent' /\ Dirty' = {}
  BY <1>1, ReadThroughFact DEF Types
<1>7. Types'
  BY <1>1, <1>2, <1>5, <1>6, StepFact DEF Types
<1>8. Progress'
  <2>1. step' \notin 2..PublishStep /\ step' # LastFlush /\ step' \notin 3..PublishStep /\ step' \in 1..LastFlush
        /\ \A k \in PayloadIndex : ~(step' > FirstFlush + k)
    BY <1>2, StepFact DEF PayloadIndex
  <2>2. 0 < GenerationMax
    BY ConstantFact
  <2> QED BY <1>2, <1>5, <1>6, <2>1, <2>2 DEF Progress, FirstFlush, LastFlush, PublishStep
<1>9. Quiet' /\ MayHoldDevice' /\ Intact' /\ NeverBlank'
  BY <1>1, <1>2, <1>4, <1>5 DEF Quiet, MayHoldDevice, Intact, NeverBlank, CreatesOnlyFresh
<1>10. Recovery'
  <2>1. Target' = 0 /\ 1 - Target' = 1
    BY <1>5 DEF Target
  <2>2. \A h \in Header : ~Rival(media, 0, h) /\ ~Rival(media, 1, h)
    BY <1>3, StorageConstants DEF Rival
  <2>3. Recoverable(media, 1, 0, Nothing, Suspects')
    BY <2>2 DEF Recoverable
  <2>4. 0 \in 0..GenerationMax
    BY ConstantFact
  <2> QED BY <1>4, <1>5, <2>1, <2>3, <2>4 DEF Recovery
<1> QED BY <1>4, <1>6, <1>7, <1>8, <1>9, <1>10 DEF IInv

\* mount_device_with keeps the invariant.
LEMMA BootKeeps ==
  ASSUME IInv, UNCHANGED faulty,
         NEW type \in {"writable", "readonly"}, NEW readable \in ReadOutcomes,
         NEW applied \in ApplyOutcomes, Boot(type, readable, applied)
  PROVE  IInv'
<1> DEFINE selected == Newest(readable)
<1>1. phase = "off"
  BY DEF Boot
<1>2. CASE /\ selected # NoSlot /\ applied
           /\ fs' = [partition |-> type, active_slot |-> selected,
                     generation |-> Generation(selected), quarantine |-> "none"]
           /\ ReadThrough(selected)
           /\ phase' = "running"
           /\ vfs' = device[<<selected, 0>>].of
           /\ acknowledged' = vfs' /\ unsettled' = {}
           /\ UNCHANGED <<media, device, step, buffer>>
  BY <1>1, <1>2, MountKeeps
<1>3. CASE MountUnavailable
  BY <1>1, <1>3, UnavailableKeeps
<1>4. CASE /\ type = "writable" /\ Creatable(readable)
           /\ fs' = [Unavailable EXCEPT !.partition = type]
           /\ ReadThrough(1) /\ StartCommit(Seed)
           /\ UNCHANGED <<media, device, vfs, acknowledged>>
  BY <1>1, <1>4, CreateKeeps DEF Creatable
<1> QED BY <1>2, <1>3, <1>4 DEF Boot

-----------------------------------------------------------------------------
(* The invariants of the volume.                                           *)

\* A blank device that was never mounted satisfies the invariant.
LEMMA InitHolds == StorageInit => IInv
<1> SUFFICES ASSUME StorageInit PROVE IInv
  OBVIOUS
<1>1. /\ device = [l \in Lba |-> Zero] /\ media = [l \in Lba |-> {Zero}] /\ fs = Unavailable
      /\ cache = [l \in Lba |-> NotCached] /\ recency = << >>
      /\ phase = "off" /\ step = 0 /\ buffer = Seed
      /\ vfs = Nothing /\ acknowledged = Nothing /\ unsettled = {} /\ faulty \in BOOLEAN
  BY StorageConstants DEF StorageInit
<1>2. Cached = {} /\ Dirty = {} /\ Len(recency) = 0
  BY <1>1 DEF Cached, Dirty
<1>3. Distinct(recency) /\ \A l \in Lba : ~Occurs(recency, l)
  BY <1>2 DEF Distinct, Occurs
<1>4. CacheOrder /\ Coherent
  BY <1>2, <1>3, ConstantFact DEF CacheOrder, Coherent
<1>5. Types
  BY <1>1, UnavailableFact, StepFact, StorageConstants DEF Types, Sector
<1>6. \A l \in Lba : media[l] = {device[l]} /\ media[l] = {Zero}
  BY <1>1
<1>7. Progress /\ Quiet /\ MayHoldDevice /\ Intact /\ NeverBlank
  BY <1>1, <1>2, <1>6, UnavailableFact DEF Progress, Quiet, MayHoldDevice, Intact, NeverBlank, CreatesOnlyFresh
<1>8. Recovery
  <2>1. \A s \in {0, 1}, h \in Header : ~Rival(media, s, h)
    BY <1>6, LbaFact, StepFact, StorageConstants DEF Rival
  <2>2. Recoverable(media, 0, 0, acknowledged, Suspects)
    <3>1. 1 - 0 \in {0, 1}
      OBVIOUS
    <3>2. \A h \in Header : ~Rival(media, 0, h) /\ ~Rival(media, 1 - 0, h)
      BY <2>1, <3>1
    <3> QED BY <1>1, <3>2, Zenon DEF Recoverable
  <2>3. ~Engaged /\ 0 \in 0..GenerationMax
    BY <1>1, UnavailableFact, ConstantFact DEF Engaged
  <2> QED BY <2>2, <2>3 DEF Recovery
<1> QED BY <1>4, <1>5, <1>7, <1>8 DEF IInv

\* Every step keeps the invariant.
LEMMA StepKeeps == IInv /\ [StorageNext]_storageVars => IInv'
<1> SUFFICES ASSUME IInv, [StorageNext]_storageVars
             PROVE  IInv'
  OBVIOUS
<1>1. CASE StorageNext
  BY <1>1, MutateKeeps, WriteStepKeeps, WritebackStepKeeps, FlushStepKeeps, BootKeeps, PowerFailsKeeps
     DEF StorageNext, StorageStep
<1>2. CASE UNCHANGED storageVars
  <2>1. /\ media' = media /\ device' = device /\ cache' = cache /\ recency' = recency /\ fs' = fs
        /\ phase' = phase /\ step' = step /\ buffer' = buffer /\ vfs' = vfs
        /\ acknowledged' = acknowledged /\ unsettled' = unsettled /\ faulty' = faulty
    BY <1>2 DEF storageVars
  <2>2. Types' /\ CacheOrder' /\ Coherent'
    BY <2>1 DEF IInv, Types, CacheOrder, Coherent, Cached, Dirty
  <2>3. /\ Target' = Target /\ Dirty' = Dirty /\ MayBeDirty' = MayBeDirty /\ (ReadOnly' <=> ReadOnly)
        /\ Suspects' = Suspects /\ (Engaged' <=> Engaged)
    <3>1. Target' = Target /\ Dirty' = Dirty
      BY <2>1 DEF Target, Dirty, Cached
    <3>2. MayBeDirty' = MayBeDirty
      BY <2>1, <3>1 DEF MayBeDirty
    <3>3. (ReadOnly' <=> ReadOnly) /\ (Engaged' <=> Engaged) /\ Suspects' = Suspects
      BY <2>1 DEF ReadOnly, Engaged, Suspects, Publishing
    <3> QED BY <3>1, <3>2, <3>3
  <2>4. Progress'
    BY <2>1, <2>3 DEF IInv, Progress, Logical
  <2>5. Quiet' /\ MayHoldDevice' /\ Intact' /\ NeverBlank' /\ Recovery'
    BY <2>1, <2>3, Zenon DEF IInv, Quiet, MayHoldDevice, Intact, NeverBlank, CreatesOnlyFresh, Recovery
  <2> QED BY <2>2, <2>4, <2>5 DEF IInv
<1> QED BY <1>1, <1>2

\* The invariant holds in every state of the volume.
THEOREM VolumeInvariant == StorageSpec => []IInv
BY InitHolds, StepKeeps, PTL DEF StorageSpec

\* For any number of sectors, cache entries and generations, commit_with never
\* puts the slot that the mounted volume relies on at risk: whatever command
\* fails and whenever power is lost, stable media hold the acknowledged
\* snapshot in it.
THEOREM ActiveSlotStaysIntact == StorageSpec => []ActiveSlotIntact
<1>1. IInv => ActiveSlotIntact
  BY DEF IInv, Intact, Holds, HeaderOf, ActiveSlotIntact
<1> QED BY <1>1, VolumeInvariant, PTL

\* A sequence without repetition has as many elements as its length.
LEMMA DistinctCount ==
  ASSUME NEW S, NEW s \in Seq(S), NEW T, Distinct(s), T = {s[i] : i \in 1..Len(s)}
  PROVE  IsFiniteSet(T) /\ Cardinality(T) = Len(s)
<1>1. Len(s) \in Nat /\ DOMAIN s = 1..Len(s) /\ s \in [1..Len(s) -> S]
  OBVIOUS
<1>2. s \in Bijection(1..Len(s), T)
  BY <1>1 DEF Bijection, Injection, Surjection, IsInjective, Distinct
<1>3. ExistsBijection(1..Len(s), T)
  BY <1>2 DEF ExistsBijection
<1>4. IsFiniteSet(1..Len(s)) /\ Cardinality(1..Len(s)) = Len(s)
  BY <1>1, FS_Interval
<1> QED BY <1>3, <1>4, FS_Bijection

\* The cache holds as many sectors as the recency order lists.
LEMMA CachedCount ==
  ASSUME Types, CacheOrder
  PROVE  /\ IsFiniteSet(Cached) /\ Cardinality(Cached) = Len(recency)
         /\ Len(recency) \in Nat /\ {recency[i] : i \in DOMAIN recency} = Cached
<1>1. Len(recency) \in Nat /\ DOMAIN recency = 1..Len(recency)
      /\ \A i \in 1..Len(recency) : recency[i] \in Lba
  BY DEF Types
<1>2. Cached = {recency[i] : i \in 1..Len(recency)}
  BY <1>1 DEF CacheOrder, Cached, Occurs
<1>3. {recency[i] : i \in DOMAIN recency} = Cached
  BY <1>1, <1>2 
<1>4. recency \in Seq(Lba) /\ Distinct(recency)
  BY DEF Types, CacheOrder
<1> QED BY <1>1, <1>2, <1>3, <1>4, DistinctCount

\* The block cache stays within its entries, its recency order lists exactly
\* the cached sectors, a clean entry is what the device holds, and a
\* quarantined volume has nothing left to write back.
THEOREM CacheStaysCoherent == StorageSpec => []CacheCoherent
<1>1. ASSUME IInv PROVE CacheCoherent
  <2>1. Types /\ CacheOrder /\ Coherent /\ Quiet
    BY <1>1 DEF IInv
  <2>2. Cardinality(Cached) = Len(recency) /\ {recency[i] : i \in DOMAIN recency} = Cached
    BY <2>1, CachedCount
  <2>3. \A l \in Cached \ Dirty : cache[l].data = device[l]
    BY <2>1 DEF Coherent, Cached
  <2>4. Cardinality(Cached) <= CacheEntries
    BY <2>1, <2>2 DEF CacheOrder
  <2>5. fs.quarantine # "none" => phase = "running" /\ Dirty = {}
    BY <2>1 DEF Quiet
  <2> QED BY <2>2, <2>3, <2>4, <2>5 DEF CacheCoherent
<1> QED BY <1>1, VolumeInvariant, PTL

\* A volume is created only where nothing was ever acknowledged: the slots
\* mount_device_with finds blank never held an acknowledged snapshot.
THEOREM CreationIsFresh == StorageSpec => []CreatesOnlyFresh
<1>1. IInv => CreatesOnlyFresh
  BY DEF IInv, NeverBlank
<1> QED BY <1>1, VolumeInvariant, PTL

-----------------------------------------------------------------------------
(* The volume implements the abstract store.                               *)

\* A failing command is an abort of the abstract store.
LEMMA FailureRefines ==
  ASSUME IInv, ~faulty, phase = "commit", CommitFails, UNCHANGED faulty
  PROVE  Store!Abort
<1>1. /\ phase' = "running" /\ vfs' = vfs /\ acknowledged' = acknowledged
      /\ unsettled' \in {{}, unsettled}
  BY DEF CommitFails, Quarantine
<1>2. ReadOnly'
  <2>1. fs \in FsType
    BY DEF IInv, Types
  <2>2. fs'.quarantine # "none"
    BY <2>1 DEF CommitFails, Quarantine, FsType
  <2> QED BY <2>2 DEF ReadOnly
<1> QED BY <1>1, <1>2 DEF Store!Abort

\* A commit step that ends nothing is invisible.
LEMMA GoingOnRefines ==
  ASSUME phase = "commit", UNCHANGED <<phase, vfs, acknowledged, unsettled, faulty>>
  PROVE  UNCHANGED Store!storeVars
BY DEF Store!storeVars

\* The last flush acknowledges the mutation.
LEMMA LastFlushRefines ==
  ASSUME IInv, ~faulty, UNCHANGED faulty, phase = "commit", phase' = "running",
         fs' = [fs EXCEPT !.active_slot = Target, !.generation = fs.generation + 1],
         vfs' = buffer, acknowledged' = buffer, unsettled' = {}
  PROVE  Store!Acknowledge
<1>1. fs \in FsType /\ fs.partition = "writable" /\ fs.quarantine = "none" /\ unsettled = {buffer}
  BY DEF IInv, Types, Progress
<1>2. fs'.partition = "writable" /\ fs'.quarantine = "none"
  BY <1>1 DEF FsType
<1>3. ~ReadOnly'
  BY <1>2 DEF ReadOnly
<1> QED BY <1>1, <1>3 DEF Store!Acknowledge

\* mount_device_with on a device that reads every sector is a mount, a creation
\* or, if nothing was ever acknowledged, a boot without volume.
LEMMA BootRefines ==
  ASSUME IInv, ~faulty, UNCHANGED faulty,
         NEW type \in {"writable", "readonly"}, NEW readable \in ReadOutcomes,
         NEW applied \in ApplyOutcomes, Boot(type, readable, applied)
  PROVE  Store!Mount \/ Store!Create \/ Store!MountNothing
<1> DEFINE selected == Newest(readable)
<1>1. phase = "off" /\ readable = {0, 1} /\ applied
  BY DEF Boot, ReadOutcomes, ApplyOutcomes
<1>2. CASE /\ selected # NoSlot
           /\ phase' = "running" /\ vfs' = device[<<selected, 0>>].of
           /\ acknowledged' = vfs' /\ unsettled' = {}
  <2>1. vfs' \in {acknowledged} \cup unsettled
    BY <1>1, <1>2, MountFinds
  <2>2. vfs' # Nothing
    <3>1. selected \in {0, 1} /\ Valid(selected)
      BY <1>1, <1>2, NewestFact
    <3>2. device[<<selected, 0>>].of \in Snapshots
      BY <1>1, <3>1, ValidIsRival
    <3> QED BY <1>2, <3>2, ConstantFact
  <2> QED BY <1>1, <1>2, <2>1, <2>2 DEF Store!Mount
<1>3. CASE selected = NoSlot /\ MountUnavailable
  <2>1. acknowledged = Nothing
    BY <1>1, <1>3, MountFinds, Zenon
  <2>2. phase' = "running" /\ vfs' = Nothing /\ acknowledged' = acknowledged /\ unsettled' = unsettled
        /\ fs' = Unavailable
    BY <1>3 DEF MountUnavailable
  <2>3. ReadOnly'
    BY <2>2, UnavailableFact DEF ReadOnly
  <2> QED BY <1>1, <2>1, <2>2, <2>3 DEF Store!MountNothing
<1>4. CASE /\ selected = NoSlot /\ StartCommit(Seed) /\ UNCHANGED <<vfs, acknowledged>>
  <2>1. acknowledged = Nothing
    BY <1>1, <1>4, MountFinds, Zenon
  <2>2. phase' = "commit" /\ unsettled' = {Seed}
    BY <1>4 DEF StartCommit
  <2> QED BY <1>1, <1>4, <2>1, <2>2 DEF Store!Create
<1> QED BY <1>1, <1>2, <1>3, <1>4 DEF Boot

\* Every step of the volume is a step of the abstract store or invisible to it.
LEMMA StepRefines ==
  ASSUME IInv, [StorageNext]_storageVars
  PROVE  [Store!StoreNext]_(Store!storeVars)
<1>1. CASE UNCHANGED storageVars
  <2>1. /\ fs' = fs /\ phase' = phase /\ vfs' = vfs /\ acknowledged' = acknowledged
        /\ unsettled' = unsettled /\ faulty' = faulty
    BY <1>1 DEF storageVars
  <2> QED BY <2>1 DEF Store!storeVars, ReadOnly
<1>2. CASE StorageNext /\ faulty
  <2>1. faulty' = faulty
    BY <1>2 DEF StorageNext
  <2> QED BY <1>2, <2>1 DEF Store!storeVars
<1>3. CASE StorageNext /\ ~faulty
  <2>1. faulty' = faulty /\ StorageStep
    BY <1>3 DEF StorageNext
  <2>2. ASSUME NEW v \in Snapshots, Mutate(v)
        PROVE  Store!Begin(v)
    BY <1>3, <2>1, <2>2 DEF Mutate, StartCommit, Store!Begin
  <2>3. CASE WriteStep
    <3>1. phase = "commit"
      BY <2>3 DEF WriteStep
    <3>2. \/ UNCHANGED <<fs, phase, buffer, vfs, acknowledged, unsettled>>
          \/ CommitFails
      BY <2>3 DEF WriteStep
    <3> QED BY <1>3, <2>1, <3>1, <3>2, FailureRefines, GoingOnRefines DEF Store!StoreNext
  <2>4. CASE WritebackStep
    <3>1. phase = "commit"
      BY <2>4 DEF WritebackStep
    <3>2. \/ UNCHANGED <<fs, phase, buffer, vfs, acknowledged, unsettled>>
          \/ CommitFails
      BY <2>4 DEF WritebackStep
    <3> QED BY <1>3, <2>1, <3>1, <3>2, FailureRefines, GoingOnRefines DEF Store!StoreNext
  <2>5. CASE FlushStep
    <3>1. phase = "commit"
      BY <2>5 DEF FlushStep
    <3>2. \/ UNCHANGED <<fs, phase, vfs, acknowledged, unsettled>>
          \/ CommitFails
          \/ /\ fs' = [fs EXCEPT !.active_slot = Target, !.generation = fs.generation + 1]
             /\ phase' = "running"
             /\ vfs' = buffer /\ acknowledged' = buffer /\ unsettled' = {}
      BY <2>5 DEF FlushStep
    <3> QED BY <1>3, <2>1, <3>1, <3>2, FailureRefines, GoingOnRefines, LastFlushRefines DEF Store!StoreNext
  <2>6. CASE PowerFails
    BY <1>3, <2>1, <2>6 DEF PowerFails, Store!PowerLoss, Store!StoreNext
  <2>7. ASSUME NEW type \in {"writable", "readonly"}, NEW readable \in ReadOutcomes,
               NEW applied \in ApplyOutcomes, Boot(type, readable, applied)
        PROVE  Store!StoreNext
    BY <1>3, <2>1, <2>7, BootRefines DEF Store!StoreNext
  <2> QED BY <2>1, <2>2, <2>3, <2>4, <2>5, <2>6, <2>7 DEF StorageStep, Store!StoreNext
<1> QED BY <1>1, <1>2, <1>3

\* The volume implements the abstract store of docs/STORAGE.md on devices that
\* read every sector at mount: a mutation is published as a whole or not at
\* all, an acknowledged one survives every crash and every failed command, and
\* only a failure during publication leaves the outcome open.
THEOREM VolumeImplementsStore == StorageSpec => ImplementsStore
<1>1. StorageInit => Store!StoreInit
  BY DEF StorageInit, Store!StoreInit
<1>2. IInv /\ [StorageNext]_storageVars => [Store!StoreNext]_(Store!storeVars)
  BY StepRefines
<1> QED BY <1>1, <1>2, VolumeInvariant, PTL DEF StorageSpec, ImplementsStore, Store!StoreSpec

\* A mount by mount_device_with that can read both slots finds the acknowledged
\* snapshot or a later one whose publication was not settled: that a mount
\* falls back behind an acknowledged snapshot takes a slot that cannot be read.
THEOREM ReadableMountFindsCommitted == StorageSpec /\ []~faulty => MountFindsCommitted
<1> DEFINE found == phase = "off" /\ phase' = "running" /\ fs'.active_slot # NoSlot =>
                      vfs' \in {acknowledged} \cup unsettled
<1>1. ASSUME IInv, ~faulty, [StorageNext]_storageVars
      PROVE  [found]_storageVars
  <2> SUFFICES ASSUME StorageNext, phase = "off", phase' = "running", fs'.active_slot # NoSlot
               PROVE  vfs' \in {acknowledged} \cup unsettled
    BY <1>1
  <2>1. PICK type \in {"writable", "readonly"}, readable \in ReadOutcomes, applied \in ApplyOutcomes :
          Boot(type, readable, applied)
    BY DEF StorageNext, StorageStep, Mutate, WriteStep, WritebackStep, FlushStep, PowerFails
  <2>2. readable = {0, 1}
    BY <1>1 DEF ReadOutcomes
  <2>3. ~MountUnavailable
    BY UnavailableFact DEF MountUnavailable
  <2>4. Newest(readable) # NoSlot /\ vfs' = device[<<Newest(readable), 0>>].of
    BY <2>1, <2>3 DEF Boot, StartCommit
  <2> QED BY <1>1, <2>2, <2>4, MountFinds
<1> QED BY <1>1, VolumeInvariant, PTL DEF StorageSpec, MountFindsCommitted
=============================================================================
