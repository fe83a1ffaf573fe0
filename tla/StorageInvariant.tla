-------------------------- MODULE StorageInvariant --------------------------
(***************************************************************************)
(* The inductive invariant of Storage, and what its proofs need to know of *)
(* the operators of the model: the write-back cache, and what commands do  *)
(* to stable media.  The commands of a commit, its start and power loss    *)
(* keep the invariant.                                                     *)
(***************************************************************************)
EXTENDS Storage, Integers, TLAPS

-----------------------------------------------------------------------------
(* The inductive invariant.                                                *)

FsType ==
  [partition : {"none", "writable", "readonly"}, active_slot : {0, 1, NoSlot},
   generation : 0..GenerationMax, quarantine : {"none", "NotPublished", "Unknown"}]

Types ==
  /\ media \in [Lba -> SUBSET Sector]
  /\ device \in [Lba -> Sector]
  /\ cache \in [Lba -> Entry \cup {NotCached}]
  /\ recency \in Seq(Lba)
  /\ fs \in FsType
  /\ phase \in {"off", "running", "commit"}
  /\ step \in 0..LastFlush
  /\ buffer \in Snapshots
  /\ vfs \in Snapshots \cup {Nothing}
  /\ acknowledged \in Snapshots \cup {Nothing}
  /\ unsettled \in SUBSET Snapshots
  /\ faulty \in BOOLEAN

Distinct(s) == \A i, j \in 1..Len(s) : s[i] = s[j] => i = j
Occurs(s, x) == \E i \in 1..Len(s) : s[i] = x

\* The recency order lists the cached sectors, each once.
CacheOrder ==
  /\ Distinct(recency)
  /\ \A l \in Lba : l \in Cached <=> Occurs(recency, l)
  /\ Len(recency) <= CacheEntries

Coherent == \A l \in Lba : l \in Cached /\ l \notin Dirty => cache[l].data = device[l]

\* What a read through the cache returns.
Logical(l) == IF cache[l] = NotCached THEN device[l] ELSE cache[l].data

HeaderOf(mark, generation, v) == [mark |-> mark, generation |-> generation, of |-> v]

\* The sectors that may be dirty at a step of the commit.
MayBeDirty ==
  IF step \in {InvalidateStep, PublishStep} THEN {}
  ELSE IF step \in {FirstFlush, LastFlush} THEN {<<Target, 0>>}
  ELSE {Target} \X PayloadIndex

\* How far a commit has come: what the target slot holds logically, what of it
\* is not written back, and that no committed header can be found there between
\* the first flush and the publication.
Progress ==
  phase = "commit" =>
    LET open == HeaderOf("open", fs.generation + 1, buffer)
        committed == HeaderOf("committed", fs.generation + 1, buffer)
    IN
    /\ fs.partition = "writable" /\ fs.quarantine = "none" /\ fs.generation < GenerationMax
    /\ step \in 1..LastFlush /\ unsettled = {buffer}
    /\ step \in 2..PublishStep => Logical(<<Target, 0>>) = open
    /\ step = LastFlush => Logical(<<Target, 0>>) = committed
    /\ \A k \in PayloadIndex : step > FirstFlush + k => Logical(<<Target, k>>) = buffer[k]
    /\ Dirty \subseteq MayBeDirty
    /\ step \in 3..PublishStep => media[<<Target, 0>>] = {open}
    /\ step = LastFlush => media[<<Target, 0>>] \subseteq {open, committed, Garbage}

\* What holds of the volume between commits.
Quiet ==
  /\ phase # "commit" => Dirty = {}
  /\ phase = "off" => fs = Unavailable /\ \A l \in Lba : media[l] = {device[l]}
  /\ phase = "running" /\ ~ReadOnly => fs.active_slot # NoSlot /\ unsettled = {}
  /\ fs.quarantine # "none" => phase = "running"

MayHoldDevice == \A l \in Lba : device[l] \in media[l]

\* Stable media m hold snapshot v of the given generation in a slot, for sure.
Holds(m, slot, generation, v) ==
  /\ m[<<slot, 0>>] = {HeaderOf("committed", generation, v)}
  /\ \A k \in PayloadIndex : m[<<slot, k>>] = {v[k]}

Intact ==
  fs.active_slot # NoSlot =>
    /\ acknowledged # Nothing /\ fs.generation # 0
    /\ Holds(media, fs.active_slot, fs.generation, acknowledged)

\* Something is left of an acknowledged snapshot, whatever power loss leaves.
NeverBlank ==
  /\ acknowledged # Nothing => \E s \in {0, 1} : Zero \notin media[<<s, 0>>]
  /\ CreatesOnlyFresh

\* Power loss may leave the valid snapshot of header h in a slot.
Rival(m, slot, h) ==
  /\ h \in m[<<slot, 0>>] /\ h.mark = "committed"
  /\ \A k \in PayloadIndex : h.of[k] \in m[<<slot, k>>]

\* Slot a holds what was acknowledged, or nothing if nothing was; the other slot
\* can only come up with something older, or with a suspect of the next
\* generation.
Recoverable(m, a, g, v, suspects) ==
  /\ IF v = Nothing THEN g = 0 /\ \A h \in Header : ~Rival(m, a, h)
     ELSE g # 0 /\ Holds(m, a, g, v)
  /\ \A h \in Header : Rival(m, 1 - a, h) =>
        h.generation < g \/ (h.generation = g + 1 /\ h.of \in suspects)

\* A commit that has not reached its publication is not found after power loss.
Suspects == IF phase = "commit" /\ ~Publishing THEN {} ELSE unsettled

Engaged == phase = "commit" \/ fs.active_slot # NoSlot

Recovery ==
  ~faulty => \E a \in {0, 1}, g \in 0..GenerationMax :
    /\ Recoverable(media, a, g, acknowledged, Suspects)
    /\ Engaged => a = 1 - Target /\ g = fs.generation

IInv ==
  /\ Types /\ CacheOrder /\ Coherent /\ Progress /\ Quiet /\ MayHoldDevice
  /\ Intact /\ NeverBlank /\ Recovery
-----------------------------------------------------------------------------
(* Facts about the operators.                                              *)

\* A sector address is a slot and an index in it.
LEMMA LbaFact ==
  /\ \A s \in {0, 1}, k \in 0..PayloadSectors : <<s, k>> \in Lba
  /\ \A l \in Lba : l[1] \in {0, 1} /\ l[2] \in 0..PayloadSectors /\ l = <<l[1], l[2]>>
BY DEF Lba

\* commit_with writes the slot that is not active.
LEMMA TargetFact ==
  ASSUME fs \in FsType
  PROVE  /\ Target \in {0, 1} /\ 1 - Target \in {0, 1} /\ 1 - (1 - Target) = Target
         /\ fs.active_slot # NoSlot => fs.active_slot = 1 - Target
         /\ fs.active_slot = NoSlot => Target = 0
BY StorageConstants DEF Target, FsType

\* A header is a sector of its own kind.
LEMMA HeaderFact ==
  ASSUME NEW mark \in {"open", "committed"}, NEW g \in 1..GenerationMax, NEW v \in Snapshots
  PROVE  /\ HeaderOf(mark, g, v) \in Header
         /\ HeaderOf(mark, g, v) \in Sector
         /\ HeaderOf(mark, g, v) # Zero
         /\ HeaderOf(mark, g, v).mark = mark
         /\ HeaderOf(mark, g, v).generation = g
         /\ HeaderOf(mark, g, v).of = v
<1>1. HeaderOf(mark, g, v) \in Header
  BY DEF HeaderOf, Header
<1>2. HeaderOf(mark, g, v) # Zero
  BY <1>1, StorageConstants
<1> QED BY <1>1, <1>2 DEF HeaderOf, Sector

\* A cache entry is not the mark of an empty place.
LEMMA EntryFact ==
  ASSUME NEW d \in Sector, NEW b \in BOOLEAN
  PROVE  /\ [data |-> d, dirty |-> b] \in Entry
         /\ [data |-> d, dirty |-> b] # NotCached
<1>1. [data |-> d, dirty |-> b] \in Entry
  BY DEF Entry
<1> QED BY <1>1, NotCachedIsNoEntry

\* The constants that are compared.
LEMMA ConstantFact ==
  /\ GenerationMax \in Nat \ {0} /\ CacheEntries \in 1..(PayloadSectors + 1)
  /\ Nothing \notin Snapshots /\ NoSlot # 0 /\ NoSlot # 1
BY StorageConstants

\* The steps of a commit are numbered in order.
LEMMA StepFact ==
  /\ PayloadSectors \in Nat \ {0}
  /\ InvalidateStep = 1 /\ FirstFlush = 2 /\ PayloadFlush = PayloadSectors + 3
  /\ PublishStep = PayloadSectors + 4 /\ LastFlush = PayloadSectors + 5
BY StorageConstants DEF InvalidateStep, FirstFlush, PayloadFlush, PublishStep, LastFlush

\* Without leaves the other elements in their order.
LEMMA WithoutFact ==
  ASSUME NEW S, NEW s \in Seq(S), NEW i \in 1..Len(s)
  PROVE  /\ Without(s, i) \in Seq(S)
         /\ Len(Without(s, i)) = Len(s) - 1
         /\ \A j \in 1..(Len(s) - 1) : Without(s, i)[j] = IF j < i THEN s[j] ELSE s[j + 1]
<1>1. Len(s) \in Nat /\ \A j \in 1..Len(s) : s[j] \in S
  OBVIOUS
<1>2. \A j \in 1..(Len(s) - 1) : (IF j < i THEN s[j] ELSE s[j + 1]) \in S
  BY <1>1
<1> QED BY <1>1, <1>2 DEF Without

\* Without of a sequence without repetition has the other elements.
LEMMA WithoutElements ==
  ASSUME NEW S, NEW s \in Seq(S), NEW i \in 1..Len(s), Distinct(s)
  PROVE  /\ Distinct(Without(s, i))
         /\ \A x : Occurs(Without(s, i), x) <=> Occurs(s, x) /\ x # s[i]
<1> DEFINE r == Without(s, i)
<1>1. Len(s) \in Nat
  OBVIOUS
<1>2. Len(r) = Len(s) - 1 /\ \A j \in 1..(Len(s) - 1) : r[j] = IF j < i THEN s[j] ELSE s[j + 1]
  BY WithoutFact
<1> HIDE DEF r
<1>3. Distinct(r)
  BY <1>1, <1>2 DEF Distinct
<1>4. ASSUME NEW x, Occurs(r, x)
      PROVE  Occurs(s, x) /\ x # s[i]
  <2>1. PICK j \in 1..(Len(s) - 1) : r[j] = x
    BY <1>2, <1>4 DEF Occurs
  <2>2. PICK k \in 1..Len(s) : k # i /\ s[k] = x
    <3>1. CASE j < i
      BY <3>1, <2>1, <1>1, <1>2
    <3>2. CASE ~(j < i)
      <4>1. j + 1 \in 1..Len(s) /\ j + 1 # i /\ s[j + 1] = x
        BY <3>2, <2>1, <1>1, <1>2
      <4> QED BY <4>1
    <3> QED BY <3>1, <3>2
  <2> QED BY <2>2 DEF Occurs, Distinct
<1>5. ASSUME NEW x, Occurs(s, x), x # s[i]
      PROVE  Occurs(r, x)
  <2>1. PICK j \in 1..Len(s) : s[j] = x
    BY <1>5 DEF Occurs
  <2>2. j # i
    BY <2>1, <1>5
  <2>3. CASE j < i
    <3>1. j \in 1..(Len(s) - 1) /\ r[j] = x
      BY <2>1, <2>3, <1>1, <1>2
    <3> QED BY <3>1, <1>2 DEF Occurs
  <2>4. CASE ~(j < i)
    <3>1. j - 1 \in 1..(Len(s) - 1) /\ ~(j - 1 < i) /\ (j - 1) + 1 = j
      BY <2>2, <2>4, <1>1
    <3>2. r[j - 1] = x
      BY <3>1, <2>1, <1>2
    <3> QED BY <3>1, <3>2, <1>2 DEF Occurs
  <2> QED BY <2>3, <2>4
<1> QED BY <1>3, <1>4, <1>5 DEF r

\* Append adds its element at the end.
LEMMA AppendElements ==
  ASSUME NEW S, NEW s \in Seq(S), NEW e \in S, Distinct(s), ~Occurs(s, e)
  PROVE  /\ Append(s, e) \in Seq(S) /\ Len(Append(s, e)) = Len(s) + 1
         /\ Distinct(Append(s, e))
         /\ \A x : Occurs(Append(s, e), x) <=> Occurs(s, x) \/ x = e
<1> DEFINE r == Append(s, e)
<1>1. /\ Len(s) \in Nat /\ r \in Seq(S) /\ Len(r) = Len(s) + 1
      /\ \A i \in 1..Len(s) : r[i] = s[i]
      /\ r[Len(s) + 1] = e
  OBVIOUS
<1> HIDE DEF r
<1>2. \A i \in 1..Len(r) : i \in 1..Len(s) \/ i = Len(s) + 1
  BY <1>1
<1>3. Distinct(r)
  BY <1>1, <1>2 DEF Distinct, Occurs
<1>4. ASSUME NEW x, Occurs(s, x) \/ x = e
      PROVE  Occurs(r, x)
  <2>1. CASE Occurs(s, x)
    BY <2>1, <1>1 DEF Occurs
  <2>2. CASE x = e
    <3>1. Len(s) + 1 \in 1..Len(r)
      BY <1>1
    <3> QED BY <2>2, <3>1, <1>1 DEF Occurs
  <2> QED BY <1>4, <2>1, <2>2
<1>5. ASSUME NEW x, Occurs(r, x)
      PROVE  Occurs(s, x) \/ x = e
  BY <1>1, <1>2, <1>5 DEF Occurs
<1> QED BY <1>1, <1>3, <1>4, <1>5 DEF r

\* BlockCache::write displaces the least recently used sector, if any.
LEMMA VictimFact ==
  ASSUME Types, CacheOrder
  PROVE  \/ Victim = {} /\ (StepLba \in Cached \/ Len(recency) < CacheEntries)
         \/ /\ Len(recency) \in Nat \ {0} /\ Victim = {recency[1]}
            /\ StepLba \notin Cached /\ recency[1] \in Cached
<1>1. Len(recency) \in Nat
  BY DEF Types
<1>2. CASE StepLba \in Cached \/ Len(recency) < CacheEntries
  BY <1>1, <1>2 DEF Victim
<1>3. CASE ~(StepLba \in Cached \/ Len(recency) < CacheEntries)
  <2>1. Len(recency) \in Nat \ {0}
    BY <1>1, <1>3, ConstantFact
  <2>2. recency[1] \in Lba
    BY <2>1 DEF Types
  <2>3. recency[1] \in Cached
    BY <2>1, <2>2 DEF CacheOrder, Occurs
  <2>4. Victim = {recency[1]}
    BY <1>3 DEF Victim
  <2> QED BY <1>3, <2>1, <2>3, <2>4
<1> QED BY <1>2, <1>3

\* BlockCache::write keeps the recency order a list of the cached sectors.
LEMMA CacheWriteFact ==
  ASSUME Types, CacheOrder, CacheWrite, StepLba \in Lba, StepData \in Sector
  PROVE  /\ cache' \in [Lba -> Entry \cup {NotCached}]
         /\ recency' \in Seq(Lba)
         /\ CacheOrder'
         /\ \A l \in Lba : cache'[l] = IF l = StepLba THEN [data |-> StepData, dirty |-> TRUE]
                                       ELSE IF l \in Victim THEN NotCached ELSE cache[l]
<1> DEFINE new == [data |-> StepData, dirty |-> TRUE]
           chosen == CHOOSE i \in Filled : TRUE
           kept == IF Filled = {} THEN recency ELSE Without(recency, chosen)
<1>1. new \in Entry /\ new # NotCached
  BY EntryFact, Zenon
<1> HIDE DEF new
<1>2. cache' = [l \in Lba |-> IF l = StepLba THEN new ELSE IF l \in Victim THEN NotCached ELSE cache[l]]
  BY DEF CacheWrite, new
<1>3. cache' \in [Lba -> Entry \cup {NotCached}]
  BY <1>1, <1>2 DEF Types
<1>4. /\ recency \in Seq(Lba) /\ Len(recency) \in Nat /\ DOMAIN recency = 1..Len(recency)
      /\ \A i \in 1..Len(recency) : recency[i] \in Lba
      /\ CacheEntries \in Nat \ {0}
  BY ConstantFact DEF Types
<1>5. /\ kept \in Seq(Lba) /\ Len(kept) \in Nat /\ Len(kept) < CacheEntries /\ Distinct(kept)
      /\ \A l \in Lba : Occurs(kept, l) <=> (l \in Cached /\ l # StepLba /\ l \notin Victim)
  <2>1. CASE Filled = {}
    <3>1. StepLba \notin Cached
      BY <2>1, <1>4 DEF Filled, CacheOrder, Occurs
    <3>2. Victim = {}
      BY <2>1, <1>4, VictimFact DEF Filled
    <3>3. Len(recency) < CacheEntries
      BY <3>1, <3>2, VictimFact
    <3>4. kept = recency
      BY <2>1
    <3> HIDE DEF kept
    <3> QED BY <3>1, <3>2, <3>3, <3>4, <1>4 DEF CacheOrder
  <2>2. CASE Filled # {}
    <3>1. chosen \in Filled
      BY <2>2
    <3>2. kept = Without(recency, chosen)
      BY <2>2
    <3> HIDE DEF chosen, kept
    <3>3. chosen \in 1..Len(recency) /\ recency[chosen] \in {StepLba} \cup Victim
      BY <3>1, <1>4 DEF Filled
    <3>4. recency[chosen] \in Cached
      BY <3>3, <1>4 DEF CacheOrder, Occurs
    <3>5. \A l \in Cached : l = StepLba \/ l \in Victim <=> l = recency[chosen]
      BY <3>3, <3>4, VictimFact
    <3>6. /\ Distinct(kept)
          /\ \A l : Occurs(kept, l) <=> Occurs(recency, l) /\ l # recency[chosen]
      BY <3>2, <3>3, <1>4, WithoutElements DEF CacheOrder
    <3>7. kept \in Seq(Lba) /\ Len(kept) = Len(recency) - 1
      BY <3>2, <3>3, <1>4, WithoutFact, Zenon
    <3>8. Len(kept) \in Nat /\ Len(kept) < CacheEntries
      BY <3>3, <3>7, <1>4 DEF CacheOrder
    <3> QED BY <3>5, <3>6, <3>7, <3>8 DEF CacheOrder
  <2> QED BY <2>1, <2>2
<1>6. recency' = Append(kept, StepLba)
  BY DEF CacheWrite
<1> HIDE DEF kept
<1>7. /\ recency' \in Seq(Lba) /\ Len(recency') = Len(kept) + 1 /\ Distinct(recency')
      /\ \A x : Occurs(recency', x) <=> Occurs(kept, x) \/ x = StepLba
  BY <1>5, <1>6, AppendElements
<1>8. \A l \in Lba : l \in Cached' <=> (l = StepLba \/ (l \in Cached /\ l \notin Victim))
  BY <1>1, <1>2 DEF Cached
<1>9. Len(recency') <= CacheEntries
  BY <1>4, <1>5, <1>7
<1>10. CacheOrder'
  BY <1>5, <1>7, <1>8, <1>9 DEF CacheOrder
<1> QED BY <1>2, <1>3, <1>7, <1>10, Zenon DEF new

\* A write through the cache changes what one sector holds logically, and a
\* victim that was written back leaves what it held.
LEMMA WriteContents ==
  ASSUME Types, CacheOrder, Coherent, CacheWrite, StepLba \in Lba, StepData \in Sector,
         \A l \in Lba : device'[l] = IF l \in Victim /\ l \in Dirty THEN cache[l].data ELSE device[l]
  PROVE  /\ Coherent'
         /\ \A l \in Lba : Logical(l)' = IF l = StepLba THEN StepData ELSE Logical(l)
         /\ \A l \in Lba : l \in Dirty' <=> l = StepLba \/ (l \in Dirty /\ l \notin Victim)
<1> DEFINE new == [data |-> StepData, dirty |-> TRUE]
<1>1. new # NotCached /\ new.data = StepData /\ new.dirty = TRUE
  BY EntryFact, Zenon
<1> HIDE DEF new
<1>2. \A l \in Lba : cache'[l] = IF l = StepLba THEN new ELSE IF l \in Victim THEN NotCached ELSE cache[l]
  BY CacheWriteFact DEF new
<1>3. \A l \in Lba : l \in Cached' <=> cache'[l] # NotCached
  BY DEF Cached
<1>4. \A l \in Lba : l \in Cached <=> cache[l] # NotCached
  BY DEF Cached
<1>5. \A l \in Lba : l \in Dirty' <=> cache'[l] # NotCached /\ cache'[l].dirty
  BY <1>3 DEF Dirty, Cached
<1>6. \A l \in Lba : l \in Dirty <=> cache[l] # NotCached /\ cache[l].dirty
  BY DEF Dirty, Cached
<1>7. \A l \in Lba : l \in Dirty' <=> l = StepLba \/ (l \in Dirty /\ l \notin Victim)
  BY <1>1, <1>2, <1>5, <1>6
<1>8. \A l \in Victim : l \in Cached
  BY VictimFact
<1>9. \A l \in Lba : Logical(l)' = IF l = StepLba THEN StepData ELSE Logical(l)
  <2> SUFFICES ASSUME NEW l \in Lba
               PROVE  Logical(l)' = IF l = StepLba THEN StepData ELSE Logical(l)
    OBVIOUS
  <2>1. Logical(l)' = IF cache'[l] = NotCached THEN device'[l] ELSE cache'[l].data
    BY DEF Logical
  <2>2. Logical(l) = IF cache[l] = NotCached THEN device[l] ELSE cache[l].data
    BY DEF Logical
  <2>3. CASE l = StepLba
    BY <2>1, <2>3, <1>1, <1>2
  <2>4. CASE l # StepLba /\ l \in Victim
    <3>1. cache'[l] = NotCached /\ cache[l] # NotCached
      BY <2>4, <1>2, <1>4, <1>8
    <3>2. device'[l] = cache[l].data
      BY <2>4, <1>8 DEF Coherent
    <3> QED BY <2>1, <2>2, <2>4, <3>1, <3>2
  <2>5. CASE l # StepLba /\ l \notin Victim
    BY <2>1, <2>2, <2>5, <1>2
  <2> QED BY <2>3, <2>4, <2>5
<1>10. Coherent'
  <2> SUFFICES ASSUME NEW l \in Lba, l \in Cached', l \notin Dirty'
               PROVE  cache'[l].data = device'[l]
    BY DEF Coherent
  <2>1. l # StepLba /\ l \notin Victim
    BY <1>2, <1>3, <1>7
  <2>2. cache'[l] = cache[l] /\ device'[l] = device[l] /\ l \in Cached /\ l \notin Dirty
    BY <2>1, <1>2, <1>3, <1>4, <1>7
  <2> QED BY <2>2 DEF Coherent
<1> QED BY <1>7, <1>9, <1>10

-----------------------------------------------------------------------------
(* What device commands do to stable media.                                *)

\* Losing possibilities, but never all of a sector, loses nothing for sure held.
LEMMA RecoverableShrinks ==
  ASSUME NEW m, NEW n, NEW a \in {0, 1}, NEW g, NEW v, NEW suspects,
         \A l \in Lba : n[l] \subseteq m[l] /\ n[l] # {},
         Recoverable(m, a, g, v, suspects)
  PROVE  Recoverable(n, a, g, v, suspects)
<1>1. \A s \in {0, 1}, h \in Header : Rival(n, s, h) => Rival(m, s, h)
  BY LbaFact, StorageConstants DEF Rival, PayloadIndex
<1>2. Holds(m, a, g, v) => Holds(n, a, g, v)
  BY LbaFact, StorageConstants DEF Holds, PayloadIndex
<1> QED BY <1>1, <1>2 DEF Recoverable

\* A write into the other slot harms nothing if it cannot complete a snapshot
\* there, or only a suspect.
LEMMA RecoverableWrite ==
  ASSUME NEW m \in [Lba -> SUBSET Sector], NEW a \in {0, 1}, NEW g \in Nat, NEW v, NEW suspects,
         NEW k \in 0..PayloadSectors, NEW d,
         Recoverable(m, a, g, v, suspects),
         \/ k # 0 /\ \A h \in Header : h \in m[<<1 - a, 0>>] => h.mark = "open"
         \/ k = 0 /\ (d \in Header => \/ d.mark = "open"
                                      \/ d.generation = g + 1 /\ d.of \in suspects)
  PROVE  Recoverable([m EXCEPT ![<<1 - a, k>>] = @ \cup {d, Garbage}], a, g, v, suspects)
<1> DEFINE n == [m EXCEPT ![<<1 - a, k>>] = @ \cup {d, Garbage}]
<1>1. <<1 - a, k>> \in Lba /\ 1 - a \in {0, 1} /\ 1 - a # a
  BY LbaFact
<1>2. \A j \in 0..PayloadSectors : n[<<a, j>>] = m[<<a, j>>]
  BY <1>1, LbaFact
<1>3. \A j \in 0..PayloadSectors : j # k => n[<<1 - a, j>>] = m[<<1 - a, j>>]
  BY <1>1, LbaFact
<1>4. n[<<1 - a, k>>] = m[<<1 - a, k>>] \cup {d, Garbage}
  BY <1>1
<1> HIDE DEF n
<1>5. 0 \in 0..PayloadSectors /\ \A j \in PayloadIndex : j \in 0..PayloadSectors /\ j # 0
  BY StorageConstants DEF PayloadIndex
<1>6. Holds(m, a, g, v) => Holds(n, a, g, v)
  BY <1>2, <1>5 DEF Holds
<1>7. \A h \in Header : Rival(n, a, h) => Rival(m, a, h)
  BY <1>2, <1>5 DEF Rival
<1>8. ASSUME NEW h \in Header, Rival(n, 1 - a, h)
      PROVE  h.generation < g \/ (h.generation = g + 1 /\ h.of \in suspects)
  <2>1. h \in n[<<1 - a, 0>>] /\ h.mark = "committed"
    BY <1>8 DEF Rival
  <2>2. CASE k # 0
    BY <2>1, <2>2, <1>3, <1>5
  <2>3. CASE k = 0 /\ h \in m[<<1 - a, 0>>]
    <3>1. Rival(m, 1 - a, h)
      BY <2>1, <2>3, <1>3, <1>5, <1>8 DEF Rival
    <3> QED BY <3>1 DEF Recoverable
  <2>4. CASE k = 0 /\ h \notin m[<<1 - a, 0>>]
    <3>1. h = d
      BY <2>1, <2>4, <1>4, StorageConstants
    <3> QED BY <3>1, <2>1, <2>4
  <2> QED BY <2>2, <2>3, <2>4
<1> QED BY <1>6, <1>7, <1>8, Zenon DEF Recoverable, n

-----------------------------------------------------------------------------
(* The commands of a commit.                                               *)

\* What stable media must keep during a commit.
Safe(m) ==
  /\ fs.active_slot # NoSlot => Holds(m, fs.active_slot, fs.generation, acknowledged)
  /\ ~faulty => Recoverable(m, 1 - Target, fs.generation, acknowledged, Suspects)

\* The invariant gives it.
LEMMA CommitIsSafe ==
  ASSUME IInv, phase = "commit"
  PROVE  Safe(media)
<1>1. Intact /\ Recovery
  BY DEF IInv
<1>2. fs.active_slot # NoSlot => Holds(media, fs.active_slot, fs.generation, acknowledged)
  BY <1>1 DEF Intact
<1>3. ~faulty => Recoverable(media, 1 - Target, fs.generation, acknowledged, Suspects)
  BY <1>1 DEF Recovery, Engaged
<1> QED BY <1>2, <1>3 DEF Safe

\* Safe media are not blank once something was acknowledged.
LEMMA SafeIsNotBlank ==
  ASSUME IInv, phase = "commit", acknowledged # Nothing, NEW m, Safe(m)
  PROVE  \E s \in {0, 1} : Zero \notin m[<<s, 0>>]
<1>1. Types /\ Intact /\ CreatesOnlyFresh
  BY DEF IInv, NeverBlank
<1>2. fs.active_slot # NoSlot
  BY <1>1 DEF CreatesOnlyFresh
<1>3. fs.active_slot \in {0, 1} /\ fs.generation \in 1..GenerationMax /\ acknowledged \in Snapshots
  BY <1>1, <1>2, ConstantFact DEF Types, FsType, Intact
<1>4. m[<<fs.active_slot, 0>>] = {HeaderOf("committed", fs.generation, acknowledged)}
  BY <1>2 DEF Safe, Holds
<1>5. HeaderOf("committed", fs.generation, acknowledged) # Zero
  BY <1>3, HeaderFact
<1> QED BY <1>3, <1>4, <1>5

\* A dirty sector belongs to the target slot and holds what the commit put there.
LEMMA DirtySector ==
  ASSUME IInv, phase = "commit", NEW l \in Dirty
  PROVE  /\ l \in Lba /\ cache[l].data \in Sector /\ Logical(l) = cache[l].data
         /\ \E k \in 0..PayloadSectors :
              /\ l = <<Target, k>>
              /\ \/ k = 0 /\ step \in {FirstFlush, LastFlush}
                 \/ k \in PayloadIndex /\ step \in 3..PayloadFlush
<1>1. Types /\ Progress
  BY DEF IInv
<1>2. l \in Lba /\ cache[l] # NotCached
  BY DEF Dirty, Cached
<1>3. cache[l] \in Entry
  BY <1>1, <1>2 DEF Types
<1>4. cache[l].data \in Sector /\ Logical(l) = cache[l].data
  BY <1>2, <1>3 DEF Entry, Logical
<1>5. l \in MayBeDirty /\ step \in 1..LastFlush
  BY <1>1 DEF Progress
<1>6. CASE step \in {InvalidateStep, PublishStep}
  BY <1>5, <1>6 DEF MayBeDirty
<1>7. CASE step \notin {InvalidateStep, PublishStep} /\ step \in {FirstFlush, LastFlush}
  <2>1. l = <<Target, 0>>
    BY <1>5, <1>7 DEF MayBeDirty
  <2>2. 0 \in 0..PayloadSectors
    BY StepFact
  <2> QED BY <1>2, <1>4, <1>7, <2>1, <2>2
<1>8. CASE step \notin {InvalidateStep, PublishStep} /\ step \notin {FirstFlush, LastFlush}
  <2>1. l \in {Target} \X PayloadIndex
    BY <1>5, <1>8 DEF MayBeDirty
  <2>2. PICK k \in PayloadIndex : l = <<Target, k>>
    BY <2>1
  <2>3. k \in 0..PayloadSectors /\ step \in 3..PayloadFlush
    BY <1>5, <1>8, StepFact DEF PayloadIndex
  <2> QED BY <1>2, <1>4, <2>2, <2>3
<1> QED BY <1>6, <1>7, <1>8

\* Writing back a dirty sector, or failing to, puts nothing at risk.
LEMMA WriteBackIsSafe ==
  ASSUME IInv, phase = "commit", NEW l \in Dirty, NEW left \in {device[l], cache[l].data, Garbage},
         device' = [device EXCEPT ![l] = left],
         media' = [media EXCEPT ![l] = @ \cup {cache[l].data, Garbage}]
  PROVE  /\ device' \in [Lba -> Sector] /\ media' \in [Lba -> SUBSET Sector] /\ MayHoldDevice'
         /\ Safe(media')
         /\ step \in 3..PublishStep =>
              media'[<<Target, 0>>] = {HeaderOf("open", fs.generation + 1, buffer)}
         /\ step = LastFlush =>
              media'[<<Target, 0>>] \subseteq {HeaderOf("open", fs.generation + 1, buffer),
                                              HeaderOf("committed", fs.generation + 1, buffer), Garbage}
<1> DEFINE d == cache[l].data
           open == HeaderOf("open", fs.generation + 1, buffer)
           committed == HeaderOf("committed", fs.generation + 1, buffer)
<1>1. Types /\ Progress /\ MayHoldDevice
  BY DEF IInv
<1>2. l \in Lba /\ d \in Sector /\ Logical(l) = d
  BY DirtySector
<1>3. PICK k \in 0..PayloadSectors :
        /\ l = <<Target, k>>
        /\ \/ k = 0 /\ step \in {FirstFlush, LastFlush}
           \/ k \in PayloadIndex /\ step \in 3..PayloadFlush
  BY DirtySector
<1>4. /\ fs \in FsType /\ buffer \in Snapshots /\ fs.generation \in Nat
      /\ fs.generation < GenerationMax /\ fs.generation + 1 \in 1..GenerationMax
  BY <1>1, ConstantFact DEF Types, FsType, Progress
<1>5. /\ open \in Header /\ open.mark = "open"
      /\ committed \in Header /\ committed.generation = fs.generation + 1 /\ committed.of = buffer
  BY <1>4, HeaderFact
<1>6. step = FirstFlush => Logical(<<Target, 0>>) = open
  BY <1>1, StepFact DEF Progress
<1>7. step = LastFlush => /\ Logical(<<Target, 0>>) = committed
                          /\ media[<<Target, 0>>] \subseteq {open, committed, Garbage}
  BY <1>1 DEF Progress
<1>8. step \in 3..PublishStep => media[<<Target, 0>>] = {open}
  BY <1>1 DEF Progress
<1> HIDE DEF open, committed
<1>9. device' \in [Lba -> Sector] /\ media' \in [Lba -> SUBSET Sector] /\ MayHoldDevice'
  BY <1>1, <1>2 DEF Types, MayHoldDevice, Sector
<1>10. Target \in {0, 1} /\ 1 - Target \in {0, 1} /\ 1 - (1 - Target) = Target
       /\ (fs.active_slot # NoSlot => fs.active_slot = 1 - Target)
  BY <1>4, TargetFact
<1>11. fs.active_slot # NoSlot => Holds(media', fs.active_slot, fs.generation, acknowledged)
  <2> SUFFICES ASSUME fs.active_slot # NoSlot
               PROVE  Holds(media', fs.active_slot, fs.generation, acknowledged)
    OBVIOUS
  <2>1. Holds(media, fs.active_slot, fs.generation, acknowledged)
    BY CommitIsSafe DEF Safe
  <2>2. \A j \in 0..PayloadSectors : media'[<<fs.active_slot, j>>] = media[<<fs.active_slot, j>>]
    BY <1>1, <1>2, <1>3, <1>10, LbaFact DEF Types
  <2>3. 0 \in 0..PayloadSectors /\ \A j \in PayloadIndex : j \in 0..PayloadSectors
    BY StepFact DEF PayloadIndex
  <2> QED BY <2>1, <2>2, <2>3 DEF Holds
<1>12. ~faulty => Recoverable(media', 1 - Target, fs.generation, acknowledged, Suspects)
  <2> SUFFICES ASSUME ~faulty
               PROVE  Recoverable(media', 1 - Target, fs.generation, acknowledged, Suspects)
    OBVIOUS
  <2>1. Recoverable(media, 1 - Target, fs.generation, acknowledged, Suspects)
    BY CommitIsSafe DEF Safe
  <2>2. \/ k # 0 /\ \A h \in Header : h \in media[<<Target, 0>>] => h.mark = "open"
        \/ k = 0 /\ (d \in Header => \/ d.mark = "open"
                                     \/ d.generation = fs.generation + 1 /\ d.of \in Suspects)
    <3>1. CASE k = 0 /\ step = FirstFlush
      BY <3>1, <1>2, <1>3, <1>5, <1>6
    <3>2. CASE k = 0 /\ step = LastFlush
      <4>1. Suspects = {buffer}
        BY <1>1, <3>2, StepFact DEF Suspects, Publishing, Progress
      <4> QED BY <4>1, <3>2, <1>2, <1>3, <1>5, <1>7
    <3>3. CASE k \in PayloadIndex /\ step \in 3..PayloadFlush
      <4>1. k # 0 /\ step \in 3..PublishStep
        BY <3>3, StepFact DEF PayloadIndex
      <4> QED BY <4>1, <1>5, <1>8
    <3> QED BY <1>3, <3>1, <3>2, <3>3
  <2>3. media \in [Lba -> SUBSET Sector] /\ media' = [media EXCEPT ![<<Target, k>>] = @ \cup {d, Garbage}]
    BY <1>1, <1>3 DEF Types
  <2> DEFINE a == 1 - Target
  <2>4. a \in {0, 1} /\ Target = 1 - a
    BY <1>10
  <2> HIDE DEF d, a
  <2>5. \/ k # 0 /\ \A h \in Header : h \in media[<<1 - a, 0>>] => h.mark = "open"
        \/ k = 0 /\ (d \in Header => \/ d.mark = "open"
                                     \/ d.generation = fs.generation + 1 /\ d.of \in Suspects)
    BY <2>2, <2>4
  <2>6. Recoverable(media, a, fs.generation, acknowledged, Suspects)
    BY <2>1 DEF a
  <2>7. Recoverable([media EXCEPT ![<<1 - a, k>>] = @ \cup {d, Garbage}],
                    a, fs.generation, acknowledged, Suspects)
    BY <2>3, <2>4, <2>5, <2>6, <1>4, RecoverableWrite, Zenon
  <2> QED BY <2>3, <2>4, <2>7, Zenon DEF a
<1>13. step \in 3..PublishStep => media'[<<Target, 0>>] = {open}
  <2> SUFFICES ASSUME step \in 3..PublishStep
               PROVE  media'[<<Target, 0>>] = {open}
    OBVIOUS
  <2>1. k # 0
    BY <1>3, StepFact DEF PayloadIndex
  <2>2. media'[<<Target, 0>>] = media[<<Target, 0>>]
    BY <2>1, <1>1, <1>3, <1>10, LbaFact, StepFact DEF Types
  <2> QED BY <2>2, <1>8
<1>14. step = LastFlush => media'[<<Target, 0>>] \subseteq {open, committed, Garbage}
  <2> SUFFICES ASSUME step = LastFlush
               PROVE  media'[<<Target, 0>>] \subseteq {open, committed, Garbage}
    OBVIOUS
  <2>1. k = 0 /\ l = <<Target, 0>>
    BY <1>3, StepFact
  <2>2. media'[<<Target, 0>>] = media[<<Target, 0>>] \cup {d, Garbage}
    BY <2>1, <1>1, <1>2 DEF Types
  <2> QED BY <2>1, <2>2, <1>2, <1>7
<1> QED BY <1>9, <1>11, <1>12, <1>13, <1>14 DEF Safe, open, committed

\* A command that succeeds and leaves media safe keeps the invariant.
LEMMA CommitGoesOn ==
  ASSUME IInv, phase = "commit",
         UNCHANGED <<fs, phase, buffer, vfs, acknowledged, unsettled, faulty>>,
         device' \in [Lba -> Sector], media' \in [Lba -> SUBSET Sector], MayHoldDevice',
         cache' \in [Lba -> Entry \cup {NotCached}], recency' \in Seq(Lba),
         step' \in {step, step + 1}, step' \in 1..LastFlush,
         CacheOrder', Coherent', Progress', Safe(media')
  PROVE  IInv'
<1>1. Types /\ Intact /\ NeverBlank
  BY DEF IInv
<1>2. Types'
  BY <1>1, StepFact DEF Types, FsType
<1>3. Quiet'
  <2>1. phase' = "commit" /\ fs.quarantine = "none" /\ fs'.quarantine = "none"
    BY DEF IInv, Progress
  <2> QED BY <2>1 DEF Quiet
<1>4. Intact'
  BY <1>1 DEF Intact, Safe
<1>5. NeverBlank'
  <2>1. CreatesOnlyFresh'
    BY <1>1 DEF NeverBlank, CreatesOnlyFresh
  <2>2. acknowledged # Nothing => \E s \in {0, 1} : Zero \notin media'[<<s, 0>>]
    BY SafeIsNotBlank
  <2> QED BY <2>1, <2>2 DEF NeverBlank
<1>6. Recovery'
  <2> SUFFICES ASSUME ~faulty'
               PROVE  \E a \in {0, 1}, g \in 0..GenerationMax :
                        /\ Recoverable(media', a, g, acknowledged', Suspects')
                        /\ Engaged' => a = 1 - Target' /\ g = fs'.generation
    BY DEF Recovery
  <2>1. Recoverable(media', 1 - Target, fs.generation, acknowledged, Suspects)
    BY DEF Safe
  <2>2. Suspects \subseteq Suspects'
    BY <1>1, StepFact DEF Suspects, Publishing, Types
  <2>3. Recoverable(media', 1 - Target, fs.generation, acknowledged, Suspects')
    BY <2>1, <2>2 DEF Recoverable
  <2>4. 1 - Target \in {0, 1} /\ fs.generation \in 0..GenerationMax
    BY <1>1, TargetFact DEF Types, FsType
  <2>5. Target' = Target
    BY DEF Target
  <2> QED BY <2>3, <2>4, <2>5
<1> QED BY <1>2, <1>3, <1>4, <1>5, <1>6 DEF IInv

\* commit_with fails: the cache is discarded and the volume quarantined.
LEMMA FailureKeeps ==
  ASSUME IInv, phase = "commit", CommitFails, UNCHANGED faulty,
         device' \in [Lba -> Sector], media' \in [Lba -> SUBSET Sector], MayHoldDevice',
         Safe(media')
  PROVE  IInv'
<1> DEFINE q == IF Publishing THEN "Unknown" ELSE "NotPublished"
<1>1. Types /\ Progress /\ Intact /\ NeverBlank
  BY DEF IInv
<1>2. /\ fs' = [fs EXCEPT !.quarantine = q] /\ phase' = "running"
      /\ unsettled' = (IF Publishing THEN unsettled ELSE {})
      /\ step' = step /\ buffer' = buffer /\ acknowledged' = acknowledged /\ vfs' = vfs
      /\ cache' = [l \in Lba |-> NotCached] /\ recency' = << >>
  BY DEF CommitFails, Quarantine, Discard
<1>3. /\ fs' \in FsType /\ fs'.quarantine = q /\ q \in {"Unknown", "NotPublished"}
      /\ fs'.active_slot = fs.active_slot /\ fs'.generation = fs.generation
  BY <1>1, <1>2 DEF Types, FsType
<1> HIDE DEF q
<1>4. Cached' = {} /\ Dirty' = {}
  BY <1>2 DEF Cached, Dirty
<1>5. Types'
  <2>1. cache' \in [Lba -> Entry \cup {NotCached}] /\ recency' \in Seq(Lba)
    BY <1>2
  <2> QED BY <1>1, <1>2, <1>3, <2>1 DEF Types
<1>6. CacheOrder' /\ Coherent'
  <2>1. Len(recency') = 0
    BY <1>2
  <2>2. Distinct(recency') /\ \A l \in Lba : ~Occurs(recency', l)
    BY <2>1 DEF Distinct, Occurs
  <2> QED BY <1>4, <2>1, <2>2, ConstantFact DEF CacheOrder, Coherent
<1>7. Progress'
  BY <1>2 DEF Progress
<1>8. Quiet'
  BY <1>2, <1>3, <1>4 DEF Quiet, ReadOnly
<1>9. Intact'
  BY <1>1, <1>2, <1>3 DEF Intact, Safe
<1>10. NeverBlank'
  <2>1. CreatesOnlyFresh'
    BY <1>2 DEF CreatesOnlyFresh
  <2>2. acknowledged # Nothing => \E s \in {0, 1} : Zero \notin media'[<<s, 0>>]
    BY SafeIsNotBlank
  <2> QED BY <1>2, <2>1, <2>2 DEF NeverBlank
<1>11. Recovery'
  <2> SUFFICES ASSUME ~faulty'
               PROVE  \E a \in {0, 1}, g \in 0..GenerationMax :
                        /\ Recoverable(media', a, g, acknowledged', Suspects')
                        /\ Engaged' => a = 1 - Target' /\ g = fs'.generation
    BY DEF Recovery
  <2>1. Recoverable(media', 1 - Target, fs.generation, acknowledged, Suspects)
    BY DEF Safe
  <2>2. Suspects' = Suspects
    BY <1>2 DEF Suspects
  <2>3. 1 - Target \in {0, 1} /\ fs.generation \in 0..GenerationMax
    BY <1>1, TargetFact DEF Types, FsType
  <2>4. Target' = Target
    BY <1>3 DEF Target
  <2> QED BY <1>2, <1>3, <2>1, <2>2, <2>3, <2>4
<1> QED BY <1>5, <1>6, <1>7, <1>8, <1>9, <1>10, <1>11 DEF IInv

\* What a cache write of the commit is about: the header, or the next payload
\* sector.
LEMMA StepTarget ==
  ASSUME IInv, phase = "commit", step \notin FlushSteps
  PROVE  /\ StepLba \in Lba /\ StepData \in Sector
         /\ \/ /\ step = InvalidateStep /\ StepLba = <<Target, 0>>
               /\ StepData = HeaderOf("open", fs.generation + 1, buffer)
            \/ /\ step = PublishStep /\ StepLba = <<Target, 0>>
               /\ StepData = HeaderOf("committed", fs.generation + 1, buffer)
            \/ /\ step \in 3..(PayloadSectors + 2) /\ step - 2 \in PayloadIndex
               /\ StepLba = <<Target, step - 2>> /\ StepData = buffer[step - 2]
<1>1. Types /\ Progress
  BY DEF IInv
<1>2. /\ fs \in FsType /\ buffer \in Snapshots /\ fs.generation + 1 \in 1..GenerationMax
      /\ step \in 1..LastFlush
  BY <1>1, ConstantFact DEF Types, FsType, Progress
<1>3. Target \in {0, 1} /\ 0 \in 0..PayloadSectors
  BY <1>2, TargetFact, StepFact
<1>4. CASE step = InvalidateStep
  <2>1. StepLba = <<Target, 0>> /\ StepData = HeaderOf("open", fs.generation + 1, buffer)
    BY <1>4, StepFact DEF StepLba, StepData, HeaderOf
  <2> QED BY <1>2, <1>3, <1>4, <2>1, LbaFact, HeaderFact
<1>5. CASE step = PublishStep
  <2>1. StepLba = <<Target, 0>> /\ StepData = HeaderOf("committed", fs.generation + 1, buffer)
    BY <1>5, StepFact DEF StepLba, StepData, HeaderOf
  <2> QED BY <1>2, <1>3, <1>5, <2>1, LbaFact, HeaderFact
<1>6. CASE step \notin {InvalidateStep, PublishStep}
  <2>1. step \in 3..(PayloadSectors + 2) /\ step - 2 \in PayloadIndex /\ step - 2 \in 0..PayloadSectors
    BY <1>2, <1>6, StepFact DEF FlushSteps, PayloadIndex
  <2>2. StepLba = <<Target, step - 2>> /\ StepData = buffer[step - 2]
    BY <1>6, StepFact DEF StepLba, StepData
  <2>3. StepLba \in Lba
    BY <1>3, <2>1, <2>2, LbaFact
  <2>4. StepData \in Sector
    BY <1>2, <2>1, <2>2 DEF Snapshots, Sector
  <2> QED BY <2>1, <2>2, <2>3, <2>4
<1> QED BY <1>4, <1>5, <1>6

\* A cache write advances the commit.
LEMMA CacheWriteAdvances ==
  ASSUME IInv, phase = "commit", step \notin FlushSteps,
         CacheWrite, step' = step + 1,
         UNCHANGED <<fs, phase, buffer, vfs, acknowledged, unsettled, faulty>>,
         device' \in [Lba -> Sector], media' \in [Lba -> SUBSET Sector], MayHoldDevice', Safe(media'),
         \A l \in Lba : device'[l] = IF l \in Victim /\ l \in Dirty THEN cache[l].data ELSE device[l],
         step \in 3..PublishStep =>
           media'[<<Target, 0>>] = {HeaderOf("open", fs.generation + 1, buffer)}
  PROVE  IInv'
<1> DEFINE open == HeaderOf("open", fs.generation + 1, buffer)
           committed == HeaderOf("committed", fs.generation + 1, buffer)
<1>1. Types /\ CacheOrder /\ Coherent /\ Progress
  BY DEF IInv
<1>2. StepLba \in Lba /\ StepData \in Sector
  BY StepTarget
<1>3. \/ step = InvalidateStep /\ StepLba = <<Target, 0>> /\ StepData = open
      \/ step = PublishStep /\ StepLba = <<Target, 0>> /\ StepData = committed
      \/ /\ step \in 3..(PayloadSectors + 2) /\ step - 2 \in PayloadIndex
         /\ StepLba = <<Target, step - 2>> /\ StepData = buffer[step - 2]
  BY StepTarget
<1>4. /\ Coherent'
      /\ \A l \in Lba : Logical(l)' = IF l = StepLba THEN StepData ELSE Logical(l)
      /\ \A l \in Lba : l \in Dirty' <=> l = StepLba \/ (l \in Dirty /\ l \notin Victim)
  BY <1>1, <1>2, WriteContents
<1>5. cache' \in [Lba -> Entry \cup {NotCached}] /\ recency' \in Seq(Lba) /\ CacheOrder'
  BY <1>1, <1>2, CacheWriteFact
<1>6. Target' = Target /\ Target \in {0, 1}
  BY <1>1, TargetFact DEF Types, Target
<1>7. /\ fs.partition = "writable" /\ fs.quarantine = "none" /\ fs.generation < GenerationMax
      /\ step \in 1..LastFlush /\ unsettled = {buffer} /\ Dirty \subseteq MayBeDirty
      /\ step \in 2..PublishStep => Logical(<<Target, 0>>) = open
      /\ \A k \in PayloadIndex : step > FirstFlush + k => Logical(<<Target, k>>) = buffer[k]
  BY <1>1 DEF Progress
<1>8. step' \in 1..LastFlush /\ step' # 1
  BY <1>3, StepFact
<1> DEFINE value(l) == Logical(l)'
<1>9. \A k \in 0..PayloadSectors : <<Target, k>> \in Lba /\
        value(<<Target, k>>) = IF <<Target, k>> = StepLba THEN StepData ELSE Logical(<<Target, k>>)
  BY <1>4, <1>6, LbaFact
<1>10. 0 \in 0..PayloadSectors /\ \A k \in PayloadIndex : k \in 0..PayloadSectors /\ k # 0
  BY StepFact DEF PayloadIndex
<1> HIDE DEF open, committed, value
<1>11. step' \in 2..PublishStep => value(<<Target, 0>>) = open
  BY <1>3, <1>7, <1>9, <1>10, StepFact
<1>12. step' = LastFlush => value(<<Target, 0>>) = committed
  BY <1>3, <1>9, <1>10, StepFact
<1>13. \A k \in PayloadIndex : step' > FirstFlush + k => value(<<Target, k>>) = buffer[k]
  BY <1>3, <1>7, <1>9, <1>10, StepFact DEF PayloadIndex
<1>14. Dirty' \subseteq MayBeDirty'
  <2> SUFFICES ASSUME NEW l \in Lba, l \in Dirty'
               PROVE  l \in MayBeDirty'
    BY DEF Dirty, Cached
  <2>1. l = StepLba \/ l \in MayBeDirty
    BY <1>4, <1>7
  <2>2. CASE step \in {InvalidateStep, PublishStep}
    <3>1. l = <<Target, 0>>
      BY <2>1, <2>2, <1>3, StepFact DEF MayBeDirty
    <3>2. step' \in {FirstFlush, LastFlush} /\ step' \notin {InvalidateStep, PublishStep}
      BY <2>2, StepFact
    <3> QED BY <3>1, <3>2, <1>6 DEF MayBeDirty
  <2>3. CASE step \in 3..(PayloadSectors + 2)
    <3>1. l \in {Target} \X PayloadIndex
      BY <2>1, <2>3, <1>3, StepFact DEF MayBeDirty
    <3>2. step' \notin {FirstFlush, LastFlush} /\ step' \notin {InvalidateStep, PublishStep}
      BY <2>3, StepFact
    <3> QED BY <3>1, <3>2, <1>6 DEF MayBeDirty
  <2> QED BY <1>3, <2>2, <2>3
<1>15. step' \in 3..PublishStep => media'[<<Target, 0>>] = {open}
  BY <1>3, StepFact DEF open
<1>16. step' = LastFlush => media'[<<Target, 0>>] \subseteq {open, committed, Garbage}
  BY <1>3, StepFact DEF open
<1>17. Progress'
  BY <1>6, <1>7, <1>8, <1>11, <1>12, <1>13, <1>14, <1>15, <1>16, StepFact
     DEF Progress, value, open, committed, FirstFlush, LastFlush, PublishStep
<1> QED BY <1>4, <1>5, <1>8, <1>17, CommitGoesOn

\* BlockCache::write in commit_with keeps the invariant, whatever it evicts.
LEMMA WriteStepKeeps ==
  ASSUME IInv, WriteStep, UNCHANGED faulty
  PROVE  IInv'
<1>1. Types /\ CacheOrder /\ Progress /\ MayHoldDevice
  BY DEF IInv
<1>2. phase = "commit" /\ step \notin FlushSteps
  BY DEF WriteStep
<1>3. CASE /\ Victim \cap Dirty = {} /\ UNCHANGED <<media, device>>
           /\ CacheWrite /\ step' = step + 1
           /\ UNCHANGED <<fs, phase, buffer, vfs, acknowledged, unsettled>>
  <2>1. device' \in [Lba -> Sector] /\ media' \in [Lba -> SUBSET Sector] /\ MayHoldDevice'
    BY <1>1, <1>3 DEF Types, MayHoldDevice
  <2>2. Safe(media')
    BY <1>2, <1>3, CommitIsSafe
  <2>3. \A l \in Lba : device'[l] = IF l \in Victim /\ l \in Dirty THEN cache[l].data ELSE device[l]
    BY <1>3
  <2>4. step \in 3..PublishStep =>
          media'[<<Target, 0>>] = {HeaderOf("open", fs.generation + 1, buffer)}
    BY <1>1, <1>2, <1>3 DEF Progress
  <2> QED BY <1>2, <1>3, <2>1, <2>2, <2>3, <2>4, CacheWriteAdvances, Zenon
<1>4. ASSUME NEW l \in Victim \cap Dirty, DeviceWrites(l, cache[l].data),
             CacheWrite, step' = step + 1,
             UNCHANGED <<fs, phase, buffer, vfs, acknowledged, unsettled>>
      PROVE  IInv'
  <2>1. /\ device' = [device EXCEPT ![l] = cache[l].data]
        /\ media' = [media EXCEPT ![l] = @ \cup {cache[l].data, Garbage}]
    BY <1>4 DEF DeviceWrites
  <2>2. /\ device' \in [Lba -> Sector] /\ media' \in [Lba -> SUBSET Sector] /\ MayHoldDevice'
        /\ Safe(media')
        /\ step \in 3..PublishStep =>
             media'[<<Target, 0>>] = {HeaderOf("open", fs.generation + 1, buffer)}
    BY <1>2, <1>4, <2>1, WriteBackIsSafe, Zenon
  <2>3. Victim = {l}
    BY <1>1, <1>4, VictimFact
  <2>4. \A x \in Lba : device'[x] = IF x \in Victim /\ x \in Dirty THEN cache[x].data ELSE device[x]
    BY <1>1, <1>4, <2>1, <2>3 DEF Types
  <2> QED BY <1>2, <1>4, <2>2, <2>4, CacheWriteAdvances
<1>5. ASSUME NEW l \in Victim \cap Dirty, DeviceFailsToWrite(l, cache[l].data), CommitFails
      PROVE  IInv'
  <2>1. PICK left \in {device[l], cache[l].data, Garbage} :
          /\ device' = [device EXCEPT ![l] = left]
          /\ media' = [media EXCEPT ![l] = @ \cup {cache[l].data, Garbage}]
    BY <1>5, Zenon DEF DeviceFailsToWrite
  <2>2. device' \in [Lba -> Sector] /\ media' \in [Lba -> SUBSET Sector] /\ MayHoldDevice' /\ Safe(media')
    BY <1>2, <1>5, <2>1, WriteBackIsSafe, Zenon
  <2> QED BY <1>2, <1>5, <2>2, FailureKeeps
<1> QED BY <1>3, <1>4, <1>5 DEF WriteStep

\* Writing back a dirty sector changes nothing that is held logically.
LEMMA CleanedContents ==
  ASSUME Types, CacheOrder, Coherent, NEW l \in Dirty,
         device' = [device EXCEPT ![l] = cache[l].data],
         cache' = [cache EXCEPT ![l].dirty = FALSE], recency' = recency
  PROVE  /\ cache' \in [Lba -> Entry \cup {NotCached}] /\ CacheOrder' /\ Coherent'
         /\ \A x \in Lba : Logical(x)' = Logical(x)
         /\ Dirty' \subseteq Dirty
<1>1. l \in Lba /\ cache[l] # NotCached /\ cache[l] \in Entry
  BY DEF Dirty, Cached, Types
<1> DEFINE new == [cache[l] EXCEPT !.dirty = FALSE]
<1>2. new = [data |-> cache[l].data, dirty |-> FALSE] /\ cache[l].data \in Sector
  <2>1. PICK d \in Sector, b \in BOOLEAN : cache[l] = [data |-> d, dirty |-> b]
    BY <1>1 DEF Entry
  <2>2. \A mark : [cache[l] EXCEPT !.dirty = mark] = [data |-> d, dirty |-> mark]
    BY <2>1
  <2>3. new = [data |-> d, dirty |-> FALSE]
    BY <2>2, Zenon
  <2> QED BY <2>1, <2>3
<1>3. new \in Entry /\ new # NotCached
  BY <1>2, EntryFact, Zenon
<1>4. new.data = cache[l].data /\ new.dirty = FALSE
  BY <1>2
<1>5. cache' = [cache EXCEPT ![l] = new] /\ cache \in [Lba -> Entry \cup {NotCached}] /\ device \in [Lba -> Sector]
  BY DEF Types
<1> HIDE DEF new
<1>6. cache' \in [Lba -> Entry \cup {NotCached}]
  BY <1>1, <1>3, <1>5, Zenon
<1>7. \A x \in Lba : cache'[x] = (IF x = l THEN new ELSE cache[x])
                     /\ device'[x] = (IF x = l THEN cache[l].data ELSE device[x])
  BY <1>1, <1>5, Zenon
<1>8. Cached' = Cached
  BY <1>1, <1>3, <1>7, Zenon DEF Cached
<1>9. \A x \in Lba : x \in Dirty' <=> x \in Dirty /\ x # l
  BY <1>3, <1>4, <1>7, <1>8 DEF Dirty
<1>10. \A x \in Lba : Logical(x)' = Logical(x)
  BY <1>1, <1>3, <1>4, <1>7 DEF Logical
<1>11. Coherent'
  BY <1>4, <1>7, <1>8, <1>9 DEF Coherent
<1>12. CacheOrder'
  BY <1>8 DEF CacheOrder
<1>13. Dirty' \subseteq Dirty
  BY <1>9 DEF Dirty, Cached
<1> QED BY <1>6, <1>10, <1>11, <1>12, <1>13

\* The loop of BlockCache::flush keeps the invariant.
LEMMA WritebackStepKeeps ==
  ASSUME IInv, WritebackStep, UNCHANGED faulty
  PROVE  IInv'
<1>1. Types /\ CacheOrder /\ Coherent /\ Progress
  BY DEF IInv
<1>2. phase = "commit" /\ step \in FlushSteps
  BY DEF WritebackStep
<1>3. ASSUME NEW l \in Dirty, DeviceWrites(l, cache[l].data),
             cache' = [cache EXCEPT ![l].dirty = FALSE],
             UNCHANGED <<recency, fs, phase, step, buffer, vfs, acknowledged, unsettled>>
      PROVE  IInv'
  <2>1. /\ device' = [device EXCEPT ![l] = cache[l].data]
        /\ media' = [media EXCEPT ![l] = @ \cup {cache[l].data, Garbage}]
    BY <1>3 DEF DeviceWrites
  <2>2. /\ device' \in [Lba -> Sector] /\ media' \in [Lba -> SUBSET Sector] /\ MayHoldDevice'
        /\ Safe(media')
        /\ step \in 3..PublishStep =>
             media'[<<Target, 0>>] = {HeaderOf("open", fs.generation + 1, buffer)}
        /\ step = LastFlush =>
             media'[<<Target, 0>>] \subseteq {HeaderOf("open", fs.generation + 1, buffer),
                                             HeaderOf("committed", fs.generation + 1, buffer), Garbage}
    BY <1>2, <1>3, <2>1, WriteBackIsSafe, Zenon
  <2>3. /\ cache' \in [Lba -> Entry \cup {NotCached}] /\ CacheOrder' /\ Coherent'
        /\ \A x \in Lba : Logical(x)' = Logical(x)
        /\ Dirty' \subseteq Dirty
    BY <1>1, <1>3, <2>1, CleanedContents, Zenon
  <2>4. Target' = Target /\ Target \in {0, 1}
    BY <1>1, <1>3, TargetFact DEF Types, Target
  <2> DEFINE value(x) == Logical(x)'
  <2>5. \A k \in 0..PayloadSectors : value(<<Target, k>>) = Logical(<<Target, k>>)
    BY <2>3, <2>4, LbaFact
  <2>6. 0 \in 0..PayloadSectors /\ \A k \in PayloadIndex : k \in 0..PayloadSectors
    BY StepFact DEF PayloadIndex
  <2> HIDE DEF value
  <2>7. MayBeDirty' = MayBeDirty
    BY <1>3, <2>4 DEF MayBeDirty
  <2>8. Progress'
    BY <1>1, <1>2, <1>3, <2>2, <2>3, <2>4, <2>5, <2>6, <2>7 DEF Progress, value
  <2>9. recency' \in Seq(Lba) /\ step' = step /\ step \in 1..LastFlush
    BY <1>1, <1>2, <1>3 DEF Types, Progress
  <2> QED BY <1>2, <1>3, <2>2, <2>3, <2>8, <2>9, CommitGoesOn
<1>4. ASSUME NEW l \in Dirty, DeviceFailsToWrite(l, cache[l].data), CommitFails
      PROVE  IInv'
  <2>1. PICK left \in {device[l], cache[l].data, Garbage} :
          /\ device' = [device EXCEPT ![l] = left]
          /\ media' = [media EXCEPT ![l] = @ \cup {cache[l].data, Garbage}]
    BY <1>4, Zenon DEF DeviceFailsToWrite
  <2>2. device' \in [Lba -> Sector] /\ media' \in [Lba -> SUBSET Sector] /\ MayHoldDevice' /\ Safe(media')
    BY <1>2, <1>4, <2>1, WriteBackIsSafe, Zenon
  <2> QED BY <1>2, <1>4, <2>2, FailureKeeps
<1> QED BY <1>3, <1>4 DEF WritebackStep

\* With nothing dirty, the device holds what is held logically.
LEMMA CleanDevice ==
  ASSUME Types, Coherent, Dirty = {}
  PROVE  \A l \in Lba : device[l] = Logical(l)
BY DEF Coherent, Logical, Cached

\* A device flush in the middle of a commit keeps the invariant.
LEMMA FlushGoesOn ==
  ASSUME IInv, phase = "commit", step \in FlushSteps, step # LastFlush, Dirty = {},
         DeviceFlushes, step' = step + 1,
         UNCHANGED <<cache, recency, buffer, fs, phase, vfs, acknowledged, unsettled, faulty>>
  PROVE  IInv'
<1> DEFINE open == HeaderOf("open", fs.generation + 1, buffer)
<1>1. Types /\ CacheOrder /\ Coherent /\ Progress /\ MayHoldDevice
  BY DEF IInv
<1>2. \A l \in Lba : media'[l] = {device[l]} /\ device'[l] = device[l]
  BY DEF DeviceFlushes
<1>3. device' \in [Lba -> Sector] /\ media' \in [Lba -> SUBSET Sector] /\ MayHoldDevice'
  BY <1>1, <1>2 DEF Types, MayHoldDevice, DeviceFlushes
<1>4. Target \in {0, 1} /\ 1 - Target \in {0, 1} /\ Target' = Target
      /\ (fs.active_slot # NoSlot => fs.active_slot = 1 - Target)
  BY <1>1, TargetFact DEF Types, Target
<1>5. Safe(media')
  <2>1. \A l \in Lba : media'[l] \subseteq media[l] /\ media'[l] # {}
    BY <1>1, <1>2 DEF MayHoldDevice
  <2>2. ~faulty => Recoverable(media', 1 - Target, fs.generation, acknowledged, Suspects)
    BY <2>1, <1>4, CommitIsSafe, RecoverableShrinks DEF Safe
  <2>3. fs.active_slot # NoSlot => Holds(media', fs.active_slot, fs.generation, acknowledged)
    BY <2>1, <1>4, CommitIsSafe, LbaFact, StepFact DEF Safe, Holds, PayloadIndex
  <2> QED BY <2>2, <2>3 DEF Safe
<1>6. step' \in 1..LastFlush /\ step' \in 3..PublishStep /\ step \in 2..PublishStep
  BY <1>1, StepFact DEF FlushSteps
<1>7. Coherent' /\ CacheOrder' /\ Dirty' = {}
  BY <1>1, <1>2 DEF Coherent, CacheOrder, Dirty, Cached
<1>8. \A l \in Lba : Logical(l)' = Logical(l)
  BY <1>2 DEF Logical
<1> DEFINE value(l) == Logical(l)'
<1>9. \A k \in 0..PayloadSectors : value(<<Target, k>>) = Logical(<<Target, k>>)
  BY <1>4, <1>8, LbaFact
<1>10. 0 \in 0..PayloadSectors /\ \A k \in PayloadIndex : k \in 0..PayloadSectors
  BY StepFact DEF PayloadIndex
<1>11. Logical(<<Target, 0>>) = open
  BY <1>1, <1>6 DEF Progress
<1>12. media'[<<Target, 0>>] = {open}
  BY <1>1, <1>2, <1>4, <1>10, <1>11, CleanDevice, LbaFact
<1>13. \A k \in PayloadIndex : step' > FirstFlush + k => step > FirstFlush + k
  BY <1>6, StepFact DEF FlushSteps, PayloadIndex
<1>14. \A k \in PayloadIndex : step' > FirstFlush + k => value(<<Target, k>>) = buffer[k]
  BY <1>1, <1>9, <1>10, <1>13, Zenon DEF Progress
<1> HIDE DEF value, open
<1>15. Progress'
  <2>1. value(<<Target, 0>>) = open
    BY <1>9, <1>10, <1>11
  <2>2. step' # LastFlush
    BY <1>6, StepFact
  <2>3. /\ fs.partition = "writable" /\ fs.quarantine = "none" /\ fs.generation < GenerationMax
        /\ unsettled = {buffer}
    BY <1>1 DEF Progress
  <2> QED BY <1>4, <1>6, <1>7, <1>12, <1>14, <2>1, <2>2, <2>3 DEF Progress, value, open, FirstFlush, LastFlush
<1> QED BY <1>1, <1>3, <1>5, <1>6, <1>7, <1>15, CommitGoesOn DEF Types

\* The last flush ends the commit: the target slot is the one to rely on now.
LEMMA LastFlushKeeps ==
  ASSUME IInv, phase = "commit", step = LastFlush, Dirty = {},
         DeviceFlushes, UNCHANGED <<cache, recency, buffer, faulty>>,
         fs' = [fs EXCEPT !.active_slot = Target, !.generation = fs.generation + 1],
         phase' = "running", step' = 0,
         vfs' = buffer, acknowledged' = buffer, unsettled' = {}
  PROVE  IInv'
<1> DEFINE g == fs.generation
           committed == HeaderOf("committed", g + 1, buffer)
<1>1. Types /\ CacheOrder /\ Coherent /\ Progress /\ MayHoldDevice
  BY DEF IInv
<1>2. \A l \in Lba : media'[l] = {device[l]} /\ device'[l] = device[l]
  BY DEF DeviceFlushes
<1>3. device' \in [Lba -> Sector] /\ media' \in [Lba -> SUBSET Sector] /\ MayHoldDevice'
  BY <1>1, <1>2 DEF Types, MayHoldDevice, DeviceFlushes
<1>4. Target \in {0, 1} /\ 1 - Target \in {0, 1} /\ 1 - (1 - Target) = Target
  BY <1>1, TargetFact DEF Types
<1>5. g \in 0..GenerationMax /\ g < GenerationMax /\ g + 1 \in 1..GenerationMax /\ buffer \in Snapshots
      /\ fs.quarantine = "none" /\ fs.partition = "writable"
  BY <1>1, ConstantFact DEF Types, FsType, Progress
<1>6. /\ fs' \in FsType /\ fs'.active_slot = Target /\ fs'.generation = g + 1
      /\ fs'.quarantine = "none"
  <2>1. fs \in FsType /\ g + 1 \in 0..GenerationMax
    BY <1>1, <1>5 DEF Types
  <2>2. fs'.active_slot = Target /\ fs'.generation = g + 1 /\ fs'.quarantine = "none"
    BY <2>1, <1>5 DEF FsType
  <2> DEFINE n == g + 1
  <2>3. fs' = [fs EXCEPT !.active_slot = Target, !.generation = n] /\ n \in 0..GenerationMax
    BY <2>1
  <2> HIDE DEF n
  <2>4. fs' \in FsType
    BY <2>1, <2>3, <1>4, Zenon DEF FsType
  <2> QED BY <2>2, <2>4
<1>7. Types'
  BY <1>1, <1>3, <1>5, <1>6, StepFact DEF Types
<1>8. Coherent' /\ CacheOrder' /\ Dirty' = {}
  BY <1>1, <1>2 DEF Coherent, CacheOrder, Dirty, Cached
<1>9. Progress' /\ Quiet'
  BY <1>4, <1>6, <1>8, ConstantFact DEF Progress, Quiet
<1>10. Holds(media', Target, g + 1, buffer)
  <2>1. \A k \in 0..PayloadSectors : media'[<<Target, k>>] = {Logical(<<Target, k>>)}
    BY <1>1, <1>2, <1>4, CleanDevice, LbaFact
  <2>2. Logical(<<Target, 0>>) = committed
    BY <1>1 DEF Progress
  <2>3. \A k \in PayloadIndex : step > FirstFlush + k
    BY StepFact DEF PayloadIndex
  <2>4. \A k \in PayloadIndex : Logical(<<Target, k>>) = buffer[k]
    BY <1>1, <2>3 DEF Progress
  <2>5. 0 \in 0..PayloadSectors /\ \A k \in PayloadIndex : k \in 0..PayloadSectors
    BY StepFact DEF PayloadIndex
  <2> QED BY <2>1, <2>2, <2>4, <2>5 DEF Holds
<1>11. Intact'
  BY <1>5, <1>6, <1>10, ConstantFact DEF Intact
<1>12. NeverBlank'
  <2>1. media'[<<Target, 0>>] = {committed}
    BY <1>10 DEF Holds
  <2>2. committed # Zero
    BY <1>5, HeaderFact
  <2>3. Zero \notin media'[<<Target, 0>>]
    BY <2>1, <2>2
  <2> QED BY <1>4, <2>3 DEF NeverBlank, CreatesOnlyFresh
<1>13. ~faulty => Recoverable(media', Target, g + 1, buffer, {})
  <2> SUFFICES ASSUME ~faulty
               PROVE  Recoverable(media', Target, g + 1, buffer, {})
    OBVIOUS
  <2>1. \A l \in Lba : media'[l] \subseteq media[l] /\ media'[l] # {}
    BY <1>1, <1>2 DEF MayHoldDevice
  <2>2. Recoverable(media', 1 - Target, g, acknowledged, Suspects)
    BY <2>1, <1>4, CommitIsSafe, RecoverableShrinks, Zenon DEF Safe
  <2>3. ASSUME NEW h \in Header, Rival(media', 1 - Target, h)
        PROVE  h.generation < g + 1
    <3>1. acknowledged # Nothing /\ Holds(media', 1 - Target, g, acknowledged) /\ g # 0
      BY <2>2, <2>3 DEF Recoverable
    <3>2. h = HeaderOf("committed", g, acknowledged)
      BY <3>1, <2>3 DEF Holds, Rival
    <3>3. h.generation = g
      BY <3>2 DEF HeaderOf
    <3> QED BY <3>3, <1>5
  <2> QED BY <1>5, <1>10, <2>3, ConstantFact DEF Recoverable
<1>14. Recovery'
  <2>1. Target' = 1 - Target
    BY <1>4, <1>6, ConstantFact DEF Target
  <2>2. Suspects' = {}
    BY DEF Suspects
  <2>3. 1 - Target' = Target /\ fs'.generation = g + 1 /\ g + 1 \in 0..GenerationMax
    BY <2>1, <1>4, <1>5, <1>6
  <2> HIDE DEF g
  <2> QED BY <1>4, <1>13, <2>2, <2>3 DEF Recovery
<1> QED BY <1>3, <1>7, <1>8, <1>9, <1>11, <1>12, <1>14 DEF IInv

\* The device flush of BlockCache::flush keeps the invariant.
LEMMA FlushStepKeeps ==
  ASSUME IInv, FlushStep, UNCHANGED faulty
  PROVE  IInv'
<1>1. phase = "commit" /\ step \in FlushSteps /\ Dirty = {}
  BY DEF FlushStep
<1>2. CASE UNCHANGED <<media, device>> /\ CommitFails
  <2>1. device' \in [Lba -> Sector] /\ media' \in [Lba -> SUBSET Sector] /\ MayHoldDevice'
    BY <1>2 DEF IInv, Types, MayHoldDevice
  <2>2. Safe(media')
    BY <1>1, <1>2, CommitIsSafe
  <2> QED BY <1>1, <1>2, <2>1, <2>2, FailureKeeps
<1>3. CASE DeviceFlushes /\ UNCHANGED <<cache, recency, buffer>> /\ step # LastFlush
           /\ step' = step + 1 /\ UNCHANGED <<fs, phase, vfs, acknowledged, unsettled>>
  BY <1>1, <1>3, FlushGoesOn
<1>4. CASE /\ DeviceFlushes /\ UNCHANGED <<cache, recency, buffer>> /\ step = LastFlush
           /\ fs' = [fs EXCEPT !.active_slot = Target, !.generation = fs.generation + 1]
           /\ phase' = "running" /\ step' = 0
           /\ vfs' = buffer /\ acknowledged' = buffer /\ unsettled' = {}
  BY <1>1, <1>4, LastFlushKeeps
<1> QED BY <1>2, <1>3, <1>4 DEF FlushStep

\* The start of a mutation keeps the invariant.
LEMMA MutateKeeps ==
  ASSUME IInv, NEW v \in Snapshots, Mutate(v), UNCHANGED faulty
  PROVE  IInv'
<1>1. Types /\ CacheOrder /\ Coherent /\ Quiet /\ MayHoldDevice /\ Intact /\ NeverBlank /\ Recovery
  BY DEF IInv
<1>2. /\ phase = "running" /\ ~ReadOnly /\ fs.generation < GenerationMax
      /\ phase' = "commit" /\ step' = 1 /\ buffer' = v /\ unsettled' = {v}
      /\ UNCHANGED <<media, device, cache, recency, fs, vfs, acknowledged>>
  BY StepFact DEF Mutate, StartCommit
<1>3. /\ fs.active_slot # NoSlot /\ unsettled = {} /\ Dirty = {}
      /\ fs.partition = "writable" /\ fs.quarantine = "none"
  BY <1>1, <1>2 DEF Quiet, ReadOnly
<1>4. Types'
  BY <1>1, <1>2, StepFact DEF Types
<1>5. CacheOrder' /\ Coherent' /\ Dirty' = {} /\ MayHoldDevice'
  BY <1>1, <1>2, <1>3 DEF CacheOrder, Coherent, Dirty, Cached, MayHoldDevice
<1>6. Progress'
  <2>1. step' \notin 2..PublishStep /\ step' # LastFlush /\ step' \notin 3..PublishStep /\ step' \in 1..LastFlush
        /\ \A k \in PayloadIndex : ~(step' > FirstFlush + k)
    BY <1>2, StepFact DEF PayloadIndex
  <2> QED BY <1>2, <1>3, <1>5, <2>1 DEF Progress, FirstFlush, LastFlush, PublishStep
<1>7. Quiet'
  BY <1>2, <1>3 DEF Quiet
<1>8. Intact' /\ NeverBlank'
  BY <1>1, <1>2, <1>3 DEF Intact, NeverBlank, CreatesOnlyFresh
<1>9. Recovery'
  <2>1. Suspects' = {} /\ Suspects = {}
    BY <1>2, <1>3, StepFact DEF Suspects, Publishing
  <2>2. Engaged /\ Target' = Target
    BY <1>2, <1>3 DEF Engaged, Target
  <2> QED BY <1>1, <1>2, <2>1, <2>2 DEF Recovery
<1> QED BY <1>4, <1>5, <1>6, <1>7, <1>8, <1>9 DEF IInv

\* An emptied cache.
LEMMA DiscardFact ==
  ASSUME Discard
  PROVE  /\ cache' \in [Lba -> Entry \cup {NotCached}] /\ recency' \in Seq(Lba)
         /\ CacheOrder' /\ Coherent' /\ Dirty' = {}
<1>1. cache' = [l \in Lba |-> NotCached] /\ recency' = << >>
  BY DEF Discard
<1>2. cache' \in [Lba -> Entry \cup {NotCached}] /\ recency' \in Seq(Lba) /\ Len(recency') = 0
  BY <1>1
<1>3. Cached' = {} /\ Dirty' = {}
  BY <1>1 DEF Cached, Dirty
<1>4. Distinct(recency') /\ \A l \in Lba : ~Occurs(recency', l)
  BY <1>2 DEF Distinct, Occurs
<1> QED BY <1>2, <1>3, <1>4, ConstantFact DEF CacheOrder, Coherent

\* The state of an unmounted volume.
LEMMA UnavailableFact ==
  /\ Unavailable \in FsType /\ Unavailable.active_slot = NoSlot
  /\ Unavailable.quarantine = "none" /\ Unavailable.partition = "none"
  /\ Unavailable.generation = 0
BY ConstantFact DEF Unavailable, FsType

\* Power loss keeps the invariant: media settle on something they may hold.
LEMMA PowerFailsKeeps ==
  ASSUME IInv, PowerFails, UNCHANGED faulty
  PROVE  IInv'
<1>1. Types /\ NeverBlank /\ Recovery /\ MayHoldDevice
  BY DEF IInv
<1> DEFINE moved == {l \in Lba : media[l] # {device[l]}}
<1>2. PICK settled \in [moved -> UNION {media[l] : l \in moved}] :
        /\ \A l \in moved : settled[l] \in media[l]
        /\ device' = [l \in Lba |-> IF l \in moved THEN settled[l] ELSE device[l]]
  BY Zenon DEF PowerFails
<1> HIDE DEF moved
<1>3. \A l \in Lba : device'[l] \in media[l]
  BY <1>1, <1>2 DEF MayHoldDevice
<1>4. /\ media' = [l \in Lba |-> {device'[l]}] /\ fs' = Unavailable /\ Discard
      /\ phase' = "off" /\ step' = 0 /\ vfs' = Nothing
      /\ UNCHANGED <<buffer, acknowledged, unsettled>>
  BY DEF PowerFails
<1>5. device' \in [Lba -> Sector]
  <2>1. \A l \in Lba : device'[l] \in Sector
    BY <1>1, <1>3 DEF Types
  <2> QED BY <1>2, <2>1
<1>6. media' \in [Lba -> SUBSET Sector] /\ \A l \in Lba : media'[l] = {device'[l]}
  BY <1>4, <1>5
<1>7. Types'
  BY <1>1, <1>4, <1>5, <1>6, DiscardFact, UnavailableFact, StepFact DEF Types
<1>8. MayHoldDevice' /\ Progress' /\ Quiet'
  BY <1>4, <1>6, DiscardFact, UnavailableFact DEF MayHoldDevice, Progress, Quiet
<1>9. Intact'
  BY <1>4, UnavailableFact DEF Intact
<1>10. \A l \in Lba : media'[l] \subseteq media[l] /\ media'[l] # {}
  BY <1>3, <1>6
<1>11. NeverBlank'
  <2>1. \A s \in {0, 1} : media'[<<s, 0>>] \subseteq media[<<s, 0>>]
    BY <1>10, LbaFact, StepFact
  <2> QED BY <1>1, <1>4, <2>1, Zenon DEF NeverBlank, CreatesOnlyFresh
<1>12. Recovery'
  <2> SUFFICES ASSUME ~faulty'
               PROVE  \E a \in {0, 1}, g \in 0..GenerationMax :
                        /\ Recoverable(media', a, g, acknowledged', Suspects')
                        /\ Engaged' => a = 1 - Target' /\ g = fs'.generation
    BY DEF Recovery
  <2>1. PICK a \in {0, 1}, g \in 0..GenerationMax : Recoverable(media, a, g, acknowledged, Suspects)
    BY <1>1 DEF Recovery
  <2>2. Recoverable(media', a, g, acknowledged, Suspects)
    BY <2>1, <1>10, RecoverableShrinks, Zenon
  <2>3. Suspects \subseteq Suspects'
    BY <1>4 DEF Suspects
  <2>4. Recoverable(media', a, g, acknowledged', Suspects')
    BY <2>2, <2>3, <1>4 DEF Recoverable
  <2>5. ~Engaged'
    BY <1>4, UnavailableFact DEF Engaged
  <2> QED BY <2>4, <2>5
<1> QED BY <1>4, <1>7, <1>8, <1>9, <1>11, <1>12, DiscardFact DEF IInv
=============================================================================
