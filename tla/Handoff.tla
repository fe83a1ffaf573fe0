------------------------------- MODULE Handoff -------------------------------
(* From the UEFI loader to the kernel's frame allocator.                      *)
(*                                                                            *)
(* bootloader/src/main.rs, elf.rs  allocate kernel, initrd and BootInfo, leave *)
(*                                 boot services, decode the final map        *)
(* crates/abi/src/boot_memory.rs   decode_uefi_map, validate_map,             *)
(*                                 require_retained, validate_boot_info       *)
(* kernel/src/boot_cpu.rs, arch.rs one processor may claim the boot           *)
(* kernel/src/memory.rs, physmem.rs  init and add_region                      *)
(*                                                                            *)
(* Addresses are page numbers below Top, where 64-bit addresses would wrap.   *)
(* The firmware is external: it types pages, serves allocations and presents  *)
(* its map as descriptors, split and ordered as it likes, perhaps with a      *)
(* malformed one.  The command line and the (always empty) framebuffer record *)
(* are left out.                                                              *)
EXTENDS Naturals, Sequences, FiniteSets, SequencesExt

CONSTANTS
    Top,             \* pages of the address space
    Types,           \* types the firmware gives its pages
    Kernel,          \* pages of the linked kernel image
    Cpus, Bsp,       \* processors that may enter, and the bootstrap one
    Malformed,       \* descriptors a faulty firmware may add
    MaxRegions,      \* MAX_MEMORY_REGIONS and MAX_USABLE_REGIONS
    Capacity,        \* frames the bitmap can track (WORDS * 64)
    NoValue

VARIABLES
    memory,   \* the firmware's type of each page
    map,      \* the descriptors it presents, then BootInfo.memory_map
    info,     \* [info, initrd]: pages the loader keeps for the kernel
    pc,       \* "load", "exit", "decode", "kernel", "ready", "halted"
    claim,    \* BootClaim phase
    cpu,      \* what each processor does: "firmware", "kernel", "halted"
    allocator \* FrameAllocator: regions and frame_count

vars == <<memory, map, info, pc, claim, cpu, allocator>>

Pages == 0..Top - 1
Conventional == {p \in Pages : memory[p] = "conventional"}

Init ==
    /\ memory \in {m \in [Pages -> Types] : \A p \in Kernel : m[p] = "conventional"}
    /\ map = << >>
    /\ info = NoValue
    /\ pc = "load"
    /\ claim = 0
    /\ cpu = [c \in Cpus |-> "firmware"]
    /\ allocator = [regions |-> << >>, frame_count |-> 0]

-----------------------------------------------------------------------------
(* boot_main up to the exit: the image goes to its fixed address, the initrd   *)
(* (perhaps absent) and BootInfo to any free pages; a failure ends the boot.   *)
boot_main ==
    LET rest == Conventional \ Kernel
        allocated(i, n) == Kernel \union {i} \union (IF n = NoValue THEN {} ELSE {n})
    IN /\ pc = "load"
       /\ \/ \E i \in rest : \E n \in (rest \ {i}) \union {NoValue} :
                /\ info' = [info |-> i, initrd |-> n]
                /\ memory' = [p \in Pages |-> IF p \in allocated(i, n) THEN "loader"
                                              ELSE memory[p]]
                /\ pc' = "exit"
          \/ rest = {} /\ pc' = "halted" /\ UNCHANGED <<info, memory>>
       /\ UNCHANGED <<map, claim, cpu, allocator>>

(* The final map: maximal runs of one type or single pages, either order.      *)
(* Pages the firmware's runtime services keep are marked by an attribute.      *)
Descriptor(type, start, pages) ==
    [type |-> IF type = "runtime" THEN "conventional" ELSE type, runtime |-> type = "runtime",
     start |-> start, pages |-> pages, aligned |-> TRUE]
Runs == {r \in {<<a, b>> \in Pages \X Pages : a <= b} :
            /\ memory[r[1]] # "hole"
            /\ \A p \in r[1]..r[2] : memory[p] = memory[r[1]]
            /\ r[1] > 0 => memory[r[1] - 1] # memory[r[1]]
            /\ r[2] < Top - 1 => memory[r[2] + 1] # memory[r[1]]}
Whole == {Descriptor(memory[r[1]], r[1], r[2] - r[1] + 1) : r \in Runs}
Pieces == {Descriptor(memory[p], p, 1) : p \in {p \in Pages : memory[p] # "hole"}}

exit_boot_services ==
    /\ pc = "exit"
    /\ \E D \in {Whole, Pieces} :
          LET up == [k \in 1..Cardinality(D) |->
                        CHOOSE d \in D : Cardinality({e \in D : e.start < d.start}) = k - 1] IN
          \E m \in {up, Reverse(up)} : \E extra \in {<< >>} \union {<<d>> : d \in Malformed} :
             map' = m \o extra
    /\ pc' = "decode"
    /\ UNCHANGED <<memory, info, claim, cpu, allocator>>

-----------------------------------------------------------------------------
(* decode_uefi_map: only plain conventional memory becomes usable.             *)
Kind(d) ==
    IF d.runtime THEN "Reserved"
    ELSE IF d.type = "conventional" THEN "Usable"
    ELSE IF d.type = "loader" THEN "Bootloader" ELSE "Reserved"

Region(d) == [start |-> d.start, size |-> d.pages, kind |-> Kind(d), aligned |-> d.aligned]

Valid(r) == r.size > 0 /\ r.start + r.size < Top /\ r.aligned
Overlap(r, q) == r.start < q.start + q.size /\ q.start < r.start + r.size

validate_map(regions) ==
    /\ Len(regions) \in 1..MaxRegions
    /\ \A k \in DOMAIN regions :
          /\ Valid(regions[k])
          /\ \A j \in 1..k - 1 : ~Overlap(regions[k], regions[j])

fill_memory_map ==
    LET regions == [k \in DOMAIN map |-> Region(map[k])] IN
    /\ pc = "decode"
    /\ IF validate_map(regions) THEN map' = regions /\ pc' = "kernel"
       ELSE pc' = "halted" /\ UNCHANGED map
    /\ UNCHANGED <<memory, info, claim, cpu, allocator>>

-----------------------------------------------------------------------------
(* _start: every processor that gets here tries to claim the boot.             *)
is_bsp(c) == c = Bsp

claim_boot_cpu(c) ==
    /\ pc = "kernel" /\ cpu[c] = "firmware"
    /\ IF is_bsp(c) /\ claim = 0
       THEN claim' = 1 /\ cpu' = [cpu EXCEPT ![c] = "kernel"]
       ELSE cpu' = [cpu EXCEPT ![c] = "halted"] /\ UNCHANGED claim
    /\ UNCHANGED <<memory, map, info, pc, allocator>>

(* require_retained: walk the range from region to region; first match wins.   *)
require_retained(start, size) ==
    LET end == start + size
        holds(k, cursor) == /\ map[k].kind \in {"Bootloader", "Kernel"}
                            /\ map[k].start <= cursor /\ cursor < map[k].start + map[k].size
        cover[cursor \in 0..end] ==
            cursor >= end \/
            LET K == {k \in DOMAIN map : holds(k, cursor)} IN
            IF K = {} THEN FALSE
            ELSE LET k == CHOOSE k \in K : \A j \in K : k <= j
                     stop == map[k].start + map[k].size
                 IN cover[IF stop < end THEN stop ELSE end]
    IN size > 0 /\ end < Top /\ cover[start]

KernelStart == CHOOSE p \in Kernel : \A q \in Kernel : p <= q

validate_boot_info ==
    /\ validate_map(map)
    /\ require_retained(info.info, 1)
    /\ require_retained(KernelStart, Cardinality(Kernel))
    /\ info.initrd # NoValue => require_retained(info.initrd, 1)

-----------------------------------------------------------------------------
(* add_region: page 0 is never managed; sorted insertion renumbers the frames. *)
Numbered(regions) ==
    LET first[k \in 1..Len(regions) + 1] ==
            IF k = 1 THEN 0
            ELSE first[k - 1] + regions[k - 1].end - regions[k - 1].start
    IN [k \in DOMAIN regions |-> [regions[k] EXCEPT !.first = first[k]]]

AppendedRegion(regions, r) == Append(regions, r)
InsertedRegion(regions, r) ==
    LET below == {k \in DOMAIN regions : regions[k].start <= r.start}
        at == Cardinality(below) + 1
    IN InsertAt(regions, at, r)

add_region(a, r) ==
    LET start == IF r.start = 0 THEN 1 ELSE r.start
        end == r.start + r.size
        total == a.frame_count + (end - start)
        new == [start |-> start, end |-> end, first |-> 0]
    IN IF r.kind # "Usable" \/ start >= end THEN a
       ELSE IF \/ Len(a.regions) = MaxRegions
               \/ total > Capacity
               \/ \E k \in DOMAIN a.regions : start < a.regions[k].end /\ a.regions[k].start < end
       THEN [a EXCEPT !.ok = FALSE]
       ELSE [regions |-> Numbered(InsertedRegion(a.regions, new)),
             frame_count |-> total, ok |-> a.ok]

memory_init ==
    LET step[k \in 0..Len(map)] ==
            IF k = 0 THEN [regions |-> << >>, frame_count |-> 0, ok |-> TRUE]
            ELSE IF step[k - 1].ok THEN add_region(step[k - 1], map[k]) ELSE step[k - 1]
    IN step[Len(map)]

kernel_main ==
    LET m == memory_init IN
    /\ pc = "kernel" /\ \E c \in Cpus : cpu[c] = "kernel"
    /\ IF validate_boot_info /\ m.ok
       THEN /\ allocator' = [regions |-> m.regions, frame_count |-> m.frame_count]
            /\ pc' = "ready"
       ELSE pc' = "halted" /\ UNCHANGED allocator
    /\ UNCHANGED <<memory, map, info, claim, cpu>>

Next ==
    \/ boot_main
    \/ exit_boot_services
    \/ fill_memory_map
    \/ \E c \in Cpus : claim_boot_cpu(c)
    \/ kernel_main

Spec == Init /\ [][Next]_vars

-----------------------------------------------------------------------------
(* alloc_frame's translation of a frame index, and live_index's inverse.       *)
Owner(i) == {k \in DOMAIN allocator.regions :
                LET r == allocator.regions[k] IN i >= r.first /\ i - r.first < r.end - r.start}
Address(i) == LET r == allocator.regions[CHOOSE k \in Owner(i) : TRUE] IN
              r.start + (i - r.first)
live_index(p) ==
    LET K == {k \in DOMAIN allocator.regions :
                 allocator.regions[k].start <= p /\ p < allocator.regions[k].end} IN
    {allocator.regions[k].first + (p - allocator.regions[k].start) : k \in K}

\* For every map the firmware can present, a kernel that gets as far as handing
\* out frames runs on the bootstrap processor alone and manages exactly the
\* conventional pages left by the loader except page 0: nothing of the kernel
\* image, the initrd, BootInfo, boot services or runtime memory can be allocated
\* and no usable page is lost; frame indexes ascend with addresses, and the two
\* translations between them are inverse.
HandoffIsRetained ==
    pc = "ready" =>
        /\ {c \in Cpus : cpu[c] = "kernel"} = {Bsp}
        /\ {p \in Pages : live_index(p) # {}} = Conventional \ {0}
        /\ allocator.frame_count = Cardinality(Conventional \ {0})
        /\ \A i \in 0..allocator.frame_count - 1 :
              /\ Cardinality(Owner(i)) = 1 /\ live_index(Address(i)) = {i}
              /\ i > 0 => Address(i - 1) < Address(i)
=============================================================================
