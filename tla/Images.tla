-------------------------------- MODULE Images --------------------------------
(* The two ELF loaders: the kernel's plan for a user program                  *)
(* (kernel/src/elf.rs, native_image.rs, load_elf in userspace.rs) and the     *)
(* boot loader's plan for the kernel (bootloader/src/kernel_elf.rs, elf.rs).  *)
(*                                                                            *)
(* A file is Len bytes, byte k holding k; a program header is a record; bytes *)
(* and pages are counted in small units.  The fixed header fields, PT_NOTE    *)
(* and PT_GNU_STACK are one flag, `header`.  Both parsers are functions of    *)
(* the file; the state machine picks a file and runs one of them.             *)
EXTENDS Naturals, Sequences, FiniteSets, SequencesExt

CONSTANTS
    Page,                   \* PAGE_SIZE
    Limit,                  \* 2^64: address arithmetic is checked below it
    FileLen,                \* bytes of a file
    UserCode, UserData, StackGuard,   \* the native window (USER_STACK_GUARD ends it)
    DataHeader,             \* bytes the process data page must hold (16)
    ExecutablePages,        \* USER_EXECUTABLE_PAGE_CAPACITY
    KernelBase, MaxImage,   \* KERNEL_BASE, MAX_IMAGE_BYTES
    MaxSegments,            \* MAX_LOAD_SEGMENTS (and MAX_PROGRAM_HEADERS)
    UserFiles, KernelFiles, \* the files tried, [header, entry, segments, relro]
    Sources,                \* addresses the firmware may read the kernel file to
    Destinations,           \* addresses its allocation may come back at
    NoValue

VARIABLES file, loader, plan, loaded

vars == <<file, loader, plan, loaded>>

Zeros == NoValue        \* a byte of a mapped page that no file byte fills
End(s) == s.address + s.memory
Pages(s) == (s.memory + Page - 1) \div Page
Power(n) == n \in {1, 2, 4, 8, 16}

-----------------------------------------------------------------------------
(* Native programs.                                                           *)
read_segment(s) ==
    /\ s.memory > 0 /\ s.memory >= s.size
    /\ s.align > 0 /\ Power(s.align)
    /\ s.offset + s.size <= FileLen

ElfImage(f) ==
    /\ f.header /\ f.entry # 0
    /\ Len(f.segments) \in 1..MaxSegments
    /\ \A k \in DOMAIN f.segments : read_segment(f.segments[k])

Admissible(s) ==
    /\ "R" \in s.flags /\ s.flags \subseteq {"R", "W", "X"}
    /\ ~({"W", "X"} \subseteq s.flags)
    /\ s.align >= Page /\ s.address % s.align = s.offset % s.align
    /\ s.address % Page = 0
    /\ End(s) < Limit
    /\ s.address >= UserCode /\ End(s) <= StackGuard

(* The part of the file that page n of the segment holds.                     *)
Unclipped(s, n) == [k \in 1..Page |-> s.offset + n * Page + k]
PageBytes(s, n) ==
    LET left == IF s.size > n * Page THEN s.size - n * Page ELSE 0
        length == IF left < Page THEN left ELSE Page
    IN [k \in 1..length |-> s.offset + n * Page + k]

SegmentPages(s) ==
    [k \in 1..Pages(s) |->
        [address |-> s.address + (k - 1) * Page, bytes |-> PageBytes(s, k - 1),
         writable |-> "W" \in s.flags, executable |-> "X" \in s.flags,
         process_data |-> /\ s.address + (k - 1) * Page = UserData
                          /\ "W" \in s.flags
                          /\ s.memory >= DataHeader /\ s.size >= DataHeader]]

Total(S, amount(_)) ==
    LET sum[T \in SUBSET S] == IF T = {} THEN 0
            ELSE LET x == CHOOSE x \in T : TRUE IN amount(x) + sum[T \ {x}]
    IN sum[S]

native_plan(f) ==
    LET segments == f.segments
        pages == FoldLeft(LAMBDA acc, s : acc \o SegmentPages(s), << >>, segments)
        code == {k \in DOMAIN segments : "X" \in segments[k].flags}
        distinct == Cardinality({pages[k].address : k \in DOMAIN pages}) = Len(pages)
    IN IF /\ ElfImage(f)
          /\ f.entry >= UserCode /\ f.entry < StackGuard
          /\ \A k \in DOMAIN segments : Admissible(segments[k])
          /\ Total(code, LAMBDA k : Pages(segments[k])) <= ExecutablePages
          /\ distinct
          /\ \E k \in code : f.entry >= segments[k].address /\ f.entry < End(segments[k])
          /\ \E k \in DOMAIN pages : pages[k].process_data
       THEN [entry |-> f.entry, pages |-> pages] ELSE NoValue

(* load_elf: each page's bytes go to the start of a zeroed frame.              *)
load_elf(p) ==
    [a \in UNION {{q.address + i : i \in 0..Page - 1} : q \in Range(p.pages)} |->
        LET q == CHOOSE q \in Range(p.pages) : q.address <= a /\ a < q.address + Page
            i == a - q.address + 1
        IN IF i \in DOMAIN q.bytes THEN q.bytes[i] ELSE Zeros]

-----------------------------------------------------------------------------
(* The kernel image.                                                          *)
load_segment(s) ==
    /\ "R" \in s.flags /\ s.flags \subseteq {"R", "W", "X"}
    /\ ~({"W", "X"} \subseteq s.flags)
    /\ s.offset + s.size <= FileLen
    /\ End(s) < Limit
    /\ s.physical = s.address /\ s.address >= KernelBase
    /\ s.memory > 0 /\ End(s) <= KernelBase + MaxImage /\ s.memory >= s.size
    /\ s.align > 1 => Power(s.align) /\ s.address % s.align = s.offset % s.align
    /\ s.address % Page = s.offset % Page

page_end(s) == ((End(s) + Page - 1) \div Page) * Page

Covers(s, r) ==
    /\ r.address >= s.address /\ End(r) <= End(s)
    /\ r.offset >= s.offset /\ r.offset + r.size <= s.offset + s.size
    /\ r.address - s.address = r.offset - s.offset

kernel_plan(f) ==
    LET segments == f.segments IN
    IF /\ f.header
       /\ Len(segments) \in 1..MaxSegments
       /\ \A k \in DOMAIN segments :
             /\ load_segment(segments[k])
             /\ k > 1 => segments[k].address >= page_end(segments[k - 1])
       /\ segments[1].address = KernelBase
       /\ \E k \in DOMAIN segments :
             /\ "X" \in segments[k].flags
             /\ f.entry >= segments[k].address
             /\ f.entry < segments[k].address + segments[k].size
       /\ f.relro # NoValue =>
             /\ load_segment(f.relro) /\ f.relro.flags = {"R"}
             /\ \E k \in DOMAIN segments : Covers(segments[k], f.relro)
    THEN [entry |-> f.entry, segments |-> segments,
          size |-> page_end(Last(segments)) - KernelBase]
    ELSE NoValue

validate_source_address(p, source) ==
    /\ source + FileLen < Limit
    /\ ~(source < KernelBase + p.size /\ KernelBase < source + FileLen)

(* load_kernel: zero the whole grant, then copy the segments in order, each     *)
(* byte from where the file lies in memory by then.                             *)
load_kernel(p, source) ==
    LET grant == KernelBase..KernelBase + p.size - 1
        copied[n \in 0..Len(p.segments)] ==
            IF n = 0 THEN [a \in grant |-> Zeros]
            ELSE LET s == p.segments[n]
                     before == copied[n - 1]
                     Read(k) == IF source + k \in grant THEN before[source + k] ELSE k + 1
                 IN [a \in grant |-> IF s.address <= a /\ a < s.address + s.size
                                     THEN Read(s.offset + (a - s.address)) ELSE before[a]]
    IN copied[Len(p.segments)]

-----------------------------------------------------------------------------
Init ==
    /\ loader \in {"native", "kernel"}
    /\ file \in IF loader = "native" THEN UserFiles ELSE KernelFiles
    /\ plan = NoValue
    /\ loaded = NoValue

load_native ==
    LET p == native_plan(file) IN
    /\ loader = "native" /\ plan = NoValue /\ p # NoValue
    /\ plan' = p /\ loaded' = load_elf(p)
    /\ UNCHANGED <<file, loader>>

(* A file that lies in the way ends the boot before anything is allocated; an   *)
(* allocation elsewhere is given back and ends it too.                          *)
boot_kernel(source, destination) ==
    LET p == kernel_plan(file) IN
    /\ loader = "kernel" /\ plan = NoValue /\ p # NoValue
    /\ validate_source_address(p, source)
    /\ destination = KernelBase
    /\ plan' = p /\ loaded' = load_kernel(p, source)
    /\ UNCHANGED <<file, loader>>

Next ==
    \/ load_native
    \/ \E source \in Sources, destination \in Destinations : boot_kernel(source, destination)
Spec == Init /\ [][Next]_vars

-----------------------------------------------------------------------------
(* What an ELF file asks for: its segments' bytes, zero up to their memory     *)
(* size, each page under the permissions of one segment.                       *)
Asked(s, a) == s.address <= a /\ a < End(s)
PageOf(a) == a \div Page

\* Whatever the program headers say and wherever the firmware put the file, an
\* accepted file loads to exactly what it asks for: every byte of every segment
\* at its address, zeros elsewhere in its pages, inside the loader's window; no
\* page belongs to two segments, none is writable and executable, and the entry
\* point is a byte of executable file.
ImagesLoadExactly ==
    plan # NoValue =>
        /\ \A k \in DOMAIN file.segments :
              LET s == file.segments[k] IN
              /\ \A a \in s.address..End(s) - 1 :
                    /\ a \in DOMAIN loaded
                    /\ loaded[a] = IF a - s.address < s.size THEN s.offset + (a - s.address) + 1
                                   ELSE Zeros
              /\ ~({"W", "X"} \subseteq s.flags)
              /\ \A j \in DOMAIN file.segments \ {k} :
                    {PageOf(a) : a \in s.address..End(s) - 1} \intersect
                    {PageOf(a) : a \in file.segments[j].address..End(file.segments[j]) - 1} = {}
        /\ \A a \in DOMAIN loaded :
              (\A k \in DOMAIN file.segments : ~Asked(file.segments[k], a)) => loaded[a] = Zeros
        /\ \E k \in DOMAIN file.segments :
              Asked(file.segments[k], plan.entry) /\ "X" \in file.segments[k].flags
        /\ DOMAIN loaded \subseteq IF loader = "native" THEN UserCode..StackGuard - 1
                                   ELSE KernelBase..KernelBase + MaxImage - 1
=============================================================================
