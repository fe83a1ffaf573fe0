------------------------------ MODULE BootPaging ------------------------------
(* The supervisor page tables, from the firmware's tree to the sealed one:    *)
(* kernel/src/page_table.rs (identity check, transactional clone),            *)
(* kernel/src/paging.rs (clone, page protection with huge-page splitting,     *)
(* stack guards, sealing), kernel/src/cpu_paging.rs (phases) and the boot     *)
(* order of kernel/src/main.rs.                                               *)
(*                                                                            *)
(* A tree node is NoValue (not present), a leaf [leaf, address, flags] or a   *)
(* table [leaf, slots, flags]; flags is a subset of {"W", "X", "U"} ("X" is   *)
(* the absence of NX).  Each table is one frame of the pool `free`.  PAT,     *)
(* global and accessed bits, and the TLB reloads after each change, are left  *)
(* out: one CPU runs this with interrupts masked.                             *)
EXTENDS Naturals, Sequences, FiniteSets, SequencesExt

CONSTANTS
    Levels,      \* depth of a tree (4)
    Fan,         \* entries of a table (512)
    Firmware,    \* trees the loader may hand over
    Frees,       \* possible numbers of free frames
    Text, Rodata, Data,   \* pages of the linked kernel image
    Layouts,     \* where the linker may put the kernel stacks, and the stack pointer
    Idt,         \* the page of the IDT, inside Data
    Usable,      \* RAM pages of the boot map
    UserBase,    \* first page of the user half
    Bits,        \* pages under one entry of level 2 (512)
    NoValue

VARIABLES
    firmware,    \* the tree in CR3 at entry
    kernel,      \* the kernel's own root
    free,        \* frames left in the allocator
    frames,      \* frames there were at entry
    layout,      \* [stacks, rsp]; a stack [guard, top] is usable in between
    phase,       \* CpuPaging phase: "empty", "bootstrap", "sealed"
    todo,        \* what is left of the boot order
    halted

vars == <<firmware, kernel, free, frames, layout, phase, todo, halted>>

Slots == 0..Fan - 1
Span(level) == Fan ^ (level - 1)          \* pages below one entry
Pages == 0..(Fan ^ Levels) - 1
Leaf(address, flags) == [leaf |-> TRUE, address |-> address, flags |-> flags]
Table(slots, flags) == [leaf |-> FALSE, slots |-> slots, flags |-> flags]
Slot(page, level) == (page \div Span(level)) % Fan

-----------------------------------------------------------------------------
RECURSIVE identity_mappings(_, _, _), clone_supervisor(_, _, _), Tables(_)

identity_mappings(slots, level, base) ==
    \A i \in Slots : slots[i] # NoValue =>
        LET address == base + i * Span(level) IN
        /\ address < UserBase /\ ~(level = Levels /\ slots[i].leaf)
        /\ IF slots[i].leaf THEN slots[i].address = address
           ELSE identity_mappings(slots[i].slots, level - 1, address)

(* The table frames of a (partial) tree: what release_clone returns.          *)
Tables(slots) ==
    LET below == {i \in Slots : slots[i] # NoValue /\ ~slots[i].leaf}
        sum[S \in SUBSET below] ==
            IF S = {} THEN 0
            ELSE LET i == CHOOSE i \in S : TRUE IN Tables(slots[i].slots) + sum[S \ {i}]
    IN 1 + sum[below]

(* Copy with the user bit removed, one new frame per table; a child that      *)
(* cannot be cloned releases everything built so far.                         *)
clone_supervisor(slots, level, available) ==
    LET step[n \in 0..Fan] ==
            IF n = 0 THEN [ok |-> TRUE, slots |-> [i \in Slots |-> NoValue],
                           free |-> available - 1]
            ELSE LET p == step[n - 1]
                     e == slots[n - 1]
                     c == clone_supervisor(e.slots, level - 1, p.free)
                 IN IF ~p.ok \/ e = NoValue THEN p
                    ELSE IF e.leaf
                    THEN [p EXCEPT !.slots[n - 1] = Leaf(e.address, e.flags \ {"U"})]
                    ELSE IF c.ok
                    THEN [ok |-> TRUE, free |-> c.free,
                          slots |-> [p.slots EXCEPT ![n - 1] = Table(c.slots, e.flags \ {"U"})]]
                    ELSE [ok |-> FALSE, slots |-> p.slots, free |-> c.free + Tables(p.slots)]
    IN IF available = 0 THEN [ok |-> FALSE, slots |-> << >>, free |-> 0] ELSE step[Fan]

-----------------------------------------------------------------------------
(* Nodes by path: the entry reached from the root slots by a path of indexes.  *)
RECURSIVE At(_, _), Put(_, _, _), seal_table(_, _)
At(slots, path) ==
    IF Len(path) = 1 THEN slots[path[1]] ELSE At(slots[path[1]].slots, Tail(path))
Put(slots, path, node) ==
    IF Len(path) = 1 THEN [slots EXCEPT ![path[1]] = node]
    ELSE [slots EXCEPT ![path[1]] = Table(Put(@.slots, Tail(path), node), @.flags)]

Path(page, level) == [k \in 1..Levels - level + 1 |-> Slot(page, Levels - k + 1)]

Split(node, level) ==
    Table([i \in Slots |-> Leaf(node.address + i * Span(level - 1), node.flags)], node.flags)

Admits(node, want) == node # NoValue /\ "U" \notin node.flags /\ want \subseteq node.flags

(* protect_kernel_page: split every huge entry on the way, then tighten the    *)
(* leaf; a failure puts each original entry back before its table is freed.    *)
Protectable(page, want) == page \in 1..UserBase - 1 /\ ~({"W", "X"} \subseteq want)

SplitsKept(t, created) == t
RestoreSplits(t, created) ==
    LET r[n \in 0..Len(created)] ==
            IF n = 0 THEN t ELSE Put(r[n - 1], created[n].path, created[n].original)
    IN r[Len(created)]

protect_kernel_page(root, available, page, want) ==
    LET walk[level \in 1..Levels] ==
            \* state after handling the entry of `level`, from the root down
            LET p == IF level = Levels
                     THEN [t |-> root, free |-> available, created |-> << >>, ok |-> TRUE]
                     ELSE walk[level + 1]
                path == Path(page, level)
                node == At(p.t, path)
            IN IF ~p.ok THEN p
               ELSE IF ~Admits(node, want) THEN [p EXCEPT !.ok = FALSE]
               ELSE IF level = 1
               THEN [p EXCEPT !.t = Put(p.t, path, Leaf(node.address, want))]
               ELSE IF ~node.leaf THEN p
               ELSE IF level = Levels \/ p.free = 0 THEN [p EXCEPT !.ok = FALSE]
               ELSE [t |-> Put(p.t, path, Split(node, level)), free |-> p.free - 1, ok |-> TRUE,
                     created |-> <<[path |-> path, original |-> node]>> \o p.created]
        result == walk[1]
    IN IF ~Protectable(page, want) THEN [ok |-> FALSE, t |-> root, free |-> available]
       ELSE IF result.ok THEN [ok |-> TRUE, t |-> result.t, free |-> result.free]
       ELSE [ok |-> FALSE, t |-> RestoreSplits(result.t, result.created),
             free |-> result.free + Len(result.created)]

(* Every leaf outside the text loses execution; a leaf that straddles the text *)
(* or leaves it writable refuses the seal.                                     *)
seal_table(slots, level) ==
    LET covered(i) == slots[i].address..slots[i].address + Span(level) - 1
        sealed(i) ==
            IF slots[i] = NoValue THEN [ok |-> TRUE, node |-> NoValue]
            ELSE IF ~slots[i].leaf
            THEN LET c == seal_table(slots[i].slots, level - 1) IN
                 [ok |-> c.ok, node |-> Table(c.slots, slots[i].flags)]
            ELSE IF covered(i) \intersect Text = {}
            THEN [ok |-> TRUE, node |-> Leaf(slots[i].address, slots[i].flags \ {"X"})]
            ELSE [ok |-> level = 1 /\ "W" \notin slots[i].flags, node |-> slots[i]]
    IN [ok |-> \A i \in Slots : sealed(i).ok, slots |-> [i \in Slots |-> sealed(i).node]]

-----------------------------------------------------------------------------
(* The boot order: clone, image pages in turn, stacks and their guards, IDT,   *)
(* RAM, seal.                                                                  *)
Protect(page, want) == [what |-> "protect", page |-> page, want |-> want]
Ascending(S) == CHOOSE s \in [1..Cardinality(S) -> S] :
                    \A j, k \in DOMAIN s : j < k => s[j] < s[k]
Each(S, want) == [k \in 1..Cardinality(S) |-> Protect(Ascending(S)[k], want)]
(* One page per level-2 entry: the loop skips to the next 2 MiB boundary.      *)
Managed == Usable \ {0}
RamSteps == {p \in Managed : \A q \in Managed : q \div Bits = p \div Bits => p <= q}

protect_kernel_image == Each(Text, {"X"}) \o Each(Rodata, {}) \o Each(Data, {"W"})
guards(stack) == <<stack.guard, stack.top>>
Guards == UNION {{k.guard, k.top} : k \in {layout.stacks[i] : i \in DOMAIN layout.stacks}}
contains_stack_pointer(stack, pointer) == pointer \in stack.guard + 1..stack.top
overlaps(a, b) == a.guard <= b.top /\ b.guard <= a.top

Bare(what, page) == [what |-> what, page |-> page, want |-> {}]
install_stack_guards(stacks) ==
    LET pages == FlattenSeq([i \in DOMAIN stacks |-> guards(stacks[i])])
    IN  <<Bare("stacks", 0)>> \o [k \in DOMAIN pages |-> Bare("guard", pages[k])]
BootOrder(stacks) ==
    protect_kernel_image \o install_stack_guards(stacks) \o <<Protect(Idt, {})>>
        \o Each(RamSteps, {"W"}) \o <<Bare("seal", 0)>>

Init ==
    /\ firmware \in Firmware
    /\ free \in Frees /\ frames = free
    /\ kernel = NoValue
    /\ phase = "empty"
    /\ layout \in Layouts /\ todo = BootOrder(layout.stacks)
    /\ halted = FALSE

init_protected_address_space ==
    LET c == clone_supervisor(firmware, Levels, free) IN
    /\ phase = "empty" /\ ~halted
    /\ IF identity_mappings(firmware, Levels, 0) /\ c.ok
       THEN /\ kernel' = c.slots /\ free' = c.free /\ phase' = "bootstrap"
            /\ UNCHANGED halted
       ELSE /\ free' = IF identity_mappings(firmware, Levels, 0) THEN c.free ELSE free
            /\ halted' = TRUE
            /\ UNCHANGED <<kernel, phase>>
    /\ UNCHANGED <<firmware, frames, layout, todo>>

Step(what) == phase = "bootstrap" /\ ~halted /\ Head(todo).what = what /\ todo' = Tail(todo)

protect_step ==
    LET r == protect_kernel_page(kernel, free, Head(todo).page, Head(todo).want) IN
    /\ Step("protect")
    /\ kernel' = r.t /\ free' = r.free /\ halted' = ~r.ok
    /\ UNCHANGED <<firmware, frames, layout, phase>>

(* The kernel runs on the first stack, and no two stacks share a page.         *)
StacksApart ==
    LET stacks == layout.stacks
    IN  /\ contains_stack_pointer(stacks[1], layout.rsp)
        /\ \A i, j \in DOMAIN stacks : i < j => ~overlaps(stacks[i], stacks[j])

check_stacks ==
    /\ Step("stacks")
    /\ halted' = ~StacksApart
    /\ UNCHANGED <<firmware, kernel, free, frames, layout, phase>>

(* A page of the image's data, already split, private, an identity leaf and    *)
(* not executable.                                                             *)
guard_kernel_page ==
    LET page == Head(todo).page
        reached == \A level \in 2..Levels :
            /\ Admits(At(kernel, Path(page, level)), {})
            /\ ~At(kernel, Path(page, level)).leaf
        node == At(kernel, Path(page, 1))
    IN /\ Step("guard")
       /\ IF page \in Data /\ reached /\ Admits(node, {}) /\ node.address = page /\ "X" \notin node.flags
          THEN kernel' = Put(kernel, Path(page, 1), NoValue) /\ UNCHANGED halted
          ELSE halted' = TRUE /\ UNCHANGED kernel
       /\ UNCHANGED <<firmware, free, frames, layout, phase>>

seal_kernel_mappings ==
    LET s == seal_table(kernel, Levels) IN
    /\ Step("seal")
    /\ IF s.ok THEN kernel' = s.slots /\ phase' = "sealed" /\ UNCHANGED halted
       ELSE halted' = TRUE /\ UNCHANGED <<kernel, phase>>
    /\ UNCHANGED <<firmware, free, frames, layout>>

Next ==
    \/ init_protected_address_space \/ protect_step \/ check_stacks
    \/ guard_kernel_page \/ seal_kernel_mappings

Spec == Init /\ [][Next]_vars

-----------------------------------------------------------------------------
(* What the hardware grants for a page: the leaf, under every ancestor.        *)
RECURSIVE Granted(_, _, _)
Granted(slots, level, page) ==
    LET node == slots[Slot(page, level)] IN
    IF node = NoValue THEN NoValue
    ELSE IF node.leaf
    THEN [page |-> node.address + (page % Span(level)), flags |-> node.flags, level |-> level]
    ELSE LET g == Granted(node.slots, level - 1, page) IN
         IF g = NoValue THEN NoValue ELSE [g EXCEPT !.flags = @ \intersect node.flags]

\* However the firmware built its tree and wherever a frame runs out, the kernel
\* tree holds exactly the frames taken from the pool, maps pages to themselves
\* and never grants more than the firmware did.  Once sealed it grants nothing to
\* user code, execution on the text alone, writing on the data and the managed
\* RAM, which has leaves of its own, but not on the text, the constants and the
\* IDT, and nothing on a guard page; the stack the kernel runs on and every other
\* one keep all their pages.
BootMapIsSealed ==
    /\ frames - free = IF kernel = NoValue THEN 0 ELSE Tables(kernel)
    /\ kernel # NoValue => \A page \in Pages :
          LET g == Granted(kernel, Levels, page)
              f == Granted(firmware, Levels, page)
          IN /\ g # NoValue => g.page = page /\ g.flags \subseteq f.flags \ {"U"}
             /\ g = NoValue => f = NoValue \/ page \in Guards
             /\ phase = "sealed" =>
                   /\ page \in Guards => g = NoValue
                   /\ g # NoValue => "X" \in g.flags <=> page \in Text
                   /\ page \in Text \cup Rodata \cup {Idt} => "W" \notin g.flags
                   /\ page \in (Data \ ({Idt} \cup Guards)) \cup Managed => "W" \in g.flags
                   /\ page \in Managed => g.level = 1
    /\ phase = "sealed" => \A i \in DOMAIN layout.stacks :
          LET stack == layout.stacks[i]
          IN  (stack.guard + 1..stack.top - 1) \cap Guards = {}
    /\ phase = "sealed" => layout.rsp \in layout.stacks[1].guard + 1..layout.stacks[1].top
=============================================================================
