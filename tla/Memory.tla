------------------------------- MODULE Memory -------------------------------
(* Physical frames, the grants that own them, and the private page tables     *)
(* that publish them to a user program.                                       *)
(*                                                                            *)
(* kernel/src/physmem.rs  bitmap of managed frames with a lowest-word hint    *)
(* kernel/src/frame_grant.rs  ledger: one record per live frame, with owner,  *)
(*                            kind, generation and the one user binding       *)
(* kernel/src/memory.rs   the two joined; frames are zeroed and scrubbed      *)
(* kernel/src/paging.rs   address spaces, mapping, user copies, teardown      *)
(* kernel/src/userspace.rs  build_process, load_elf, reclaim_process          *)
(*                                                                            *)
(* A virtual page is its path of table indexes below the root; a table or a   *)
(* data page is a frame of `ram`, whose cells are zero (NoValue), a page      *)
(* table entry, or a datum tagged with the owner it was stored for.  alias is *)
(* the writable bit of the frame's one supervisor mapping: a kernel store     *)
(* through a sealed alias, and every failed assert or expect, halts.          *)
(* Diagnostic counters, NX support and address arithmetic are left out.       *)
EXTENDS Naturals, Sequences, FiniteSets, FiniteSetsExt

CONSTANTS
    FrameCounts,     \* possible numbers of managed frames (frame_count)
    WordSize,        \* frames per bitmap word (64)
    KernelFrames,    \* frames the boot clone of the supervisor tables holds
    Capacities,      \* possible numbers of ledger records (GRANT_CAPACITY)
    KernelReserve,   \* KERNEL_FRAME_RESERVE.min(N / 4)
    UserFrameLimit,  \* USER_FRAME_LIMIT
    MaxOwners,       \* bound: processes built in one behaviour
    Depth,           \* tables between the root and a leaf's page (3)
    Index,           \* indexes of one table (0..511)
    Image, Stack,    \* sequences of pages [address, writable, executable, file, data]
    NoValue

VARIABLES
    state,        \* MemoryState, the RAM and the supervisor aliases
    active_root,  \* CPU_PAGING.active_root
    build,        \* the process under construction
    processes     \* owner |-> the published UserProcess

vars == <<state, active_root, build, processes>>

KERNEL == 0
KernelRoot == 0
Zero == [i \in Index |-> NoValue]
Frames == 1..Max(FrameCounts)
Word(f) == (f - 1) \div WordSize
Words(s) == (s.frame_count + WordSize - 1) \div WordSize

-----------------------------------------------------------------------------
(* The bitmap allocator: the lowest free frame at or above the hint.          *)
Unallocated(s) == {f \in (1..s.frame_count) \ s.allocated : Word(f) >= s.next_word}

bitmap_alloc(s) ==
    IF Unallocated(s) = {}
    THEN [s |-> [s EXCEPT !.next_word = Words(s)], frame |-> 0]
    ELSE LET f == Min(Unallocated(s)) IN
         [s |-> [s EXCEPT !.next_word = Word(f), !.allocated = @ \union {f}], frame |-> f]

StaleHint(s, f) == [s EXCEPT !.allocated = @ \ {f}]
bitmap_free(s, f) ==
    [s EXCEPT !.allocated = @ \ {f}, !.next_word = Min({@, Word(f)})]

-----------------------------------------------------------------------------
(* The ledger.                                                                *)
Used(s) == {k \in DOMAIN s.records : s.records[k] # NoValue}
owner_frames(s, owner) == Cardinality({k \in Used(s) : s.records[k].owner = owner})

Grant(s, k) ==
    [slot |-> k, address |-> s.records[k].address, generation |-> s.records[k].generation,
     owner |-> s.records[k].owner, kind |-> s.records[k].kind]

is_live(s, grant) ==
    s.records[grant.slot] # NoValue /\ Grant(s, grant.slot) = grant

find(s, owner, f, kind) ==
    LET K == {k \in Used(s) : /\ s.records[k].address = f
                              /\ s.records[k].owner = owner
                              /\ s.records[k].kind = kind} IN
    IF K = {} THEN NoValue ELSE Grant(s, Min(K))

can_bind(s, grant, owner) ==
    /\ is_live(s, grant)
    /\ grant.owner = owner
    /\ grant.kind = "User"
    /\ s.records[grant.slot].mapped_at = NoValue

mapping_matches(s, owner, f, v) ==
    LET grant == find(s, owner, f, "User") IN
    grant # NoValue /\ s.records[grant.slot].mapped_at = v

QuotaDenied(s, owner) ==
    /\ owner # KERNEL
    /\ \/ owner_frames(s, owner) >= UserFrameLimit
       \/ Cardinality(Used(s)) >= Len(s.records) - KernelReserve

(* alloc_frame: quota and record first, then the bitmap, then zeroing.        *)
alloc_frame(s, owner, kind) ==
    LET vacant == DOMAIN s.records \ Used(s)
        b == bitmap_alloc(s)
        k == Min(vacant)
        t == [b.s EXCEPT !.records[k] = [address |-> b.frame, generation |-> s.next_generation,
                                         owner |-> owner, mapped_at |-> NoValue, kind |-> kind],
                         !.next_generation = @ + 1,
                         !.ram[b.frame] = Zero,
                         !.halted = @ \/ ~s.alias[b.frame]
                                      \/ \E j \in Used(s) : s.records[j].address = b.frame]
    IN IF QuotaDenied(s, owner) \/ vacant = {} THEN [s |-> s, grant |-> NoValue]
       ELSE IF b.frame = 0 THEN [s |-> b.s, grant |-> NoValue]
       ELSE [s |-> t, grant |-> Grant(t, k)]

(* free_frame: identity and pin, then the live bitmap, scrub, publish.        *)
free_frame(s, grant) ==
    IF ~is_live(s, grant) \/ s.records[grant.slot].mapped_at # NoValue
       \/ grant.address \notin s.allocated \/ ~s.alias[grant.address]
    THEN [s EXCEPT !.halted = TRUE]
    ELSE [bitmap_free(s, grant.address) EXCEPT !.records[grant.slot] = NoValue,
                                               !.ram[grant.address] = Zero]

Init ==
    /\ state \in {[frame_count |-> c, allocated |-> 1..KernelFrames, next_word |-> 0,
                   records |-> [k \in 1..n |->
                       IF k > KernelFrames THEN NoValue
                       ELSE [address |-> k, generation |-> k, owner |-> KERNEL,
                             mapped_at |-> NoValue, kind |-> "Table"]],
                   next_generation |-> KernelFrames + 1, next_owner |-> 1,
                   ram |-> [f \in Frames |-> Zero], alias |-> [f \in Frames |-> TRUE],
                   halted |-> FALSE] : c \in FrameCounts, n \in Capacities}
    /\ active_root = KernelRoot
    /\ build = NoValue
    /\ processes = << >>

-----------------------------------------------------------------------------
(* Page tables.  Walk(s, root, v)[d] is the frame d steps along v, or NoValue. *)
Entry(f, w, x) == [frame |-> f, writable |-> w, executable |-> x]

Walk(s, root, v) ==
    LET w[d \in 0..Depth + 1] ==
            IF d = 0 THEN Entry(root, TRUE, TRUE)
            ELSE IF w[d - 1] = NoValue THEN NoValue
            ELSE s.ram[w[d - 1].frame][v[d]]
    IN w

translate(s, space, v) ==
    LET leaf == Walk(s, space.root, v)[Depth + 1] IN
    IF ~is_live(s, space.authority) \/ leaf = NoValue THEN 0 ELSE leaf.frame

(* user_page: the frame of v when every table on the way is the owner's, every *)
(* entry grants the access and the leaf is the frame's recorded binding.       *)
WalkedPage(s, space, v, write) ==
    LET w == Walk(s, space.root, v) IN
    IF \/ \E d \in 1..Depth + 1 : w[d] = NoValue
       \/ write /\ ~w[Depth + 1].writable
    THEN 0
    ELSE w[Depth + 1].frame
user_page(s, space, v, write) ==
    LET w == Walk(s, space.root, v) IN
    IF \/ ~is_live(s, space.authority)
       \/ \E d \in 1..Depth + 1 : w[d] = NoValue
       \/ \E d \in 0..Depth : find(s, space.owner, w[d].frame, "Table") = NoValue
       \/ write /\ \E d \in 1..Depth + 1 : ~w[d].writable
       \/ ~mapping_matches(s, space.owner, w[Depth + 1].frame, v)
    THEN 0
    ELSE w[Depth + 1].frame

ensure_user_table(p, owner, i) ==
    LET entry == p.s.ram[p.table][i]
        a == alloc_frame(p.s, owner, "Table")
        child == a.grant.address
    IN IF entry # NoValue
       THEN [p EXCEPT !.table = entry.frame,
                      !.ok = /\ entry.writable
                             /\ find(p.s, owner, entry.frame, "Table") # NoValue]
       ELSE IF a.grant = NoValue
       THEN [p EXCEPT !.s = a.s, !.ok = FALSE]
       ELSE [s |-> [a.s EXCEPT !.ram[p.table][i] = Entry(child, TRUE, TRUE)],
             table |-> child,
             created |-> <<[parent |-> p.table, slot |-> i, child |-> child]>> \o p.created,
             ok |-> TRUE]

(* The tables created by a failed mapping, newest first: unlink, then release. *)
Rollback(s, owner, created) ==
    LET r[n \in 0..Len(created)] ==
            IF n = 0 THEN s
            ELSE LET c == created[n]
                     t == [r[n - 1] EXCEPT !.ram[c.parent][c.slot] = NoValue]
                 IN free_frame(t, find(t, owner, c.child, "Table"))
    IN r[Len(created)]

set_user_alias_writable(s, f, writable) == [s EXCEPT !.alias[f] = writable]

(* refused: the supervisor map has no leaf of its own for the frame, and the    *)
(* alias cannot be changed.  A sealed boot map has one for every managed frame; *)
(* the path is checked all the same.                                            *)
map_user_page(s, space, v, grant, writable, executable, refused) ==
    LET e[d \in 0..Depth] ==
            IF d = 0 THEN [s |-> s, table |-> space.root, created |-> << >>, ok |-> TRUE]
            ELSE IF ~e[d - 1].ok THEN e[d - 1]
            ELSE ensure_user_table(e[d - 1], space.owner, v[d])
        p == e[Depth]
        f == grant.address
        sealed == set_user_alias_writable(p.s, f, writable)
    IN IF \/ active_root = space.root
          \/ ~is_live(s, space.authority)
          \/ ~can_bind(s, grant, space.owner)
          \/ writable /\ executable
       THEN [s |-> s, ok |-> FALSE]
       ELSE IF ~p.ok \/ p.s.ram[p.table][v[Depth + 1]] # NoValue \/ refused
       THEN [s |-> Rollback(p.s, space.owner, p.created), ok |-> FALSE]
       ELSE [s |-> [sealed EXCEPT !.records[grant.slot].mapped_at = v,
                                  !.ram[p.table][v[Depth + 1]] = Entry(f, writable, executable)],
             ok |-> TRUE]

-----------------------------------------------------------------------------
(* Teardown.  Edges(s, root)[d] is the set of <<frame, path>> d steps down.    *)
Edges(s, root) ==
    LET E[d \in 0..Depth + 1] ==
            IF d = 0 THEN {<<root, << >>>>}
            ELSE UNION {{<<s.ram[e[1]][i].frame, Append(e[2], i)>> :
                         i \in {i \in Index : s.ram[e[1]][i] # NoValue}} : e \in E[d - 1]}
    IN E

Tree(s, root) == UNION {Edges(s, root)[d] : d \in 1..Depth + 1}

validate_user_table(s, space) ==
    LET E == Edges(s, space.root) IN
    /\ \A d \in 1..Depth : \A e \in E[d] : find(s, space.owner, e[1], "Table") # NoValue
    /\ \A e \in E[Depth + 1] : mapping_matches(s, space.owner, e[1], e[2])
    /\ owner_frames(s, space.owner) = Cardinality(Tree(s, space.root)) + 1

(* Leaves are unlinked, their aliases reopened and their bindings retired.     *)
release_user_table(s, leaves) ==
    [s EXCEPT !.alias = [f \in Frames |-> f \in leaves \/ @[f]],
              !.records = [k \in DOMAIN @ |->
                 IF @[k] # NoValue /\ @[k].address \in leaves
                 THEN [@[k] EXCEPT !.mapped_at = NoValue] ELSE @[k]]]

ReleaseFrames(s, frames) ==
    LET slot(t, f) == CHOOSE k \in Used(t) : t.records[k].address = f IN
    FoldSet(LAMBDA f, t : free_frame(t, Grant(t, slot(t, f))), s, frames)

destroy_user_address_space(s, space) ==
    IF ~is_live(s, space.authority) \/ active_root = space.root \/ ~validate_user_table(s, space)
    THEN [s EXCEPT !.halted = TRUE]          \* every caller expects success
    ELSE LET leaves == {e[1] : e \in Edges(s, space.root)[Depth + 1]}
             frames == {e[1] : e \in Tree(s, space.root)} \union {space.root}
         IN ReleaseFrames(release_user_table(s, leaves), frames)

-----------------------------------------------------------------------------
(* build_process: root, then image and stack pages, each allocated, filled and *)
(* mapped; the first failure tears the partial space down.                     *)
Idle == build = NoValue /\ active_root = KernelRoot /\ ~state.halted

create_user_address_space ==
    LET owner == state.next_owner
        a == alloc_frame([state EXCEPT !.next_owner = @ + 1], owner, "Table")
    IN /\ Idle /\ owner <= MaxOwners
       /\ state' = a.s
       /\ build' = IF a.grant = NoValue THEN NoValue
                   ELSE [space |-> [root |-> a.grant.address, authority |-> a.grant,
                                    owner |-> owner],
                         left |-> Image \o Stack, grant |-> NoValue, data_frame |-> 0]
       /\ UNCHANGED <<active_root, processes>>

Abandon(s) ==
    /\ state' = destroy_user_address_space(s, build.space)
    /\ build' = NoValue

allocate_zeroed_frame ==
    LET a == alloc_frame(state, build.space.owner, "User")
        page == Head(build.left)
    IN /\ build # NoValue /\ ~state.halted /\ build.grant = NoValue
       /\ IF a.grant = NoValue THEN Abandon(a.s)
          ELSE /\ state' = IF page.file
                           THEN [a.s EXCEPT !.ram[a.grant.address] =
                                     [i \in Index |-> [data |-> build.space.owner]]]
                           ELSE a.s
               /\ build' = [build EXCEPT !.grant = a.grant]
       /\ UNCHANGED <<active_root, processes>>

load_page(refused) ==
    LET page == Head(build.left)
        space == build.space
        m == map_user_page(state, space, page.address, build.grant, page.writable,
                           page.executable, refused)
        data_frame == IF page.data THEN build.grant.address ELSE build.data_frame
        image_done == Len(build.left) = Len(Stack) + 1
        misplaced == \A k \in DOMAIN Image : Image[k].data =>
                        translate(m.s, space, Image[k].address) # data_frame
    IN /\ build # NoValue /\ ~state.halted /\ build.grant # NoValue
       /\ IF ~m.ok THEN Abandon(free_frame(m.s, build.grant)) /\ UNCHANGED processes
          ELSE IF image_done /\ (data_frame = 0 \/ misplaced)
          THEN Abandon(m.s) /\ UNCHANGED processes
          ELSE /\ state' = m.s
               /\ build' = IF Len(build.left) = 1 THEN NoValue
                           ELSE [build EXCEPT !.left = Tail(@), !.grant = NoValue,
                                              !.data_frame = data_frame]
               /\ processes' = IF Len(build.left) > 1 THEN processes
                               ELSE [o \in DOMAIN processes \union {space.owner} |->
                                     IF o = space.owner
                                     THEN [space |-> space, frames_released |-> FALSE]
                                     ELSE processes[o]]
       /\ UNCHANGED active_root

-----------------------------------------------------------------------------
(* A slice installs the process root; its stores go where the tables say.      *)
activate(p) ==
    LET space == processes[p].space IN
    /\ Idle /\ ~processes[p].frames_released
    /\ IF is_live(state, space.authority)
       THEN active_root' = space.root /\ UNCHANGED state
       ELSE state' = [state EXCEPT !.halted = TRUE] /\ UNCHANGED active_root
    /\ UNCHANGED <<build, processes>>

Pages == {(Image \o Stack)[k].address : k \in DOMAIN (Image \o Stack)}

Store(s, frames, p) ==
    [s EXCEPT !.ram = [f \in Frames |->
        IF f \in frames THEN [i \in Index |-> [data |-> p]] ELSE @[f]]]

user_store(p, v) ==
    LET leaf == Walk(state, active_root, v)[Depth + 1] IN
    /\ active_root = processes[p].space.root /\ ~processes[p].frames_released
    /\ ~state.halted /\ leaf # NoValue /\ leaf.writable
    /\ state' = Store(state, {leaf.frame}, p)
    /\ UNCHANGED <<active_root, build, processes>>

activate_kernel ==
    /\ active_root # KernelRoot /\ ~state.halted
    /\ active_root' = KernelRoot
    /\ UNCHANGED <<state, build, processes>>

(* A copy of one or two pages, possibly for a completion that outlived its     *)
(* process: every page resolves before the first byte moves.                   *)
copy_to_user(p, V) ==
    LET space == processes[p].space
        target(v) == user_page(state, space, v, TRUE)
    IN /\ build = NoValue /\ ~state.halted
       /\ state' = IF \E v \in V : target(v) = 0 THEN state
                   ELSE Store(state, {target(v) : v \in V}, p)
       /\ UNCHANGED <<active_root, build, processes>>

reclaim_process(p) ==
    /\ Idle /\ ~processes[p].frames_released
    /\ state' = destroy_user_address_space(state, processes[p].space)
    /\ processes' = [processes EXCEPT ![p].frames_released = TRUE]
    /\ UNCHANGED <<active_root, build>>

Next ==
    \/ create_user_address_space
    \/ allocate_zeroed_frame
    \/ \E refused \in BOOLEAN : load_page(refused)
    \/ activate_kernel
    \/ \E p \in DOMAIN processes :
          \/ activate(p)
          \/ reclaim_process(p)
          \/ \E v \in Pages : user_store(p, v)
          \/ \E V \in SUBSET Pages : Cardinality(V) \in 1..2 /\ copy_to_user(p, V)

Spec == Init /\ [][Next]_vars

-----------------------------------------------------------------------------
(* Properties.                                                                *)
Published == {processes[p].space : p \in {p \in DOMAIN processes : ~processes[p].frames_released}}
Spaces == Published \union (IF build = NoValue THEN {} ELSE {build.space})
Loose == IF build = NoValue \/ build.grant = NoValue THEN {} ELSE {build.grant.address}
OwnedBy(o) == {state.records[k].address : k \in {k \in Used(state) : state.records[k].owner = o}}

\* Through builds that fail at any page, slices, late copies and teardown, the
\* bitmap and the ledger name the same frames, no frame has two records, no free
\* frame hides below the search hint, each owner holds exactly its root, its
\* tree and at most the page being mapped, no owner outlives its space, and none
\* of the ownership asserts of paging.rs, memory.rs and userspace.rs fires.
FramesAccounted ==
    /\ ~state.halted
    /\ {state.records[k].address : k \in Used(state)} = state.allocated
    /\ Cardinality(Used(state)) = Cardinality(state.allocated)
    /\ Unallocated(state) = (1..state.frame_count) \ state.allocated
    /\ \A s \in Spaces :
          OwnedBy(s.owner) = {s.root} \union {e[1] : e \in Tree(state, s.root)}
                             \union (IF build # NoValue /\ s = build.space THEN Loose ELSE {})
    /\ \A k \in Used(state) : state.records[k].owner \in {KERNEL} \union {s.owner : s \in Spaces}

\* A user leaf is never writable and executable, its frame is bound to that page
\* alone and its supervisor alias is writable exactly when the leaf is; a frame no
\* leaf shows can be scrubbed.  A frame holds only its own owner's data, a free
\* one none, so neither reuse nor a copy that completes late crosses processes.
MappingsAreSealed ==
    LET leaves == UNION {Edges(state, s.root)[Depth + 1] : s \in Spaces}
        holder(f) == {state.records[k].owner : k \in {k \in Used(state) :
                                                        state.records[k].address = f}}
    IN /\ \A s \in Spaces : \A e \in Edges(state, s.root)[Depth + 1] :
             LET leaf == Walk(state, s.root, e[2])[Depth + 1] IN
             /\ ~(leaf.writable /\ leaf.executable)
             /\ state.alias[e[1]] = leaf.writable
             /\ mapping_matches(state, s.owner, e[1], e[2])
       /\ \A f \in Frames \ {e[1] : e \in leaves} : state.alias[f]
       /\ \A f \in 1..state.frame_count : \A i \in Index :
             LET cell == state.ram[f][i] IN
             (cell # NoValue /\ "data" \in DOMAIN cell) => holder(f) = {cell.data}
=============================================================================
