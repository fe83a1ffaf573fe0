------------------------------ MODULE Files ------------------------------
(***************************************************************************)
(* File capabilities: the file calls of kernel/src/userspace.rs, the       *)
(* completion of a file request by the coordinator (kernel/src/runtime.rs) *)
(* and the commit of a mutation.  A call validates the capability, copies  *)
(* what it needs into a request and parks the process; the next pass of    *)
(* the coordinator takes the request, acts on the tree and wakes the       *)
(* process.  In between the process may be killed from outside and its     *)
(* slot be given to another.                                               *)
(*                                                                         *)
(* A handle is [slot, generation]: authority is an entry of the caller's   *)
(* own table, so the process prefix of the number adds nothing.            *)
(***************************************************************************)
EXTENDS Vfs, FiniteSets

CONSTANTS
  ProcSlots,       \* slots of the process table
  FileSlots,       \* 1 .. FILE_HANDLE_CAPACITY
  MaxIncarnation,  \* bound: processes started per slot
  RequestMax,      \* where the request sequence of one process is exhausted
  Paths,           \* the paths programs use
  Names,           \* the child names programs use
  RightSets,       \* the rights masks programs ask for
  Payloads,        \* what programs write
  Capacities,      \* sizes of read buffers
  Cursors,         \* positions in a directory programs ask for
  MountModes,      \* {FALSE}, or {TRUE} for a partition of the read-only type
  BootTree,        \* the tree before the volume is mounted
  Seeded,          \* the record the volume was mounted from
  MemoryPath,      \* /MEMORY.STATUS, sampled when it is opened
  Reports,         \* what a sample may contain
  StatusPath       \* /STORAGE.STATUS

ASSUME FilesAssumption ==
    /\ RequestMax \in Nat /\ MaxIncarnation \in Nat
    /\ apply_snapshot(BootTree, Seeded) # NoValue

VARIABLES
  tree,      \* RuntimeCoordinator::vfs
  volume,    \* PersistentFs: quarantine, and the records a mount may find
  procs,     \* ProcessManager::slots
  started,   \* incarnations handed out per slot
  pending,   \* pending_vfs_request
  answer     \* rax of the call completed by the last step, NoValue otherwise

vars == <<tree, volume, procs, started, pending, answer>>

Rights == {"read", "write", "manage"}
Handle(s, generation) == [slot |-> s, generation |-> generation]
Ok(n) == [ok |-> TRUE, n |-> n]
Err == [ok |-> FALSE, n |-> 0]

-----------------------------------------------------------------------------
(* The capability table of one process *)

NewProcess(incarnation) ==
    [incarnation |-> incarnation, state |-> "Ready", pending |-> NoValue,
     files |-> [s \in FileSlots |-> NoValue], handles |-> {}, snapshots |-> {},
     next_generation |-> 1, next_request |-> 1]

\* handles.allows: the handle is registered with all the rights asked for.
Allows(p, h, rights) == \E e \in p.handles : e.handle = h /\ rights \subseteq e.rights

Lookup(p, h) == {s \in FileSlots : p.files[s] # NoValue /\ p.files[s].handle = h}
file_handle(p, h, rights) ==
    IF Allows(p, h, rights) /\ Lookup(p, h) # {}
    THEN p.files[CHOOSE s \in Lookup(p, h) : TRUE] ELSE NoValue

\* file_snapshot.rs
Readable(p, h) == Allows(p, h, {"read"}) /\ ~Allows(p, h, {"write"}) /\ ~Allows(p, h, {"manage"})
SnapshotOf(p, h) == {e \in p.snapshots : e.handle = h}
InsertSnapshotOk(p, h) ==
    /\ Readable(p, h) /\ SnapshotOf(p, h) = {}
    /\ Cardinality(p.snapshots) < Cardinality(FileSlots)
RemoveSnapshot(p, h) == [p EXCEPT !.snapshots = @ \ SnapshotOf(p, h)]

Unregister(p, h) == [p EXCEPT !.handles = {e \in @ : e.handle # h}]

\* The process with the new capability, or with a spent generation only; the
\* authority is registered first, the sample attached next, the slot last.
FreeFile(p) == {s \in FileSlots : p.files[s] = NoValue}
allocate_file_handle(p, path, info, rights, snapshot) ==
    IF \/ rights = {} \/ FreeFile(p) = {}
       \/ snapshot # NoValue /\ rights # {"read"}
    THEN [proc |-> p, handle |-> NoValue]
    ELSE LET s == CHOOSE s \in FreeFile(p) : \A t \in FreeFile(p) : s <= t
             h == Handle(s, p.next_generation)
             numbered == [p EXCEPT !.next_generation = @ + 1]
             registered == [numbered EXCEPT !.handles = @ \cup {[handle |-> h, rights |-> rights]}]
             sampled == IF snapshot = NoValue THEN registered
                        ELSE [registered EXCEPT !.snapshots =
                                  @ \cup {[handle |-> h, bytes |-> snapshot]}]
         IN  IF snapshot # NoValue /\ ~InsertSnapshotOk(registered, h)
             THEN [proc |-> numbered, handle |-> NoValue]
             ELSE [proc |-> [sampled EXCEPT !.files[s] =
                       [handle |-> h, path |-> path, offset |-> 0, size |-> info.size,
                        kind |-> info.kind, rights |-> rights, snapshot |-> snapshot # NoValue]],
                   handle |-> h]

close_file_handle(p, h) ==
    IF Lookup(p, h) = {} \/ ~Allows(p, h, {}) THEN p
    ELSE RemoveSnapshot([Unregister(p, h) EXCEPT
             !.files[CHOOSE s \in Lookup(p, h) : TRUE] = NoValue], h)

revoke_resources(p) ==
    [p EXCEPT !.files = [s \in FileSlots |-> NoValue], !.handles = {}, !.snapshots = {},
              !.pending = NoValue]

-----------------------------------------------------------------------------
(* Calls: validate, number the request, park the process *)

Running(s) == procs[s] # NoValue /\ procs[s].state = "Ready"

\* handle_table entries a program may pass: every handle it was ever given.
Issued(p) == {Handle(s, g) : s \in FileSlots, g \in 1 .. p.next_generation - 1}

Refuse == answer' = Err /\ UNCHANGED <<tree, volume, procs, started, pending>>

\* One call of a ready process; a request the coordinator has not taken yet is
\* taken before another process runs.
Block(s, valid, kind, what) ==
    /\ Running(s) /\ pending = NoValue
    /\ IF ~valid \/ procs[s].next_request >= RequestMax THEN Refuse
       ELSE LET request == [kind |-> kind, id |-> procs[s].next_request, what |-> what]
            IN  /\ procs' = [procs EXCEPT ![s].state = "Waiting", ![s].pending = request,
                                          ![s].next_request = @ + 1]
                /\ pending' = [owner |-> [slot |-> s, incarnation |-> procs[s].incarnation],
                               request |-> request]
                /\ answer' = NoValue
                /\ UNCHANGED <<tree, volume, started>>

OpenValid(path, rights) ==
    /\ rights # {} /\ ~({"write", "manage"} \subseteq rights)
    /\ "write" \in rights => is_user_writable_path(path)
    /\ "manage" \in rights => "read" \in rights /\ is_user_writable_directory(path)

block_file_open(s, path, rights) ==
    Block(s, OpenValid(path, rights), "Open", [path |-> path, rights |-> rights])

CapOf(s, h, right) == file_handle(procs[s], h, {right})
Regular(c) == c # NoValue /\ c.kind = "File"

block_file_handle_read(s, h, capacity) ==
    LET c == CapOf(s, h, "read")
    IN  Block(s, Regular(c), "Read",
              IF c = NoValue THEN NoValue
              ELSE [handle |-> h, path |-> c.path, offset |-> c.offset, capacity |-> capacity])

\* The older call reads a path and has no handle.
block_file_read(s, path, capacity) ==
    Block(s, TRUE, "Read",
          [handle |-> NoValue, path |-> path, offset |-> 0, capacity |-> capacity])

block_file_handle_write(s, h, data) ==
    LET c == CapOf(s, h, "write")
    IN  Block(s, Regular(c) /\ is_user_writable_path(c.path), "Write",
              IF c = NoValue THEN NoValue
              ELSE [handle |-> h, path |-> c.path, offset |-> c.offset, data |-> data])

block_file_handle_truncate(s, h) ==
    LET c == CapOf(s, h, "write")
    IN  Block(s, Regular(c) /\ is_user_writable_path(c.path), "Truncate",
              IF c = NoValue THEN NoValue ELSE [handle |-> h, path |-> c.path])

block_directory_read(s, h, cursor) ==
    LET c == CapOf(s, h, "read")
    IN  Block(s, c # NoValue /\ c.kind = "Directory", "ReadDirectory",
              IF c = NoValue THEN NoValue
              ELSE [handle |-> h, path |-> c.path, cursor |-> cursor])

Managed(c) == c # NoValue /\ c.kind = "Directory" /\ is_user_writable_directory(c.path)

block_namespace_mutation(s, h, name, kind) ==
    LET c == CapOf(s, h, "manage")
    IN  Block(s, Managed(c) /\ JoinOk(c.path, name), kind,
              IF c = NoValue THEN NoValue
              ELSE [handle |-> h, parent |-> c.path, target |-> join_child_path(c.path, name)])

\* close_handle completes at once.
complete_file_close(s, h) ==
    /\ Running(s) /\ pending = NoValue
    /\ LET closed == Lookup(procs[s], h) # {} /\ Allows(procs[s], h, {})
       IN  answer' = IF closed THEN Ok(0) ELSE Err
    /\ procs' = [procs EXCEPT ![s] = close_file_handle(@, h)]
    /\ UNCHANGED <<tree, volume, started, pending>>

-----------------------------------------------------------------------------
(* The volume.  sync commits the new tree; any other outcome restores the  *)
(* saved one, then writes the quarantine diagnostic over it.               *)

read_only(v) == v.read_only \/ v.quarantine # NoValue

publish_failure_status(t, v) ==
    IF v.quarantine = NoValue \/ ~WriteOk(t, StatusPath, <<v.quarantine>>) THEN t
    ELSE write(t, StatusPath, <<v.quarantine>>)

\* Plausible slips: the restore comes last, or does not come at all.
RestoreLast(saved, new, v) == saved
Restored(saved, new, v) == publish_failure_status(saved, v)

\* CommitOutcome: a record that cannot be built, or a volume closed to
\* mutations, is rejected; a failing device closes the volume, and only a
\* failure before the publication rules the new record out.
sync(new) ==
    LET record == encode_snapshot(new)
        Failed(why, found) ==
            LET v == [volume EXCEPT !.quarantine = why, !.records = found]
            IN  [ok |-> FALSE, tree |-> Restored(tree, new, v), volume |-> v]
    IN  IF read_only(volume) \/ ~EncodeOk(new)
        THEN {[ok |-> FALSE, tree |-> Restored(tree, new, volume), volume |-> volume]}
        ELSE {[ok |-> TRUE, tree |-> new, volume |-> [volume EXCEPT !.records = {record}]],
              Failed("not-published", volume.records),
              Failed("unknown", volume.records \cup {record})}

Unchanged(ok) == [ok |-> ok, tree |-> tree, volume |-> volume]
mutate_vfs(ok, new) == IF ok THEN sync(new) ELSE {Unchanged(FALSE)}

persistent_write_denied(path) == read_only(volume) /\ is_user_writable_directory(path)

-----------------------------------------------------------------------------
(* Completion *)

\* The owner still waits for exactly this request.
vfs_request_active(r) ==
    LET p == procs[r.owner.slot] IN
    /\ p # NoValue
    /\ p.incarnation = r.owner.incarnation
    /\ p.state = "Waiting"
    /\ p.pending = r.request

Wake(p) == [p EXCEPT !.state = "Ready", !.pending = NoValue]
Completed(m, p, result) == [m |-> m, proc |-> p, revoked |-> NoValue, answer |-> result]

\* complete_* returned Err: the tree keeps what was done, the owner stays parked.
Invalid(m, p) == Completed(m, p, NoValue)

\* A plausible slip: MANAGE also creates a missing path.
OpenCreatesManaged(what) == {"write", "manage"} \cap what.rights # {}

OpenCreates(what) == "write" \in what.rights /\ "manage" \notin what.rights

\* What the open finds: a node, or for /MEMORY.STATUS a fresh sample.
Info(size, kind, sample) == [size |-> size, kind |-> kind, sample |-> sample]
OpenInfo(t, what) ==
    IF paths_equal(what.path, MemoryPath)
    THEN {Info(Len(r), "File", r) : r \in Reports} \cup {NoValue}
    ELSE IF Exists(t, what.path)
    THEN LET node == find(t, what.path)
         IN  IF node.kind = "Directory" THEN {Info(0, "Directory", NoValue)}
             ELSE IF "manage" \in what.rights THEN {NoValue}
             ELSE {Info(Len(node.data), "File", NoValue)}
    ELSE {NoValue}

KindAllows(info, rights) ==
    IF info.kind = "File" THEN "manage" \notin rights
    ELSE "read" \in rights /\ "write" \notin rights

complete_file_open(m, p, what, info) ==
    IF info = NoValue \/ ~KindAllows(info, what.rights) THEN Completed(m, Wake(p), Err)
    ELSE LET a == allocate_file_handle(p, what.path, info, what.rights, info.sample)
         IN  Completed(m, Wake(a.proc), IF a.handle = NoValue THEN Err ELSE Ok(0))

Open(p, what) ==
    LET mutates == {"write", "manage"} \cap what.rights # {}
        allowed == ~(mutates /\ persistent_write_denied(what.path))
        creates == allowed /\ OpenCreates(what) /\ ~Exists(tree, what.path)
        made == IF creates THEN mutate_vfs(TouchOk(tree, what.path), touch(tree, what.path))
                ELSE {Unchanged(allowed)}
    IN  UNION {{complete_file_open(m, p, what, info) :
                    info \in IF m.ok THEN OpenInfo(m.tree, what) ELSE {NoValue}} : m \in made}

From(bytes, offset) == SubSeq(bytes, offset + 1, Len(bytes))
Least(a, b) == IF a < b THEN a ELSE b

\* Copying out may fault on the user page (copy_to_user_data), unless nothing is
\* copied.
Copied(data, capacity) ==
    IF data = NoValue THEN {NoValue}
    ELSE LET n == Least(Len(data), capacity)
         IN  IF n = 0 THEN {0} ELSE {n, NoValue}

\* A sample is read through its handle, never from the tree.
SampleOrData(p, what, c, data) ==
    IF ~c.snapshot THEN data
    ELSE IF ~Readable(p, what.handle) \/ SnapshotOf(p, what.handle) = {} THEN NoValue
    ELSE LET e == CHOOSE e \in SnapshotOf(p, what.handle) : TRUE
         IN  From(e.bytes, Least(what.offset, Len(e.bytes)))

SetOffset(p, h, offset, size) ==
    [p EXCEPT !.files = [s \in FileSlots |->
        IF s \in Lookup(p, h) THEN [@[s] EXCEPT !.offset = offset, !.size = size] ELSE @[s]]]

complete_file_read(p, what, data) ==
    LET m == Unchanged(TRUE)
        Result(n) == IF n = NoValue THEN Err ELSE Ok(n)
    IN  IF what.handle = NoValue
        THEN {Completed(m, Wake(p), Result(n)) : n \in Copied(data, what.capacity)}
        ELSE LET c == file_handle(p, what.handle, {"read"}) IN
             IF c = NoValue \/ c.path # what.path \/ c.offset # what.offset
             THEN {Invalid(m, p)}
             ELSE {LET moved == IF n = NoValue THEN c.offset ELSE c.offset + n
                   IN  Completed(m, Wake(SetOffset(p, what.handle, Least(moved, c.size), c.size)),
                                 Result(n)) :
                     n \in Copied(SampleOrData(p, what, c, data), what.capacity)}

Read(p, what) ==
    IF what.handle = NoValue /\ paths_equal(what.path, MemoryPath)
    THEN UNION {complete_file_read(p, what, r) : r \in Reports \cup {NoValue}}
    ELSE LET found == IsKind(tree, what.path, "File")
             bytes == find(tree, what.path).data
         IN  complete_file_read(p, what,
                 IF found THEN From(bytes, Least(what.offset, Len(bytes))) ELSE NoValue)

\* Plausible slips: a failed write is reported before the process is woken, and
\* the observed size is not extended.
WriteErrorFirst(m, p, what) ==
    IF ~m.ok THEN Invalid(m, p)
    ELSE Completed(m, Wake(SetOffset(p, what.handle, what.offset + Len(what.data),
                                     what.offset + Len(what.data))), Ok(Len(what.data)))
complete_file_write(m, p, what) ==
    LET c == file_handle(p, what.handle, {"write"})
        end == what.offset + Len(what.data)
    IN  IF c = NoValue \/ c.path # what.path \/ c.offset # what.offset THEN Invalid(m, p)
        ELSE IF ~m.ok THEN Completed(m, Wake(p), Err)
        ELSE Completed(m, Wake(SetOffset(p, what.handle, end, IF c.size > end THEN c.size ELSE end)),
                       Ok(Len(what.data)))

Write(p, what) ==
    {complete_file_write(m, p, what) :
        m \in IF persistent_write_denied(what.path) THEN {Unchanged(FALSE)}
              ELSE mutate_vfs(WriteAtOk(tree, what.path, what.offset, what.data),
                              write_at(tree, what.path, what.offset, what.data))}

complete_file_truncate(m, p, what) ==
    LET c == file_handle(p, what.handle, {"write"})
    IN  IF ~Regular(c) \/ c.path # what.path \/ ~is_user_writable_path(c.path) THEN Invalid(m, p)
        ELSE IF ~m.ok THEN Completed(m, Wake(p), Err)
        ELSE Completed(m, Wake(SetOffset(p, what.handle, 0, 0)), Ok(0))

Truncate(p, what) ==
    {complete_file_truncate(m, p, what) :
        m \in IF persistent_write_denied(what.path) THEN {Unchanged(FALSE)}
              ELSE mutate_vfs(TruncateOk(tree, what.path), truncate(tree, what.path))}

ReadDirectory(p, what) ==
    LET m == Unchanged(TRUE)
        c == file_handle(p, what.handle, {"read"})
    IN  IF c = NoValue \/ c.path # what.path \/ c.kind # "Directory" THEN {Invalid(m, p)}
        ELSE IF ~ReadDirOk(tree, what.path) THEN {Completed(m, Wake(p), Err)}
        ELSE IF read_dir_at(tree, what.path, what.cursor) = NoValue
        THEN {Completed(m, Wake(p), Ok(0))}
        ELSE {Completed(m, Wake(p), Ok(1)), Completed(m, Wake(p), Err)}

complete_namespace_mutation(m, p, what, removes) ==
    LET c == file_handle(p, what.handle, {"manage"})
    IN  IF ~Managed(c) \/ c.path # what.parent THEN Invalid(m, p)
        ELSE [Completed(m, Wake(p), IF m.ok THEN Ok(0) ELSE Err) EXCEPT
                  !.revoked = IF m.ok /\ removes THEN what.target ELSE NoValue]

Namespace(p, what, removes) ==
    {complete_namespace_mutation(m, p, what, removes) :
        m \in IF persistent_write_denied(what.target) THEN {Unchanged(FALSE)}
              ELSE IF removes THEN mutate_vfs(RemoveOk(tree, what.target), remove(tree, what.target))
              ELSE mutate_vfs(MkdirOk(tree, what.target), mkdir(tree, what.target))}

Outcomes(p, r) ==
    CASE r.kind = "Open" -> Open(p, r.what)
      [] r.kind = "Read" -> Read(p, r.what)
      [] r.kind = "Write" -> Write(p, r.what)
      [] r.kind = "Truncate" -> Truncate(p, r.what)
      [] r.kind = "ReadDirectory" -> ReadDirectory(p, r.what)
      [] r.kind = "CreateDirectory" -> Namespace(p, r.what, FALSE)
      [] r.kind = "RemovePath" -> Namespace(p, r.what, TRUE)

\* A removal closes the handles that name the path, in every process.  A
\* plausible slip: only handles with the same spelling.
RevokedExact(p, path) ==
    LET named == {s \in FileSlots : p.files[s] # NoValue /\ p.files[s].path = path}
        gone == {p.files[s].handle : s \in named}
    IN  [p EXCEPT !.files = [s \in FileSlots |-> IF s \in named THEN NoValue ELSE @[s]],
                  !.handles = {e \in @ : e.handle \notin gone},
                  !.snapshots = {e \in @ : e.handle \notin gone}]

Revoked(p, path) ==
    LET named == {s \in FileSlots : p.files[s] # NoValue /\ paths_equal(p.files[s].path, path)}
        gone == {p.files[s].handle : s \in named}
    IN  [p EXCEPT !.files = [s \in FileSlots |-> IF s \in named THEN NoValue ELSE @[s]],
                  !.handles = {e \in @ : e.handle \notin gone},
                  !.snapshots = {e \in @ : e.handle \notin gone}]

RevokeEverywhere(table, path) ==
    [s \in ProcSlots |-> IF path = NoValue \/ table[s] = NoValue THEN table[s]
                         ELSE Revoked(table[s], path)]

complete_vfs_request ==
    /\ pending # NoValue
    /\ pending' = NoValue
    /\ IF ~vfs_request_active(pending)
       THEN answer' = NoValue /\ UNCHANGED <<tree, volume, procs>>
       ELSE LET s == pending.owner.slot IN
            \E o \in Outcomes(procs[s], pending.request) :
                /\ tree' = o.m.tree /\ volume' = o.m.volume /\ answer' = o.answer
                /\ procs' = RevokeEverywhere([procs EXCEPT ![s] = o.proc], o.revoked)
    /\ UNCHANGED started

-----------------------------------------------------------------------------
(* Processes come and go between two passes *)

launch(s) ==
    /\ procs[s] = NoValue /\ started[s] < MaxIncarnation
    /\ started' = [started EXCEPT ![s] = @ + 1]
    /\ procs' = [procs EXCEPT ![s] = NewProcess(started[s] + 1)]
    /\ answer' = NoValue
    /\ UNCHANGED <<tree, volume, pending>>

kill(s) ==
    /\ procs[s] # NoValue /\ procs[s].state # "Killed"
    /\ procs' = [procs EXCEPT ![s] = [revoke_resources(@) EXCEPT !.state = "Killed"]]
    /\ answer' = NoValue
    /\ UNCHANGED <<tree, volume, started, pending>>

reap(s) ==
    /\ procs[s] # NoValue /\ procs[s].state = "Killed"
    /\ procs' = [procs EXCEPT ![s] = NoValue]
    /\ answer' = NoValue
    /\ UNCHANGED <<tree, volume, started, pending>>

Init ==
    /\ tree = apply_snapshot(BootTree, Seeded)
    /\ \E closed \in MountModes :
           volume = [read_only |-> closed, quarantine |-> NoValue, records |-> {Seeded}]
    /\ procs = [s \in ProcSlots |-> NoValue]
    /\ started = [s \in ProcSlots |-> 0]
    /\ pending = NoValue
    /\ answer = NoValue

HandleCall(s, h) ==
    \/ \E n \in Capacities : block_file_handle_read(s, h, n)
    \/ \E d \in Payloads : block_file_handle_write(s, h, d)
    \/ block_file_handle_truncate(s, h)
    \/ \E n \in Cursors : block_directory_read(s, h, n)
    \/ \E n \in Names : \/ block_namespace_mutation(s, h, n, "CreateDirectory")
                        \/ block_namespace_mutation(s, h, n, "RemovePath")
    \/ complete_file_close(s, h)

Next ==
    \/ complete_vfs_request
    \/ \E s \in ProcSlots : launch(s) \/ kill(s) \/ reap(s)
    \/ \E s \in ProcSlots, path \in Paths, rights \in RightSets : block_file_open(s, path, rights)
    \/ \E s \in ProcSlots, path \in Paths, n \in Capacities : block_file_read(s, path, n)
    \/ \E s \in ProcSlots : Running(s) /\ \E h \in Issued(procs[s]) : HandleCall(s, h)

Spec == Init /\ [][Next]_vars

-----------------------------------------------------------------------------
(* Properties *)

Capabilities(p) == {p.files[s] : s \in {t \in FileSlots : p.files[t] # NoValue}}
Held == UNION {Capabilities(procs[s]) : s \in {t \in ProcSlots : procs[t] # NoValue}}

\* After every call, completion, revocation and kill, the registry, the file
\* table and the samples of a process name the same handles
\* (handle_table_is_consistent): no right without its capability, no sample
\* without its handle and of another length than the handle reports.
HandlesAgree ==
    \A s \in ProcSlots : procs[s] # NoValue =>
        LET p == procs[s] IN
        /\ p.handles = {[handle |-> c.handle, rights |-> c.rights] : c \in Capabilities(p)}
        /\ {[handle |-> e.handle, size |-> Len(e.bytes)] : e \in p.snapshots}
               = {[handle |-> c.handle, size |-> c.size] : c \in {d \in Capabilities(p) : d.snapshot}}
        /\ \A s1, s2 \in FileSlots : s1 # s2 /\ p.files[s1] # NoValue /\ p.files[s2] # NoValue
                                        => p.files[s1].handle # p.files[s2].handle

\* A removal revokes every handle naming the path, in every process and in
\* every spelling, before the path can be created again: an open handle always
\* designates a node of the kind it was opened as, and one with the right to
\* change it lies below /USER.
HandleNamesNode ==
    \A c \in Held :
        /\ c.snapshot \/ IsKind(tree, c.path, c.kind)
        /\ {"write", "manage"} \cap c.rights # {} => is_user_writable_directory(c.path)
        /\ "write" \in c.rights => c.kind = "File"

\* What programs see below /USER is what a mount may find: a mutation that was
\* not acknowledged is invisible, one that was is on the volume (mutate_vfs and
\* sync restore the saved tree on every outcome but Committed).
ViewIsDurable == encode_snapshot(tree) \in volume.records

\* Every record that was or may have been published mounts again on a boot
\* tree, whatever spelling programs used for the names in its paths.
RecordsMount == \A r \in volume.records : apply_snapshot(BootTree, r) # NoValue

\* A volume that was closed by a failure says so in /STORAGE.STATUS: restoring
\* the tree does not overwrite the diagnostic.
QuarantineIsPublished ==
    volume.quarantine # NoValue =>
        /\ IsKind(tree, StatusPath, "File")
        /\ find(tree, StatusPath).data = <<volume.quarantine>>

\* The tree that programs see, the record a mount would find and the published
\* diagnostic agree after every outcome of a commit.
TreeIsRecorded == ViewIsDurable /\ RecordsMount /\ QuarantineIsPublished

\* The rights were checked when the call was made, the tree is changed a pass
\* later.  Still no step changes a node unless the requester is alive, waits for
\* this very request and holds the right: WRITE in the open it asks for or in
\* the capability of the file, MANAGE in the capability of its directory.
Touched == {path \in {tree[i].path : i \in DOMAIN tree} \cup {tree'[i].path : i \in DOMAIN tree'} :
                find(tree, path) # find(tree', path) /\ ~paths_equal(path, StatusPath)}

Authorised(path) ==
    /\ is_user_writable_path(path)
    /\ pending # NoValue /\ vfs_request_active(pending)
    /\ LET r == pending.request
           p == procs[pending.owner.slot]
       IN  \/ r.kind = "Open" /\ "write" \in r.what.rights /\ paths_equal(r.what.path, path)
           \/ \E c \in Capabilities(p) : "write" \in c.rights /\ paths_equal(c.path, path)
           \/ \E c \in Capabilities(p) : "manage" \in c.rights /\ direct_child(c.path, path)

MutationIsAuthorised == [][tree' # tree => \A path \in Touched : Authorised(path)]_vars

\* docs/USERSPACE.md: "A successful operation advances the offset by exactly the
\* completed byte count".  Violated: a read advances no further than the size
\* the file had when the handle was opened.
ReadAdvances ==
    [][pending # NoValue /\ answer' # NoValue =>
           LET r == pending.request IN
           r.kind = "Read" /\ r.what.handle # NoValue /\ answer'.ok =>
               file_handle(procs'[pending.owner.slot], r.what.handle, {"read"}).offset
                   = r.what.offset + answer'.n]_vars

Waits(s) == procs[s] # NoValue /\ procs[s].state = "Waiting"
=============================================================================
