------------------------------- MODULE Vfs -------------------------------
(***************************************************************************)
(* The RAM file tree of kernel/src/vfs.rs and the path rules of            *)
(* kernel/src/path_policy.rs.  A path is the sequence of its names, the    *)
(* root is << >>; names compare through Fold, the spelling without case.   *)
(* The tree keeps its nodes in insertion order, as the array does.  Every  *)
(* caller in runtime.rs treats all VfsErrors alike, so an operation is a   *)
(* condition XOk and the tree it leaves.                                   *)
(***************************************************************************)
EXTENDS Naturals, Sequences, SequencesExt

CONSTANTS
  NoValue,        \* None
  Fold,           \* eq_ignore_ascii_case: name -> canonical name
  UserName,       \* the name of the writable directory /USER
  PathMax,        \* USER_PATH_MAX, in names
  MaxNodes,       \* MAX_NODES
  MaxFileBytes    \* MAX_FILE_BYTES

-----------------------------------------------------------------------------
(* path_policy.rs *)

FoldPath(path) == [i \in DOMAIN path |-> Fold[path[i]]]
paths_equal(left, right) == FoldPath(left) = FoldPath(right)
valid_absolute_path(path) == Len(path) <= PathMax

is_user_writable_directory(path) == path # << >> /\ Fold[path[1]] = UserName
is_user_writable_path(path) == Len(path) > 1 /\ is_user_writable_directory(path)

JoinOk(parent, name) == Len(parent) < PathMax
join_child_path(parent, name) == Append(parent, name)

direct_child(directory, candidate) ==
    /\ Len(candidate) = Len(directory) + 1
    /\ paths_equal(Front(candidate), directory)

-----------------------------------------------------------------------------
(* vfs.rs *)

Node(path, kind, data) == [path |-> path, kind |-> kind, data |-> data]

Matches(tree, path) == {i \in DOMAIN tree : paths_equal(tree[i].path, path)}
find_index(tree, path) == CHOOSE i \in Matches(tree, path) :
                              \A j \in Matches(tree, path) : i <= j
Exists(tree, path) == Matches(tree, path) # {}
find(tree, path) == IF Exists(tree, path) THEN tree[find_index(tree, path)] ELSE NoValue
IsKind(tree, path, kind) == Exists(tree, path) /\ find(tree, path).kind = kind

InsertOk(tree, path) ==
    /\ valid_absolute_path(path)
    /\ ~Exists(tree, path)
    /\ path = << >> \/ IsKind(tree, Front(path), "Directory")
    /\ Len(tree) < MaxNodes
insert(tree, path, kind, data) == Append(tree, Node(path, kind, data))

MkdirOk(tree, path) == InsertOk(tree, path)
mkdir(tree, path) == insert(tree, path, "Directory", << >>)

TouchOk(tree, path) == Exists(tree, path) \/ InsertOk(tree, path)
touch(tree, path) ==
    IF Exists(tree, path) THEN tree ELSE insert(tree, path, "File", << >>)

WriteData(tree, path, data) == [tree EXCEPT ![find_index(tree, path)].data = data]

WriteOk(tree, path, data) ==
    /\ Len(data) <= MaxFileBytes
    /\ IsKind(tree, path, "File") \/ InsertOk(tree, path)
write(tree, path, data) ==
    IF Exists(tree, path) THEN WriteData(tree, path, data)
    ELSE insert(tree, path, "File", data)

WriteAtOk(tree, path, offset, data) ==
    /\ IsKind(tree, path, "File")
    /\ offset <= Len(find(tree, path).data)
    /\ offset + Len(data) <= MaxFileBytes
write_at(tree, path, offset, data) ==
    LET old == find(tree, path).data
        end == offset + Len(data)
    IN  WriteData(tree, path,
            [i \in 1 .. (IF Len(old) > end THEN Len(old) ELSE end) |->
                IF i \in offset + 1 .. end THEN data[i - offset] ELSE old[i]])

TruncateOk(tree, path) == IsKind(tree, path, "File")
truncate(tree, path) == WriteData(tree, path, << >>)

RemoveOk(tree, path) ==
    /\ path # << >> /\ Exists(tree, path)
    /\ IsKind(tree, path, "Directory") =>
           \A i \in DOMAIN tree : ~direct_child(find(tree, path).path, tree[i].path)
remove(tree, path) == RemoveAt(tree, find_index(tree, path))

\* The cursor counts direct children in insertion order.
Children(tree, directory) ==
    SelectSeq(tree, LAMBDA node : node.path # << >> /\ direct_child(directory, node.path))
ReadDirOk(tree, directory) == IsKind(tree, directory, "Directory")
read_dir_at(tree, directory, cursor) ==
    LET children == Children(tree, directory)
    IN  IF cursor < Len(children) THEN children[cursor + 1] ELSE NoValue

-----------------------------------------------------------------------------
(* storage_format.rs: the record of one snapshot, entry by entry *)

\* The entries below /USER in insertion order; the first name is written in its
\* canonical spelling, the others are kept as they are.
UserNodes(tree) == SelectSeq(tree, LAMBDA node : is_user_writable_path(node.path))

encode_snapshot(tree) ==
    LET nodes == UserNodes(tree)
    IN  [i \in DOMAIN nodes |->
            [nodes[i] EXCEPT !.path = <<UserName>> \o Tail(nodes[i].path)]]

\* A record holds at least one entry.
EncodeOk(tree) == UserNodes(tree) # << >>

ValidEntry(record, i) ==
    LET path == record[i].path IN
    /\ path[1] = UserName /\ Len(path) > 1 /\ valid_absolute_path(path)
    /\ Len(record[i].data) <= MaxFileBytes
    /\ \A j \in 1 .. i - 1 : ~paths_equal(record[j].path, path)
    /\ \/ Front(path) = <<UserName>>
       \/ \E j \in 1 .. i - 1 : /\ record[j].kind = "Directory"
                                 /\ paths_equal(record[j].path, Front(path))

validate_snapshot(record) ==
    /\ Len(record) \in 1 .. MaxNodes - 2
    /\ \A i \in DOMAIN record : ValidEntry(record, i)

\* Entries are inserted one by one; NoValue is the error that discards them all.
ApplyEntry(tree, node) ==
    IF tree = NoValue \/ Exists(tree, node.path) THEN NoValue
    ELSE IF ~InsertOk(tree, node.path) THEN NoValue
    ELSE insert(tree, node.path, node.kind, node.data)

apply_snapshot(tree, record) ==
    IF validate_snapshot(record) THEN FoldLeft(ApplyEntry, tree, record) ELSE NoValue
=============================================================================
