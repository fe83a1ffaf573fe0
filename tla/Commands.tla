----------------------------- MODULE Commands -----------------------------
(* The commands of the Ring 3 shell: each is a sequence of system calls, and *)
(* between two of them other programs write the same files and the shell's   *)
(* children end.  The kernel's side of a call is reduced to what the shell   *)
(* sees of it; modules Files and ProcessManager hold the rest.               *)
EXTENDS Naturals, Sequences, SequencesExt, FiniteSets, FiniteSetsExt

CONSTANTS
    Arguments,      \* paths typed: [slash, long, parts]
    Order,          \* the paths, in the order of the tree
    Tree,           \* the entries there are at first: path -> [kind, bytes] or NoValue
    Texts,          \* texts typed
    Foreign,        \* what another program may put into a file
    MaxFileBytes,
    FileBuffer,     \* length of file_buffer
    LineCapacity,   \* LINE_CAPACITY
    JOB_CAPACITY,
    ProcessHandles, \* handle values of the kernel
    MaxJobId,       \* bound: jobs started
    MaxCalls,       \* bound: calls of a command
    NoValue

VARIABLES
    entries,    \* path -> [kind, bytes], or NoValue
    handle,     \* open file handles of the shell: a sequence of [path, offset, size]
    children,   \* process handle -> "running" or "ended"
    jobs,       \* the table: slot -> [id, handle], or NoValue
    next_job_id,
    shell,      \* [command, at, ok, cursor, output], or NoValue between commands
    console,    \* lines printed by the command
    done,       \* history: the command
    said,       \* the status or error line it ended with
    before,     \* history: the entries when the command began
    disturbed,  \* history: another program wrote since
    calls       \* history: calls of the command

vars == <<entries, handle, children, jobs, next_job_id, shell, console, done, said, before,
          disturbed, calls>>

NewLine == "newline"
User == <<"USER">>
Slots == 1..JOB_CAPACITY
Paths == DOMAIN Tree
IsFile(e) == e # NoValue /\ e.kind = "file"
IsDirectory(e) == e # NoValue /\ e.kind = "directory"
EmptyFile == [kind |-> "file", bytes |-> <<>>]
Writable(path) == path # User /\ path # <<>> /\ path[1] = "USER"

Init ==
    /\ entries = Tree /\ handle = <<>> /\ children = <<>>
    /\ jobs = [s \in Slots |-> NoValue] /\ next_job_id = 1
    /\ shell = NoValue /\ console = <<>> /\ said = "" /\ done = NoValue
    /\ before = Tree /\ disturbed = FALSE /\ calls = 0

(***************************************************************************)
(* Command line                                                            *)
(***************************************************************************)
Verbs == {"ls", "cat", "stat", "touch", "mkdir", "rm"}

\* A line: a verb and what follows the first blank, if there is one.
Typed ==
    [verb : {"ls", "cat", "write", "wait", "run", "ps", "echo", "other"}, argument : {NoValue}]
    \cup [verb : Verbs, argument : Arguments]
    \cup [verb : {"write", "append"}, argument : [path : Arguments, text : Texts \cup {<<>>}]]
    \cup [verb : {"kill", "wait"}, argument : 0..MaxJobId]
    \cup [verb : {"run"}, argument : {"init", "init hold", "init other"}]
    \cup [verb : {"ps", "echo"}, argument : {"text"}]

Root == [slash |-> TRUE, long |-> FALSE, parts |-> <<>>]

\* ls alone lists the root; a word that is missing or too many is no command.
parse(line) ==
    LET verb == line.verb
        argument == line.argument
    IN  CASE verb = "ls" /\ argument = NoValue -> [verb |-> "ls", path |-> Root]
          [] verb = "ps" /\ argument = NoValue -> [verb |-> "ps"]
          [] verb \in Verbs /\ argument # NoValue -> [verb |-> verb, path |-> argument]
          [] verb \in {"write", "append"} /\ argument # NoValue ->
               [verb |-> verb, path |-> argument.path, text |-> argument.text]
          [] verb = "run" /\ argument \in {"init", "init hold"} -> [verb |-> "run"]
          [] verb \in {"kill", "wait"} /\ argument # NoValue -> [verb |-> verb, id |-> argument]
          [] verb = "echo" /\ argument # NoValue -> [verb |-> "echo"]
          [] OTHER -> [verb |-> "unknown"]

\* A path without a slash in front is one of the root.
absolute_path(a) ==
    IF ~a.slash /\ (a.parts = <<>> \/ a.long) THEN NoValue ELSE a.parts

split_parent(path) ==
    IF path = NoValue \/ path = <<>> THEN NoValue
    ELSE [parent |-> Front(path), name |-> Last(path)]

Path == absolute_path(shell.command.path)

(***************************************************************************)
(* Calls of the kernel                                                     *)
(***************************************************************************)
Opens(path, rights) ==
    /\ path \in Paths
    /\ CASE rights = {"read"} -> entries[path] # NoValue
         [] "write" \in rights -> Writable(path) /\ ~IsDirectory(entries[path])
         [] "manage" \in rights ->
              IsDirectory(entries[path]) /\ (path = User \/ Writable(path))

Top == handle[Len(handle)]
Contents(h) == IF IsFile(entries[h.path]) THEN entries[h.path].bytes ELSE <<>>

\* The bytes from the cursor on, as many as the buffer holds.
Available(h) ==
    LET bytes == Contents(h)
        from == Min({h.offset, Len(bytes)})
    IN  SubSeq(bytes, from + 1, Min({from + FileBuffer, Len(bytes)}))

\* The cursor of a reader does not pass the size the handle knows.
Advanced(h, n) == [h EXCEPT !.offset = Min({@ + n, h.size})]

Wrote(h, n) == [h EXCEPT !.offset = @ + n, !.size = Max({@, h.offset + n})]

Overwritten(bytes, offset, data) ==
    SubSeq(bytes, 1, offset) \o data \o SubSeq(bytes, offset + Len(data) + 1, Len(bytes))

Children(path) ==
    SelectSeq(Order, LAMBDA p : p # <<>> /\ Front(p) = path /\ entries[p] # NoValue)

(***************************************************************************)
(* Steps of a command                                                      *)
(***************************************************************************)
Called == calls < MaxCalls /\ calls' = calls + 1

At(verbs, place) == shell # NoValue /\ shell.command.verb \in verbs /\ shell.at = place

Goes(place, ok) == shell' = [shell EXCEPT !.at = place, !.ok = ok] /\ UNCHANGED said

\* The command is over and its status or error is written.
Ends(line) == shell' = NoValue /\ said' = line /\ UNCHANGED console

Same == UNCHANGED <<children, jobs, next_job_id, before, disturbed>>

\* Opening: a refused path or call ends the command.  A file opened for writing
\* is created when it is not there.
open_file_with_rights(verbs, path, rights, place, denied) ==
    /\ At(verbs, "open")
    /\ \/ Ends(denied) /\ UNCHANGED <<entries, handle>>
       \/ /\ path # NoValue /\ Opens(path, rights)
          /\ entries' = IF "write" \in rights /\ entries[path] = NoValue
                        THEN [entries EXCEPT ![path] = EmptyFile] ELSE entries
          /\ handle' = Append(handle, [path |-> path, offset |-> 0,
                           size |-> IF IsFile(entries'[path]) THEN Len(entries'[path].bytes) ELSE 0])
          /\ Goes(place, TRUE) /\ UNCHANGED console
    /\ Called /\ Same

\* The kernel closes every valid handle, so the shell never sees a close fail.
close_handle(verbs, ended, failed) ==
    /\ At(verbs, "close")
    /\ handle' = Front(handle)
    /\ IF shell.ok THEN Ends(ended) ELSE Ends(failed)
    /\ Called /\ Same /\ UNCHANGED entries

\* A directory is neither read as a file nor written.
Fails(place) == Goes(place, FALSE) /\ UNCHANGED <<entries, handle>>

truncate_handle ==
    \/ Fails("close")
    \/ /\ IsFile(entries[Top.path])
       /\ entries' = [entries EXCEPT ![Top.path] = EmptyFile]
       /\ handle' = [handle EXCEPT ![Len(handle)] = [@ EXCEPT !.offset = 0, !.size = 0]]
       /\ Goes("write", TRUE)

\* Reads until nothing is left.
advance_to_end ==
    \/ Fails("close")
    \/ /\ IsFile(entries[Top.path]) /\ UNCHANGED entries
       /\ LET n == Len(Available(Top))
          IN  /\ handle' = [handle EXCEPT ![Len(handle)] = Advanced(@, n)]
              /\ Goes(IF n = 0 THEN "write" ELSE "change", TRUE)

write_handle ==
    \/ Fails("close")
    \/ /\ IsFile(entries[Top.path]) /\ Top.offset <= Len(Contents(Top))
       /\ Top.offset + Len(shell.command.text) <= MaxFileBytes
       /\ entries' = [entries EXCEPT ![Top.path].bytes =
                         Overwritten(@, Top.offset, shell.command.text)]
       /\ handle' = [handle EXCEPT ![Len(handle)] = Wrote(@, Len(shell.command.text))]
       /\ Goes("close", TRUE)

\* write and append.
change_file ==
    \/ open_file_with_rights({"write", "append"}, Path, {"read", "write"}, "change", "denied")
    \/ /\ At({"write", "append"}, "change") /\ Called /\ Same /\ UNCHANGED console
       /\ IF shell.command.verb = "write" THEN truncate_handle ELSE advance_to_end
    \/ /\ At({"write", "append"}, "write") /\ Called /\ Same /\ UNCHANGED console
       /\ write_handle
    \/ close_handle({"write", "append"}, "changed", "file error")

touch_file ==
    \/ open_file_with_rights({"touch"}, Path, {"read", "write"}, "close", "denied")
    \/ close_handle({"touch"}, "touched", "denied")

stat_path ==
    \/ open_file_with_rights({"stat"}, Path, {"read"}, "stat", "file error")
    \/ /\ At({"stat"}, "stat") /\ Called /\ Same /\ UNCHANGED <<entries, handle, console>>
       /\ Goes("close", FALSE) \/ (entries[Top.path] # NoValue /\ Goes("close", TRUE))
    \/ close_handle({"stat"}, "shown", "file error")

\* mkdir and rm work through a handle of the directory above.
mutate_namespace ==
    LET split == split_parent(Path)
        verbs == {"mkdir", "rm"}
        path == Append(split.parent, split.name)
    IN  \/ /\ At(verbs, "open") /\ split = NoValue
           /\ Ends("denied") /\ Called /\ Same /\ UNCHANGED <<entries, handle>>
        \/ /\ At(verbs, "open") /\ split # NoValue
           /\ open_file_with_rights(verbs, split.parent, {"read", "manage"}, "mutate", "denied")
        \/ /\ At(verbs, "mutate") /\ Called /\ Same /\ UNCHANGED <<handle, console>>
           /\ \/ Goes("close", FALSE) /\ UNCHANGED entries
              \/ /\ path \in Paths
                 /\ IF shell.command.verb = "mkdir" THEN entries[path] = NoValue
                    ELSE entries[path] # NoValue
                 /\ entries' = [entries EXCEPT ![path] =
                       IF shell.command.verb = "mkdir" THEN [kind |-> "directory"] ELSE NoValue]
                 /\ Goes("close", TRUE)
        \/ close_handle(verbs, "mutated", "denied")

\* One entry for each call, at a cursor that counts them.
list_directory ==
    \/ open_file_with_rights({"ls"}, Path, {"read"}, "list", "directory error")
    \/ /\ At({"ls"}, "list") /\ Called /\ Same /\ UNCHANGED <<entries, handle>>
       /\ LET children_seen == Children(Top.path)
          IN  \/ Goes("close", FALSE) /\ UNCHANGED console
              \/ /\ IsDirectory(entries[Top.path]) /\ shell.cursor >= Len(children_seen)
                 /\ Goes("close", TRUE) /\ UNCHANGED console
              \/ /\ IsDirectory(entries[Top.path]) /\ shell.cursor < Len(children_seen)
                 /\ console' = Append(console, Last(children_seen[shell.cursor + 1]))
                 /\ shell' = [shell EXCEPT !.cursor = @ + 1] /\ UNCHANGED said
    \/ close_handle({"ls"}, "end", "directory error")

\* A byte of a file being printed: a full line goes out before it, and an
\* empty line is not printed.
Printed(state, byte) ==
    LET full == byte = NewLine \/ Len(state.output) = LineCapacity
        out == IF full /\ state.output # <<>> THEN Append(state.lines, state.output) ELSE state.lines
        rest == IF full THEN <<>> ELSE state.output
    IN  [lines |-> out, output |-> IF byte = NewLine THEN rest ELSE Append(rest, byte)]

print_file ==
    \/ open_file_with_rights({"cat"}, Path, {"read"}, "print", "file error")
    \/ /\ At({"cat"}, "print") /\ Called /\ Same /\ UNCHANGED entries
       /\ LET data == Available(Top)
              after == FoldLeft(Printed, [lines |-> console, output |-> shell.output], data)
          IN  \/ Goes("close", FALSE) /\ UNCHANGED <<handle, console>>
              \/ /\ IsFile(entries[Top.path]) /\ data = <<>>
                 /\ console' = IF shell.output = <<>> THEN console ELSE Append(console, shell.output)
                 /\ Goes("close", TRUE) /\ UNCHANGED handle
              \/ /\ IsFile(entries[Top.path]) /\ data # <<>>
                 /\ handle' = [handle EXCEPT ![Len(handle)] = Advanced(@, Len(data))]
                 /\ console' = after.lines /\ shell' = [shell EXCEPT !.output = after.output]
                 /\ UNCHANGED said
    \/ close_handle({"cat"}, "end", "file error")

(***************************************************************************)
(* Jobs                                                                    *)
(***************************************************************************)
JobLeft == UNCHANGED <<entries, handle, before, disturbed>>

\* The first free slot of the table takes the child that the kernel made; its
\* state is asked for afterwards and only printed.
launch_job ==
    \/ /\ At({"run"}, "open") /\ Called /\ JobLeft
       /\ LET free == {s \in Slots : jobs[s] = NoValue}
          IN  \/ Ends("failed") /\ UNCHANGED <<children, jobs, next_job_id>>
              \/ \E h \in ProcessHandles \ DOMAIN children :
                    /\ free # {} /\ Cardinality(DOMAIN children) < JOB_CAPACITY
                    /\ children' = [c \in DOMAIN children \cup {h} |->
                                       IF c = h THEN "running" ELSE children[c]]
                    /\ jobs' = [jobs EXCEPT ![Min(free)] = [id |-> next_job_id, handle |-> h]]
                    /\ next_job_id' = next_job_id + 1
                    /\ Goes("status", TRUE) /\ UNCHANGED console
    \/ /\ At({"run"}, "status") /\ Called /\ JobLeft
       /\ Ends("started") /\ UNCHANGED <<children, jobs, next_job_id>>

\* One question for each job, in the order of the table.
list_jobs ==
    LET rest == {s \in Slots : s > shell.cursor /\ jobs[s] # NoValue}
    IN  /\ At({"ps"}, "open") /\ Called /\ JobLeft /\ UNCHANGED <<children, jobs, next_job_id>>
        /\ IF rest = {}
           THEN Ends("end")
           ELSE LET job == jobs[Min(rest)]
                IN  /\ console' = Append(console, <<job.id,
                           IF job.handle \in DOMAIN children THEN children[job.handle]
                           ELSE "unavailable">>)
                    /\ shell' = [shell EXCEPT !.cursor = Min(rest)] /\ UNCHANGED said

\* Mutant: a killed job leaves the table although nobody waited for it.
ControlForgets ==
    LET id == shell.command.id
        slots == {s \in Slots : jobs[s] # NoValue /\ jobs[s].id = id}
        h == jobs[Min(slots)].handle
    IN  /\ At({"kill"}, "open") /\ Called /\ JobLeft /\ UNCHANGED <<next_job_id, children>>
        /\ slots # {} /\ children[h] = "running"
        /\ jobs' = [jobs EXCEPT ![Min(slots)] = NoValue] /\ Ends("killed")

\* kill and wait: an identifier of zero is no identifier, an ended child cannot
\* be killed, a running one not be waited for, and the wait that takes the
\* child's result frees its slot.
control_job ==
    LET id == shell.command.id
        slots == {s \in Slots : jobs[s] # NoValue /\ jobs[s].id = id}
        h == jobs[Min(slots)].handle
        reap == shell.command.verb = "wait"
    IN  /\ At({"kill", "wait"}, "open") /\ Called /\ JobLeft /\ UNCHANGED next_job_id
        /\ IF id = 0 \/ slots = {}
           THEN Ends("no job") /\ UNCHANGED <<children, jobs>>
           ELSE \/ /\ h \notin DOMAIN children
                   /\ Ends("failed") /\ UNCHANGED <<children, jobs>>
                \/ /\ h \in DOMAIN children /\ (children[h] = "running") = reap
                   /\ Ends("unavailable") /\ UNCHANGED <<children, jobs>>
                \/ /\ h \in DOMAIN children /\ children[h] = "ended" /\ reap
                   /\ children' = [c \in DOMAIN children \ {h} |-> children[c]]
                   /\ jobs' = [jobs EXCEPT ![Min(slots)] = NoValue] /\ Ends("reaped")
                \/ /\ h \in DOMAIN children /\ children[h] = "running" /\ ~reap
                   /\ children' = [children EXCEPT ![h] = "ended"]
                   /\ Ends("killed") /\ UNCHANGED jobs

(***************************************************************************)
(* Specification                                                           *)
(***************************************************************************)
\* What is answered without a call: a text to repeat, no command, and a write
\* without a path or a text.
Answer(command) ==
    CASE command.verb = "echo" -> "text"
      [] command.verb = "unknown" -> "unknown command"
      [] command.verb \in {"write", "append"} ->
           IF command.text = <<>> \/ (~command.path.slash /\ command.path.parts = <<>>)
           THEN "usage" ELSE ""
      [] OTHER -> ""

execute(line) ==
    LET command == parse(line)
    IN  /\ shell = NoValue
        /\ command.verb = "run" => next_job_id <= MaxJobId
        /\ said' = Answer(command)
        /\ shell' = IF said' # "" THEN NoValue
                    ELSE [command |-> command, at |-> "open", ok |-> FALSE, cursor |-> 0,
                          output |-> <<>>]
        /\ console' = <<>> /\ before' = entries /\ disturbed' = FALSE /\ calls' = 0
        /\ done' = command
        /\ UNCHANGED <<entries, handle, children, jobs, next_job_id>>

\* Another program replaces, creates or removes a file; once in a command.
Interferes ==
    \E path \in Paths, bytes \in Foreign \cup {NoValue} :
        /\ Writable(path) /\ ~IsDirectory(entries[path]) /\ shell # NoValue /\ ~disturbed
        /\ entries' = [entries EXCEPT ![path] =
                          IF bytes = NoValue THEN NoValue ELSE [kind |-> "file", bytes |-> bytes]]
        /\ disturbed' = TRUE
        /\ UNCHANGED <<handle, children, jobs, next_job_id, shell, console, said, done, before, calls>>

\* A child ends by itself.
ChildEnds ==
    \E h \in DOMAIN children :
        /\ children[h] = "running" /\ children' = [children EXCEPT ![h] = "ended"]
        /\ UNCHANGED <<entries, handle, jobs, next_job_id, shell, console, said, done, before,
                       disturbed, calls>>

Runs ==
    /\ \/ change_file \/ touch_file \/ stat_path \/ mutate_namespace \/ list_directory
       \/ print_file \/ launch_job \/ list_jobs \/ control_job
    /\ UNCHANGED done

Next ==
    \/ \E line \in Typed : execute(line)
    \/ Runs
    \/ Interferes
    \/ ChildEnds

Spec == Init /\ [][Next]_vars

(***************************************************************************)
(* Property                                                                *)
(***************************************************************************)
\* What a file looks like on the console: its lines without the empty ones,
\* each cut into pieces of the capacity.
Pieces(bytes) ==
    LET ends == {i \in 1..Len(bytes) + 1 : i > Len(bytes) \/ bytes[i] = NewLine}
        start(i) == Max({0} \cup {e \in ends : e < i})
        within == {i \in 1..Len(bytes) : bytes[i] # NewLine
                                          /\ (i - start(i) - 1) % LineCapacity = 0}
        until(i) == Min({Min({e \in ends : e > i}) - 1, i + LineCapacity - 1})
    IN  [k \in 1..Cardinality(within) |->
            LET i == CHOOSE j \in within : Cardinality({m \in within : m <= j}) = k
            IN  SubSeq(bytes, i, until(i))]

\* What the last line of a command promises about the file it named.
Promised(c) ==
    LET path == absolute_path(c.path)
        e == entries[path]
        old == IF IsFile(before[path]) THEN before[path].bytes ELSE <<>>
    IN  CASE said = "changed" -> e.bytes = IF c.verb = "write" THEN c.text ELSE old \o c.text
          [] said = "touched" -> e.kind = "file" /\ e.bytes = old
          [] said = "mutated" -> IF c.verb = "mkdir" THEN e.kind = "directory" ELSE e = NoValue
          [] said = "end" /\ c.verb = "cat" -> console = Pieces(e.bytes)
          [] said = "end" /\ c.verb = "ls" ->
               console = [i \in DOMAIN Children(path) |-> Last(Children(path)[i])]
          [] OTHER -> \/ path = NoValue \/ path \notin Paths \/ e = before[path]
                      \/ IsFile(e) /\ e.bytes = <<>> /\ before[path] = NoValue
                      \/ IsFile(e) /\ e.bytes = <<>> /\ c.verb = "write"

\* Between commands (execute and the functions it calls) the shell holds no
\* file handle, and its job table names each of its children exactly once, so
\* that every child can still be killed and waited for.  What a command says
\* of a file is so when no other program wrote to it meanwhile; a command that
\* fails leaves the file alone, but for an empty file that it created and for
\* a write that got no further than its truncation.  The number of its calls
\* is bounded by the size of what it reads.
ShellIsFaithful ==
    /\ shell = NoValue =>
         /\ handle = <<>>
         /\ {jobs[s].handle : s \in {t \in Slots : jobs[t] # NoValue}} = DOMAIN children
         /\ \A s, t \in Slots : jobs[s] # NoValue /\ jobs[t] # NoValue /\ s # t =>
                jobs[s].handle # jobs[t].handle /\ jobs[s].id # jobs[t].id
         /\ done # NoValue /\ ~disturbed /\ done.verb \in Verbs \cup {"write", "append"} =>
                Promised(done)
         /\ done # NoValue /\ done.verb = "ps" => Len(console) = Cardinality(DOMAIN children)
    /\ ~disturbed /\ shell # NoValue /\ shell.command.verb \in {"cat", "write", "append"} =>
         calls <= 4 + (IF Path \in Paths /\ IsFile(before[Path]) THEN Len(before[Path].bytes) ELSE 0)
=============================================================================
