------------------------------ MODULE MCFiles ------------------------------
(* Three small systems for TLC, one for each question: the constants of the  *)
(* configuration describe two processes that read and write a file.          *)
EXTENDS Files

VARIABLE question

Spellings == [n \in {"USER", "user", "a", "A", "d", "D", "MEMORY", "STATUS"} |->
                CASE n = "user" -> "USER" [] n = "A" -> "a" [] n = "D" -> "d" [] OTHER -> n]

Boot == <<Node(<< >>, "Directory", << >>), Node(<<"USER">>, "Directory", << >>),
          Node(<<"STATUS">>, "File", <<"healthy">>)>>
OneFile == <<Node(<<"USER", "a">>, "File", <<1>>)>>
OneDirectory == <<Node(<<"USER", "d">>, "Directory", << >>)>>

NamePaths == {<<"USER">>, <<"user", "D">>, <<"USER", "d", "a">>, <<"user", "D", "A">>}
DataPaths == {<<"USER", "a">>, <<"MEMORY">>}
ReadWrite == {"read", "write"}
ReadManage == {"read", "manage"}
DataRights == {{"read"}, ReadWrite}
OneByte == {<<1>>}
Samples == {<<1, 2>>, <<3>>}
Memory == <<"MEMORY">>
Status == <<"STATUS">>

\* Two processes create and remove names in two spellings.
NameOps == INSTANCE Files
    WITH Paths <- NamePaths, Names <- {"a", "D"}, RightSets <- {ReadWrite, ReadManage},
         Payloads <- {}, Capacities <- {}, Cursors <- {}, MountModes <- {FALSE},
         Seeded <- OneDirectory, Reports <- {}

\* One process does so for longer.
TreeOps == INSTANCE Files
    WITH ProcSlots <- {1}, RequestMax <- 6, Paths <- NamePaths, Names <- {"a", "D"},
         RightSets <- {ReadWrite, ReadManage}, Payloads <- {}, Capacities <- {},
         Cursors <- {}, MountModes <- {FALSE}, Seeded <- OneDirectory, Reports <- {}

MCInit ==
    \/ question = "data" /\ Init
    \/ question = "names" /\ NameOps!Init
    \/ question = "tree" /\ TreeOps!Init

MCNext ==
    /\ \/ question = "data" /\ Next
       \/ question = "names" /\ NameOps!Next
       \/ question = "tree" /\ TreeOps!Next
    /\ UNCHANGED question

\* The coordinator runs for ever and takes the pending request first in every
\* pass: WF_vars(complete_vfs_request), the only step that empties pending.
MCSpec ==
    /\ MCInit /\ [][MCNext]_<<vars, question>>
    /\ []<>(question = "data" => pending = NoValue \/ ~ENABLED complete_vfs_request)

\* An open handle designates the node it was opened for, and the tables of a
\* process agree (HandleNamesNode, HandlesAgree), whatever another process
\* removes and creates.
HandlesAreSound ==
    CASE question = "data" -> HandleNamesNode /\ HandlesAgree
      [] question = "names" -> NameOps!HandleNamesNode /\ NameOps!HandlesAgree
      [] question = "tree" -> TreeOps!HandleNamesNode /\ TreeOps!HandlesAgree

\* A process that waits for a file operation is answered, or ends: no request is
\* lost, and no completion is refused by the second validation after the tree
\* was changed.
RequestIsAnswered ==
    \A s \in {1, 2} : (question = "data" /\ Waits(s)) ~> (question = "data" => ~Waits(s))
=============================================================================
