----------------------------- MODULE MCMachine -----------------------------
(* The machine below and around the processes, for TLC: the handoff from the  *)
(* loader, the images, the boot page tables, the frames, the system calls,    *)
(* the serial terminal, the commands of the shell, the network clients and    *)
(* the IPv6 host.  One question is asked in a behaviour; v1 to v12 are the    *)
(* variables of the component it is asked of.                                 *)
EXTENDS Syscalls, FiniteSets

VARIABLES question, v1, v2, v3, v4, v5, v6, v7, v8, v9, v10, v11, v12

-----------------------------------------------------------------------------
(* Frames: an allocation can fail at every point of a build, for want of a    *)
(* frame, of a ledger record or of quota.                                     *)
Planned(a, w, x, f, d) ==
    [address |-> a, writable |-> w, executable |-> x, file |-> f, data |-> d]

Frames == INSTANCE Memory
    WITH state <- v1, active_root <- v2, build <- v3, processes <- v4,
         FrameCounts <- {8, 10, 12, 13, 14, 15}, WordSize <- 4, KernelFrames <- 1,
         Capacities <- {9, 13, 16}, KernelReserve <- 1, UserFrameLimit <- 7,
         MaxOwners <- 3, Depth <- 2, Index <- {0, 1},
         Image <- <<Planned(<<0, 0, 0>>, FALSE, TRUE, TRUE, FALSE),
                    Planned(<<0, 0, 1>>, TRUE, FALSE, TRUE, TRUE)>>,
         Stack <- <<Planned(<<0, 1, 0>>, TRUE, FALSE, FALSE, FALSE)>>

-----------------------------------------------------------------------------
(* Boot page tables: firmware trees of large and small leaves over eight      *)
(* pages, the kernel image in pages 2 to 7, its stack in 4 to 6; RAM behind   *)
(* it, and in one tree a page of the user half.                               *)
Leaf(p, f) == [leaf |-> TRUE, address |-> p, flags |-> f]
Two(a, b) == [i \in 0..1 |-> IF i = 0 THEN a ELSE b]
Table(a, b, f) == [leaf |-> FALSE, slots |-> Two(a, b), flags |-> f]
All == {"W", "X", "U"}
FlagSets == {{"W", "X"}, All}
Small(p, f) == Table(Leaf(p, f), Leaf(p + 1, f), All)
Pair(p) == {Leaf(p, All), Small(p, {"W", "X"})}
Low ==
    {Leaf(0, f) : f \in FlagSets} \union
    {Table(a, b, All) : a \in Pair(0) \union {NoValue, Small(0, {})},
                        b \in Pair(2) \union {Leaf(4, {"W", "X"})}}
High ==
    {Leaf(4, f) : f \in FlagSets} \union
    {Table(a, b, {"W", "X"}) : a \in Pair(4), b \in Pair(6) \union {Small(6, {"W"})}}
Ram == Table(Leaf(8, All), NoValue, All)
Trees ==
    {Two(Table(l, h, All), Table(Ram, NoValue, All)) : l \in Low, h \in High} \union
    {Two(Table(Leaf(0, All), Leaf(4, All), All), Table(Ram, Leaf(12, All), All))}
Stack(g, n) == [guard |-> g, top |-> g + n + 1]

Boot == INSTANCE BootPaging
    WITH firmware <- v1, kernel <- v2, free <- v3, frames <- v4, phase <- v5,
         todo <- v6, halted <- v7, layout <- v8,
         Levels <- 4, Fan <- 2, Firmware <- Trees, Frees <- {1, 3, 5, 7, 8, 9, 10, 12},
         Text <- {2}, Rodata <- {3}, Data <- 4..7, Idt <- 7,
         Layouts <- {[stacks |-> <<Stack(4, 1)>>, rsp |-> 5],
                     [stacks |-> <<Stack(4, 1), Stack(5, 1)>>, rsp |-> 6],
                     [stacks |-> <<Stack(4, 1)>>, rsp |-> 4]},
         Usable <- {0, 8, 9}, UserBase <- 12, Bits <- 2

-----------------------------------------------------------------------------
(* Handoff: every assignment of four types to seven pages, well formed or    *)
(* with one malformed descriptor; two processors reach the entry point.       *)
Descriptor(s, n, aligned) ==
    [type |-> "conventional", runtime |-> FALSE, start |-> s, pages |-> n, aligned |-> aligned]

Handover == INSTANCE Handoff
    WITH memory <- v1, map <- v2, info <- v3, pc <- v4, claim <- v5, cpu <- v6,
         allocator <- v7,
         Top <- 7, Types <- {"conventional", "boot services", "runtime", "hole"}, Kernel <- {2, 3},
         Cpus <- {"bsp", "ap"}, Bsp <- "bsp", MaxRegions <- 5, Capacity <- 2,
         Malformed <- {Descriptor(1, 2, TRUE), Descriptor(6, 2, TRUE),
                       Descriptor(2, 0, TRUE), Descriptor(4, 1, FALSE)}

-----------------------------------------------------------------------------
(* Images: two segments of every shape around the page and window boundaries. *)
Segment(fl, a, m, z, o, al) ==
    [flags |-> fl, address |-> a, physical |-> a, memory |-> m, size |-> z, offset |-> o,
     align |-> al]
Codes(A) ==
    {Segment(fl, a, m, z, o, 2) : fl \in {{"R", "X"}, {"R", "W", "X"}}, a \in A,
                                  m \in {1, 3}, z \in {0, 1, 3}, o \in {0, 2}}
Datas(A) ==
    {Segment(fl, a, m, z, o, al) : fl \in {{"R"}, {"R", "W"}}, a \in A, m \in {2, 3},
                                   z \in {0, 2, 3}, o \in {0, 2, 3}, al \in {2, 4}}
ElfFile(c, d, e, r) ==
    [header |-> TRUE, entry |-> e, segments |-> <<c, d>>, relro |-> r]

Loading == INSTANCE Images
    WITH file <- v1, loader <- v2, plan <- v3, loaded <- v4,
         Page <- 2, Limit <- 14, FileLen <- 5, UserCode <- 2, UserData <- 4,
         StackGuard <- 8, DataHeader <- 2, ExecutablePages <- 1, KernelBase <- 2,
         MaxImage <- 6, MaxSegments <- 2, Sources <- {0, 6, 8, 10}, Destinations <- {2, 4},
         UserFiles <- {ElfFile(c, d, e, NoValue) :
                         c \in Codes({2, 3, 4, 6}), d \in Datas({2, 4, 6}), e \in {2, 4}},
         KernelFiles <- {ElfFile(c, d, 2, r) :
                           c \in Codes({2, 3}), d \in Datas({3, 4, 5}),
                           r \in {NoValue, Segment({"R"}, 4, 1, 1, 2, 2)}}

-----------------------------------------------------------------------------
(* System calls: addresses and lengths on both sides of every page, window and *)
(* buffer boundary; code, two data pages, a hole and a stack page.             *)
Addresses(two) ==
    {0, 1279, 1536, 1791, 1792, 65530}
        \union IF two THEN {} ELSE {1024, 1535, 1664, 2224, 2303}
CopyLengths(two) == {1, 16, 80, 128, 129} \union IF two THEN {} ELSE {0, 8, 64, 81}

Mapped == [p \in {1024, 1280, 1536, 2048} |-> p # 1024]

Others == {0, 1, 2, 255, 256, 1024, 10000, 10001, 32768}
Values(number, k) ==
    LET shape == IF number \in DOMAIN Shapes THEN Shapes[number] ELSE << >>
        needs == Needs(number, <<1, 1, 1, 1, 1, 1>>)
        buffers == {n.at : n \in {n \in needs : n.do # "capability"}}
        two == Cardinality(buffers) > 1
    IN IF k \in buffers THEN Addresses(two)
       ELSE IF k - 1 \in buffers THEN CopyLengths(two)
       ELSE IF k > Len(shape) THEN {0}
       ELSE IF two THEN {1} ELSE Others
Registers ==
    [number \in DOMAIN Shapes \union {"send"} |->
        {<<1, 0, 0, 0, 0, 1>>} \union
        {<<a, b, c, d, e, f>> :
            a \in Values(number, 1), b \in Values(number, 2), c \in Values(number, 3),
            d \in Values(number, 4), e \in Values(number, 5), f \in Values(number, 6)}]

-----------------------------------------------------------------------------
(* Serial terminal: the bytes that edit a line of two characters, with one    *)
(* line of history and a command to complete; then every byte of the decoder  *)
(* with a line of one character.                                              *)
Lines == INSTANCE Terminal
    WITH decoder <- v1, prompt <- v2, editor <- v3, shell <- v4, awaiting <- v5,
         screen <- v6, overtaken <- v7, sought <- v8,
         Chars <- {"a", " "}, Blank <- " ", Letter <- "a", Words <- {<<"a", "a">>},
         SerialBytes <- {"a", " ", "bs", "tab", "cr", "esc", "[", "A", "B", "C", "D", "H"},
         LineCapacity <- 2, HistoryCapacity <- 1, PrefixTimeout <- 1, PasteLimit <- 2

Strokes == INSTANCE Terminal
    WITH decoder <- v1, prompt <- v2, editor <- v3, shell <- v4, awaiting <- v5,
         screen <- v6, overtaken <- v7, sought <- v8,
         Chars <- {"a", " "}, Blank <- " ", Letter <- "a", Words <- {<<"a", "a">>},
         SerialBytes <- Lines!AllBytes,
         LineCapacity <- 1, HistoryCapacity <- 1, PrefixTimeout <- 1, PasteLimit <- 2

-----------------------------------------------------------------------------
(* Network clients: two operations, polled or waited for, the second answer   *)
(* longer than the buffer; sequence numbers wrap in both directions.          *)
Requests == INSTANCE Clients
    WITH config <- v1, next_port <- v2, async <- v3, waiting <- v4, wire <- v5,
         results <- v6, offered <- v7,
         Ports <- {1, 2}, SeqSpace <- 16, RETRIES <- 2, RetryTicks <- 1, Polls <- 1,
         Capacity <- 2, Lengths <- <<2, 3>>, Servers <- {"s", "t"}

-----------------------------------------------------------------------------
(* IPv6: two prefixes, lifetimes that end before and after the probes, a      *)
(* clock that may skip a tick.                                                *)
Addressing == INSTANCE Ipv6
    WITH host <- v1, age <- v2, probe <- v3, conflicted <- v4, refused <- v5, used <- v6,
         Prefixes <- {"a", "b"}, DadTicks <- 2, RsTicks <- 2, Lifetimes <- {0, 1, 5},
         MaxElapsed <- 2, MaxSolicitations <- 2

-----------------------------------------------------------------------------
(* Commands of the shell: files first, a status file of several lines and a   *)
(* file of the user; then jobs, one more than the table holds.                *)
Regular(bytes) == [kind |-> "file", bytes |-> bytes]
Folder == [kind |-> "directory"]
UserFile == <<"USER", "a">>
Status == <<"x", "newline", "newline", "x", "x", "x", "newline">>
PathOrder == << <<>>, <<"USER">>, <<"STATUS">>, UserFile >>
FirstTree ==
    [p \in {PathOrder[i] : i \in DOMAIN PathOrder} |->
        CASE p = <<"STATUS">> -> Regular(Status) [] p = UserFile -> Regular(<<"x">>)
          [] OTHER -> Folder]
Argument(slash, long, parts) == [slash |-> slash, long |-> long, parts |-> parts]

Typing == INSTANCE Commands
    WITH entries <- v1, handle <- v2, children <- v3, jobs <- v4, next_job_id <- v5,
         shell <- v6, console <- v7, done <- v8, said <- v9, before <- v10, disturbed <- v11,
         calls <- v12,
         Arguments <- {Argument(TRUE, FALSE, PathOrder[i]) : i \in DOMAIN PathOrder}
                        \union {Argument(FALSE, TRUE, UserFile), Argument(FALSE, FALSE, UserFile),
                                Argument(FALSE, FALSE, <<>>)},
         Order <- PathOrder, Tree <- FirstTree, Texts <- {<<"t">>}, Foreign <- {<<"f", "f", "f">>},
         MaxFileBytes <- 4, FileBuffer <- 2, LineCapacity <- 2, JOB_CAPACITY <- 1,
         ProcessHandles <- {1}, MaxJobId <- 0, MaxCalls <- 9

Controlling == INSTANCE Commands
    WITH entries <- v1, handle <- v2, children <- v3, jobs <- v4, next_job_id <- v5,
         shell <- v6, console <- v7, done <- v8, said <- v9, before <- v10, disturbed <- v11,
         calls <- v12,
         Arguments <- {}, Order <- << <<>> >>, Tree <- [p \in {<<>>} |-> Folder], Texts <- {},
         Foreign <- {}, MaxFileBytes <- 0, FileBuffer <- 1, LineCapacity <- 1, JOB_CAPACITY <- 2,
         ProcessHandles <- {1, 2, 3}, MaxJobId <- 3, MaxCalls <- 4

-----------------------------------------------------------------------------
Machine == <<v1, v2, v3, v4, v5, v6, v7, v8, v9, v10, v11, v12>>
NoCalls ==
    process = NoValue /\ frame = NoValue /\ copied = [kept |-> {}, written |-> {}]

MCInit ==
    \/ /\ NoCalls
       /\ v8 = NoValue /\ v9 = NoValue /\ v10 = NoValue /\ v11 = NoValue /\ v12 = NoValue
       /\ \/ question = "frames" /\ Frames!Init /\ v5 = NoValue /\ v6 = NoValue /\ v7 = NoValue
          \/ question = "handoff" /\ Handover!Init
          \/ question = "images" /\ Loading!Init /\ v5 = NoValue /\ v6 = NoValue /\ v7 = NoValue
          \/ question = "clients" /\ Requests!Init
          \/ question = "ipv6" /\ Addressing!Init /\ v7 = NoValue
    \/ /\ question = "calls" /\ Init
       /\ v1 = NoValue /\ v2 = NoValue /\ v3 = NoValue /\ v4 = NoValue
       /\ v5 = NoValue /\ v6 = NoValue /\ v7 = NoValue
       /\ v8 = NoValue /\ v9 = NoValue /\ v10 = NoValue /\ v11 = NoValue /\ v12 = NoValue
    \/ NoCalls /\ question = "commands" /\ Typing!Init
    \/ NoCalls /\ question = "jobs" /\ Controlling!Init
    \/ /\ NoCalls
       /\ v9 = NoValue /\ v10 = NoValue /\ v11 = NoValue /\ v12 = NoValue
       /\ \/ question = "boot" /\ Boot!Init
          \/ question = "lines" /\ Lines!Init
          \/ question = "keys" /\ Strokes!Init

MCNext ==
    /\ \/ /\ UNCHANGED vars
          /\ UNCHANGED <<v8, v9, v10, v11, v12>>
          /\ \/ question = "frames" /\ Frames!Next /\ UNCHANGED <<v5, v6, v7>>
             \/ question = "handoff" /\ Handover!Next
             \/ question = "images" /\ Loading!Next /\ UNCHANGED <<v5, v6, v7>>
             \/ question = "clients" /\ Requests!Next
             \/ question = "ipv6" /\ Addressing!Next /\ UNCHANGED v7
       \/ question = "calls" /\ Next /\ UNCHANGED Machine
       \/ question = "commands" /\ Typing!Next /\ UNCHANGED vars
       \/ question = "jobs" /\ Controlling!Next /\ UNCHANGED vars
       \/ /\ UNCHANGED vars
          /\ UNCHANGED <<v9, v10, v11, v12>>
          /\ \/ question = "boot" /\ Boot!Next
             \/ question = "lines" /\ Lines!Next
             \/ question = "keys" /\ Strokes!Next
    /\ UNCHANGED question

MCSpec == MCInit /\ [][MCNext]_<<question, vars, Machine>>

\* The bitmap and the grant ledger describe the same frames, and every frame a
\* process holds is granted to it and to nobody else, through every failure of a
\* build and every reclamation; no user page is writable and executable, the
\* kernel's alias of a page is writable exactly when the page is, and a frame
\* holds only its owner's data.
MemoryIsOwned ==
    question = "frames" => Frames!FramesAccounted /\ Frames!MappingsAreSealed

\* The kernel tree holds the frames taken for it and grants no more than the
\* firmware did; once sealed, each page has the permissions of its section.
BootMapIsSealed == question = "boot" => Boot!BootMapIsSealed

\* The allocator starts with RAM the firmware gave up, without the pages the
\* loader left for the kernel, and only the bootstrap processor starts it.
HandoffIsRetained == question = "handoff" => Handover!HandoffIsRetained

\* An accepted image is in memory byte for byte, with zeros around it, inside its
\* window, with one permission for each page.
ImagesLoadExactly == question = "images" => Loading!ImagesLoadExactly

\* When the shell waits for a key, the terminal's own copy of the line is the
\* line the shell edits, and it is what the screen shows unless output came
\* between a key and the shell's answer to it.
PromptMirrorsEditor ==
    /\ question = "lines" => Lines!PromptMirrorsEditor
    /\ question = "keys" => Strokes!PromptMirrorsEditor

\* An answer handed to a network client is the one given to this very operation,
\* the address in use was asked for, and every operation ends.
ClientsAreAnswered == question = "clients" => Requests!ClientsAreAnswered

\* The host uses an address only after a probe of it went unanswered for the
\* whole time, and configuration ends in bounded time.
AddressesAreVerified == question = "ipv6" => Addressing!AddressesAreVerified

\* Between commands the shell holds no file handle, its job table names its
\* children, and what a command said of a file is so.
ShellIsFaithful ==
    /\ question = "commands" => Typing!ShellIsFaithful
    /\ question = "jobs" => Controlling!ShellIsFaithful
=============================================================================
