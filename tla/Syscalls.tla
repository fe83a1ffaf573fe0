------------------------------ MODULE Syscalls ------------------------------
(* The system call boundary (kernel/src/syscall.rs, dispatch_syscall and its   *)
(* copies in kernel/src/userspace.rs, kernel/src/user_copy.rs).                *)
(*                                                                             *)
(* A call is a number and six registers.  dispatch admits it by the shape of   *)
(* its arguments alone; the arm of dispatch_syscall then checks the buffers    *)
(* and capabilities of the process and either answers in the same slice or     *)
(* leaves an event whose completion copies the result out much later.  Bytes   *)
(* are abstracted: the kernel's copies are ranges of user addresses.           *)
EXTENDS Naturals, Sequences, TLC

CONSTANTS
    WordValues, U32, U16, U8,    \* register values, and what fits a u32, a u16, a u8
    Page,                  \* PAGE_SIZE
    UserBase, UserEnd,     \* the user half
    MaxCopy,               \* MAX_COPY
    Code, Data, StackTop,  \* USER_CODE, USER_DATA, USER_STACK_TOP
    UserPages,                 \* page |-> the process may write it, for mapped pages
    Struct,                \* size of the fixed records copied out
    Inputs,                \* number |-> registers a program may pass
    NoValue

VARIABLES
    process,   \* [capability, armed, event, ended]
    frame,     \* the last call, and the answer in rax
    copied     \* [kept, written]: the ranges it made the kernel keep and write

vars == <<process, frame, copied>>

-----------------------------------------------------------------------------
(* dispatch: the admissible values of each argument; the others must be zero.  *)
Free == 0..WordValues - 1
Given == 1..WordValues - 1
Exactly(n) == {n}
UpTo(n) == 0..n
From1(n) == 1..n

TextMax == 80            \* USER_CONSOLE_TEXT_MAX, the length of FixedText
PathMax == 64
ReadMax == 128           \* USER_FILE_READ_MAX
WriteMax == 128          \* USER_FILE_WRITE_MAX, the length of FileWriteBuffer
SocketBuffer == 128      \* USER_SOCKET_BUFFER_CAPACITY

BasicShapes ==
    [ping |-> << >>, abi_version |-> << >>, exit |-> <<UpTo(U8)>>, yield |-> << >>,
     report |-> <<Given, Exactly(8)>>, write |-> <<Given, From1(80)>>,
     sleep |-> <<From1(10000)>>, wait_child |-> <<From1(U8)>>,
     system_info |-> <<Given, Exactly(Struct)>>]

FileShapes ==
    [read_file |-> <<Given, From1(64), Given, From1(ReadMax)>>,
     open_file |-> <<Given, From1(64)>>,
     read_handle |-> <<Given, Given, From1(ReadMax)>>,
     stat_handle |-> <<Given, Given, Exactly(Struct)>>,
     close_handle |-> <<Given>>,
     open_file_with_rights |-> <<Given, From1(64), From1(7)>>,
     write_handle |-> <<Given, Given, From1(WriteMax)>>]

EndpointShapes ==
    [wait_input |-> <<Given, Exactly(Struct), From1(3)>>,
     create_endpoint |-> << >>, connect_endpoint |-> <<From1(U8)>>,
     send_endpoint |-> <<Given, Free>>,
     receive_endpoint |-> <<Given, Given, Exactly(Struct)>>,
     close_endpoint |-> <<Given>>]

ConsoleShapes ==
    [console_write |-> <<Given, Given, From1(TextMax), UpTo(3)>>,
     console_set_input |-> <<Given, Free, UpTo(TextMax)>>,
     console_clear |-> <<Given>>,
     read_directory |-> <<Given, Free, Given, Exactly(Struct)>>,
     truncate_handle |-> <<Given>>]

ControlShapes ==
    [process_launch |-> <<Given, Exactly(1), {0, 1}>>,
     process_status |-> <<Given, Given, Exactly(Struct)>>,
     process_kill |-> <<Given>>,
     process_reap |-> <<Given, Given, Exactly(Struct)>>,
     create_directory |-> <<Given, Given, From1(PathMax)>>,
     remove_path |-> <<Given, Given, From1(PathMax)>>,
     network_config |-> <<Given, Exactly(Struct)>>]

Exchange == <<UpTo(U32), From1(U16), Given, From1(WriteMax), Given, From1(ReadMax)>>
SocketShapes ==
    [udp_exchange |-> Exchange, tcp_exchange |-> Exchange,
     socket_open |-> <<{1, 2}>>,
     socket_connect |-> <<Given, From1(U32), From1(U16)>>,
     socket_bind |-> <<Given, 1024..U16>>,
     socket_listen |-> <<Given, From1(2)>>,
     socket_accept |-> <<Given>>,
     socket_send |-> <<Given, Given, From1(SocketBuffer)>>,
     socket_receive |-> <<Given, Given, From1(SocketBuffer)>>,
     socket_status |-> <<Given, Given, Exactly(Struct)>>,
     socket_wait |-> <<Given, From1(63), From1(10000)>>,
     socket_shutdown |-> <<Given, From1(3)>>,
     socket_close |-> <<Given>>]

Shapes == BasicShapes @@ FileShapes @@ EndpointShapes @@ ConsoleShapes @@ ControlShapes
              @@ SocketShapes

dispatch(number, args) ==
    IF number \notin DOMAIN Shapes THEN "unknown"        \* send and receive are reserved
    ELSE LET shape == Shapes[number] IN
         IF /\ \A k \in 1..6 : args[k] \in IF k <= Len(shape) THEN shape[k] ELSE {0}
            /\ number = "console_set_input" => args[3] = 0 \/ args[2] # 0
         THEN "admitted" ELSE "invalid"

-----------------------------------------------------------------------------
(* What an arm needs of the process: a buffer at args[k], args[k + 1] to copy  *)
(* in or out, or the capability in args[1].                                    *)
In(k, how) == [do |-> how, at |-> k]
TextIn(k) == In(k, "text")          \* copy_user_text
Bytes(k) == In(k, "bytes")        \* copy_user_bytes
Name(k) == In(k, "name")          \* copy_user_path, copy_user_name
Out(k) == In(k, "out")            \* valid_user_data_buffer
Capability == In(1, "capability")

BasicNeeds == [report |-> {In(1, "u64")}, write |-> {TextIn(1)}, system_info |-> {Out(1)}]
FileNeeds ==
    [read_file |-> {Name(1), Out(3)}, open_file |-> {Name(1)}, read_handle |-> {Out(2)},
     stat_handle |-> {Out(2)}, open_file_with_rights |-> {Name(1)},
     write_handle |-> {Bytes(2)}, create_directory |-> {Name(2)}, remove_path |-> {Name(2)}]
NetworkNeeds ==
    [network_config |-> {Out(1)}, udp_exchange |-> {Bytes(3), Out(5)},
     tcp_exchange |-> {Bytes(3), Out(5)}]
SocketNeeds ==
    [socket_send |-> {Bytes(2)}, socket_receive |-> {Out(2)}, socket_status |-> {Out(2)}]
WaitNeeds == [wait_input |-> {Out(1)}, receive_endpoint |-> {Out(2)}]
ConsoleNeeds ==
    [console_write |-> {Capability, TextIn(2)}, console_set_input |-> {Capability, TextIn(2)},
     console_clear |-> {Capability}, read_directory |-> {Out(3)}]
ControlNeeds ==
    [process_launch |-> {Capability}, process_status |-> {Out(2)}, process_reap |-> {Out(2)}]

ArmNeeds == BasicNeeds @@ FileNeeds @@ NetworkNeeds @@ SocketNeeds @@ WaitNeeds
                @@ ConsoleNeeds @@ ControlNeeds

Needs(number, args) ==
    LET all == IF number \in DOMAIN ArmNeeds THEN ArmNeeds[number] ELSE {} IN
    IF number = "console_set_input" /\ args[3] = 0 THEN all \ {TextIn(2)} ELSE all

-----------------------------------------------------------------------------
(* Copies.                                                                     *)
validate_user_buffer(address, length, start, size) ==
    /\ length > 0 /\ address >= start
    /\ address + length < WordValues /\ start + size < WordValues
    /\ address + length <= start + size

(* The pages of a planned copy, or a page that never resolves.                 *)
Plan(address, length) ==
    LET end == address + length IN
    IF length > MaxCopy \/ address < UserBase \/ address >= UserEnd \/ end > UserEnd
    THEN {NoValue}
    ELSE {p * Page : p \in (address \div Page)..((end + Page - 1) \div Page) - 1}

resolve(plan, write) ==
    \A page \in plan : page \in DOMAIN UserPages /\ (write => UserPages[page])

copy_from_user(address, length, limit, start, size) ==
    /\ length <= limit
    /\ validate_user_buffer(address, length, start, size)
    /\ resolve(Plan(address, length), FALSE)

valid_user_data_buffer(address, length) ==
    /\ validate_user_buffer(address, length, Data, Page)
    /\ resolve(Plan(address, length), TRUE)

\* A read at the end of a file copies nothing: the address is checked all the same.
NoMinimum(address, length) ==
    /\ validate_user_buffer(address, length, Data, Page)
    /\ resolve(Plan(address, length), TRUE)
copy_to_user_data(address, length) ==
    /\ validate_user_buffer(address, IF length = 0 THEN 1 ELSE length, Data, Page)
    /\ resolve(Plan(address, length), TRUE)

BufferSize(need) == IF need.do = "bytes" THEN WriteMax ELSE IF need.do = "u64" THEN 8 ELSE TextMax

Met(need, args, wellformed) ==
    LET address == args[need.at]
        length == args[need.at + 1]
    IN CASE need.do = "capability" -> process.capability # 0 /\ address = process.capability
         [] need.do = "out" -> valid_user_data_buffer(address, length)
         [] need.do = "u64" -> copy_from_user(address, length, 8, Data, Page)
         [] need.do = "name" ->
                /\ copy_from_user(address, length, TextMax, Code, StackTop - Code)
                /\ wellformed
         [] OTHER -> copy_from_user(address, length, BufferSize(need), Code, StackTop - Code)

-----------------------------------------------------------------------------
Init ==
    /\ process \in [capability : {0, 1}, armed : {FALSE}, event : {NoValue}, ended : {FALSE}]
    /\ frame = NoValue
    /\ copied = [kept |-> {}, written |-> {}]

Buffers(number, args, kinds) ==
    {[address |-> args[n.at], length |-> args[n.at + 1], limit |-> BufferSize(n)] :
        n \in {n \in Needs(number, args) : n.do \in kinds}}
Kept(number, args) == Buffers(number, args, {"u64", "text", "bytes", "name"})
Outputs(number, args) == Buffers(number, args, {"out"})

Answers == {"system_info", "network_config", "udp_exchange", "tcp_exchange"}
Immediate == {"ping", "abi_version", "report", "write"} \union Answers

Answer(number, args, rax) == frame' = [number |-> number, args |-> args, rax |-> rax]
Refuse(number, args, error) ==
    /\ Answer(number, args, error)
    /\ copied' = [kept |-> {}, written |-> {}]
    /\ UNCHANGED process

(* One of the four calls answered with a record or a reply of `supplied` bytes *)
(* (NoValue: no configuration, or the exchange failed).                        *)
answer_now(number, args, supplied) ==
    LET out == CHOOSE o \in Outputs(number, args) : TRUE
        length == IF number \in {"system_info", "network_config"} \/ supplied > out.length
                  THEN out.length ELSE supplied
    IN IF supplied # NoValue /\ copy_to_user_data(out.address, length)
       THEN /\ Answer(number, args, "value")
            /\ copied' = [kept |-> Kept(number, args),
                          written |-> {[address |-> out.address, length |-> length]}]
            /\ UNCHANGED process
       ELSE Refuse(number, args, IF number = "system_info" THEN "invalid" ELSE "unavailable")

Supplies == {NoValue, 0, 1, ReadMax}
Wellformed(number, args) ==      \* whether the text copied in is a valid path or name
    IF \E n \in Needs(number, args) : n.do = "name" THEN BOOLEAN ELSE {TRUE}

dispatch_syscall(number, args) ==
    \E wellformed \in Wellformed(number, args) :
    LET verdict == dispatch(number, args)
        met == \A n \in Needs(number, args) : Met(n, args, wellformed)
    IN /\ ~process.ended
       /\ IF verdict # "admitted" THEN Refuse(number, args, verdict)
          ELSE IF ~met
          THEN Refuse(number, args, IF number = "network_config" THEN "unavailable" ELSE "invalid")
          ELSE IF number \in Answers
          THEN \E supplied \in IF number = "system_info" THEN {Struct} ELSE Supplies :
                  answer_now(number, args, supplied)
          ELSE /\ Answer(number, args, IF number \in Immediate THEN "value" ELSE "pending")
               /\ copied' = [kept |-> Kept(number, args), written |-> {}]
               /\ process' = [process EXCEPT
                    !.armed = @ \/ number = "abi_version",
                    !.event = IF number \in Immediate THEN NoValue ELSE number,
                    !.ended = number = "exit"]

(* A frame that cannot be returned to (valid_user_frame) is a fault.           *)
terminate_process_fault ==
    /\ frame = NoValue /\ ~process.ended
    /\ process' = [process EXCEPT !.event = "fault", !.ended = TRUE]
    /\ UNCHANGED <<frame, copied>>

(* The answered program runs on and reuses its registers.                      *)
user_return ==
    /\ frame # NoValue /\ process.event = NoValue
    /\ frame' = NoValue
    /\ copied' = [kept |-> {}, written |-> {}]
    /\ UNCHANGED process

(* What a completion brings for the buffer of its call: a fixed record, up to  *)
(* as many bytes as the buffer holds, or the service's refusal (NoValue).       *)
Records ==
    {"wait_input", "receive_endpoint", "stat_handle", "read_directory", "process_status",
     "process_reap", "socket_status"}

Results(number, out) ==
    {NoValue} \union (IF number \in Records THEN {Struct} ELSE {n \in Supplies \ {NoValue} : n <= out.length})

(* A read of a file copies nothing at its end, and has an error of its own.     *)
complete_read(out, supplied) ==
    IF supplied = 0 \/ copy_to_user_data(out.address, supplied) THEN "value" ELSE "unavailable"

complete_copy(out, supplied) ==
    IF copy_to_user_data(out.address, supplied) THEN "value" ELSE "invalid"

(* The completion of an event; the address is the one the event carried.       *)
complete_with(out, supplied) ==
    LET rax == IF supplied = NoValue THEN "refused"
               ELSE IF frame.number \in {"read_file", "read_handle"}
               THEN complete_read(out, supplied) ELSE complete_copy(out, supplied)
    IN  /\ frame' = [frame EXCEPT !.rax = rax]
        /\ copied' = IF rax # "value" THEN copied
                     ELSE [copied EXCEPT !.written = {[address |-> out.address, length |-> supplied]}]

complete ==
    /\ process.event # NoValue /\ ~process.ended
    /\ \/ /\ Outputs(frame.number, frame.args) = {}
          /\ \E rax \in {"value", "refused"} : frame' = [frame EXCEPT !.rax = rax]
          /\ UNCHANGED copied
       \/ \E out \in Outputs(frame.number, frame.args) :
             \E supplied \in Results(frame.number, out) : complete_with(out, supplied)
    /\ process' = [process EXCEPT !.event = NoValue]

Next ==
    \/ /\ frame = NoValue           \* the program runs
       /\ \E number \in DOMAIN Inputs : \E args \in Inputs[number] :
             dispatch_syscall(number, args)
    \/ terminate_process_fault
    \/ user_return
    \/ complete

Spec == Init /\ [][Next]_vars

-----------------------------------------------------------------------------
(* The reference: byte by byte.                                                *)
Owned(b, write) ==
    \A a \in b.address..b.address + b.length - 1 :
        LET page == a - (a % Page) IN page \in DOMAIN UserPages /\ (write => UserPages[page])

Within(b, start, end) == b.length > 0 /\ b.address >= start /\ b.address + b.length <= end

Legal(number, args) ==
    /\ dispatch(number, args) = "admitted"
    /\ \A n \in Needs(number, args) : n.do \notin {"name", "capability", "u64"}
    /\ \A b \in Kept(number, args) : Within(b, Code, StackTop) /\ Owned(b, FALSE)
    /\ \A b \in Outputs(number, args) : Within(b, Data, Data + Page) /\ Owned(b, TRUE)

\* Whatever the registers hold, the kernel keeps only bytes the program may read
\* and its fixed buffers can hold, and writes only bytes the program may write,
\* inside the buffer the call named.  A call refused at any layer has kept and
\* written nothing.  A call whose buffers the program owns is not refused by any of
\* the layers that check it, nor when its result is copied out, not even an empty one.
CallsAreServed ==
    /\ \A b \in copied.kept : b.length <= b.limit /\ Owned(b, FALSE)
    /\ \A w \in copied.written :
          /\ Owned(w, TRUE)
          /\ \E o \in Outputs(frame.number, frame.args) :
                w.address = o.address /\ w.length <= o.length
    /\ frame # NoValue =>
          /\ frame.rax \in {"invalid", "unknown"} => process.event = NoValue /\ copied.kept = {}
          /\ frame.rax \notin {"value", "pending"} => copied.written = {}
          /\ Legal(frame.number, frame.args) => frame.rax # "invalid"
=============================================================================
