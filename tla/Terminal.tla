------------------------------ MODULE Terminal ------------------------------
(* The serial terminal: bytes become keys (SerialKeys), a key is echoed and  *)
(* noted by the kernel's prompt (SerialPrompt) and delivered to the shell,   *)
(* whose editor changes the line and publishes it a slice later; the prompt  *)
(* then redraws the line if an edit asked for it.  Output of other processes *)
(* may come at any point of this.                                            *)
(*                                                                           *)
(* A run of parameter bytes of an escape sequence is one byte of the model.  *)
EXTENDS Naturals, Sequences, SequencesExt

CONSTANTS
    Chars,              \* printable bytes, the blank among them
    Blank,              \* the blank
    Letter,             \* stands for every printable byte that is not told apart
    SerialBytes,        \* bytes that are typed
    Words,              \* COMMAND_WORDS
    LineCapacity,       \* LINE_CAPACITY, USER_CONSOLE_TEXT_MAX
    HistoryCapacity,    \* HISTORY_CAPACITY
    PrefixTimeout,      \* PREFIX_TIMEOUT_TICKS
    PasteLimit,         \* PASTE_LIMIT
    NoValue

VARIABLES
    decoder,    \* SerialKeys, and whether the last byte was a carriage return
    prompt,     \* SerialPrompt
    editor,     \* Editor, in the shell
    shell,      \* "waits" for a key, has one to handle, "published", "runs" or "exited"
    awaiting,   \* awaiting_command_completion, or the first prompt not yet sent
    screen,     \* the prompt line as shown, NoValue when there is none
    overtaken,  \* history: output came between a key's echo and its publication
    sought      \* history: the shell's cursor did not follow to the end of the line

vars == <<decoder, prompt, editor, shell, awaiting, screen, overtaken, sought>>

(***************************************************************************)
(* SerialKeys                                                              *)
(***************************************************************************)
Parameters == {"1", "3", "4", "7", "8", "200", "201"}
Printable == Chars \cup Parameters \cup {"[", "O", "A", "B", "C", "D", "H", "F", "~"}
AllBytes == Printable \cup {"cr", "lf", "tab", "bs", "esc", "ctrl-a", "ctrl-c", "ctrl-d", "ctrl-e"}

Typed(byte) == IF byte \in Chars THEN byte ELSE Letter

Incomplete == {"Escape", "Csi", "Ss3"}
Keys == Chars \cup {"Enter", "Cancel", "Backspace", "Tab", "Home", "End", "Delete",
                    "ArrowUp", "ArrowDown", "ArrowLeft", "ArrowRight"}

NewDecoder ==
    [mode |-> "Idle", parameter |-> "", age |-> 0, paste |-> 0, drop |-> FALSE, cr |-> FALSE]

\* A decoder in another mode, and the key that the byte completed.
Becomes(d, mode, key) ==
    [decoder |-> [d EXCEPT !.mode = mode, !.parameter = "", !.age = 0], key |-> key]

IdleKey(byte) ==
    CASE byte \in {"cr", "lf"} -> "Enter"
      [] byte = "bs" -> "Backspace"
      [] byte = "tab" -> "Tab"
      [] byte = "ctrl-a" -> "Home"
      [] byte = "ctrl-e" -> "End"
      [] byte = "ctrl-d" -> "Delete"
      [] byte \in Printable -> Typed(byte)
      [] OTHER -> NoValue

CsiKey(parameter, byte) ==
    CASE parameter = "" /\ byte = "A" -> "ArrowUp"
      [] parameter = "" /\ byte = "B" -> "ArrowDown"
      [] parameter = "" /\ byte = "C" -> "ArrowRight"
      [] parameter = "" /\ byte = "D" -> "ArrowLeft"
      [] \/ parameter \in {"", "1", "7"} /\ byte = "H"
         \/ parameter \in {"1", "7"} /\ byte = "~" -> "Home"
      [] \/ parameter \in {"", "4", "8"} /\ byte = "F"
         \/ parameter \in {"4", "8"} /\ byte = "~" -> "End"
      [] parameter = "3" /\ byte = "~" -> "Delete"
      [] OTHER -> NoValue

\* Another parameter byte after the first run makes the sequence unknown.
AddParameter(d, byte) ==
    [decoder |-> [d EXCEPT !.age = 0,
                           !.parameter = IF @ = "" THEN byte ELSE "unknown"],
     key |-> NoValue]

paste_byte(d, byte) ==
    IF d.drop THEN Becomes(d, "Paste", NoValue)
    ELSE IF d.paste = PasteLimit
    THEN Becomes([d EXCEPT !.drop = TRUE], "Paste", "Cancel")
    ELSE Becomes([d EXCEPT !.paste = @ + 1], "Paste",
                 IF byte \in {"cr", "lf", "tab"} THEN Blank
                 ELSE IF byte \in Printable THEN Typed(byte) ELSE NoValue)

feed(d, byte) ==
    CASE byte = "ctrl-c" -> Becomes([d EXCEPT !.paste = 0, !.drop = FALSE], "Idle", "Cancel")
      [] d.mode = "Idle" ->
           IF byte = "esc" THEN Becomes(d, "Escape", NoValue)
           ELSE Becomes(d, "Idle", IdleKey(byte))
      [] d.mode = "Escape" ->
           Becomes(d, CASE byte = "[" -> "Csi" [] byte = "O" -> "Ss3" [] OTHER -> "Idle", NoValue)
      [] d.mode = "Ss3" ->
           Becomes(d, "Idle", CASE byte = "H" -> "Home" [] byte = "F" -> "End" [] OTHER -> NoValue)
      [] d.mode = "Csi" ->
           IF byte \in Parameters THEN AddParameter(d, byte)
           ELSE IF d.parameter = "200" /\ byte = "~"
           THEN Becomes([d EXCEPT !.paste = 0, !.drop = FALSE], "Paste", NoValue)
           ELSE Becomes(d, "Idle", CsiKey(d.parameter, byte))
      [] d.mode = "Paste" ->
           IF byte = "esc" THEN Becomes(d, "PasteEscape", NoValue) ELSE paste_byte(d, byte)
      [] d.mode = "PasteEscape" ->
           Becomes(d, IF byte = "[" THEN "PasteCsi" ELSE "Paste", NoValue)
      [] d.mode = "PasteCsi" ->
           IF byte \in Parameters THEN AddParameter(d, byte)
           ELSE IF d.parameter = "201" /\ byte = "~"
           THEN Becomes([d EXCEPT !.paste = 0, !.drop = FALSE], "Idle", NoValue)
           ELSE Becomes(d, "Paste", NoValue)

expire(d) == d.mode \in Incomplete /\ d.age >= PrefixTimeout

(***************************************************************************)
(* SerialPrompt: its own guess of the line's cursor                        *)
(***************************************************************************)
NewPrompt == [active |-> FALSE, input |-> <<>>, cursor |-> 0, redraw |-> FALSE, seek_end |-> FALSE]

finish_command == NewPrompt

Noted(p, cursor, redraw, echo) ==
    [prompt |-> [p EXCEPT !.cursor = cursor, !.redraw = redraw], echo |-> echo]

note_key(p, key) ==
    LET len == Len(p.input)
        atEnd == p.cursor = len
    IN  CASE ~p.active -> [prompt |-> p, echo |-> "None"]
          [] key \in Chars /\ len < LineCapacity ->
               Noted(p, p.cursor + 1, ~atEnd, IF atEnd THEN "Char" ELSE "Redraw")
          [] key = "Backspace" /\ p.cursor > 0 ->
               Noted(p, p.cursor - 1, ~atEnd, IF atEnd THEN "EraseLast" ELSE "Redraw")
          [] key = "Delete" /\ p.cursor < len -> Noted(p, p.cursor, TRUE, "Redraw")
          [] key = "ArrowLeft" /\ p.cursor > 0 -> Noted(p, p.cursor - 1, TRUE, "Redraw")
          [] key = "ArrowRight" /\ p.cursor < len -> Noted(p, p.cursor + 1, TRUE, "Redraw")
          [] key \in {"Home", "End", "ArrowUp", "ArrowDown", "Tab"} ->
               Noted([p EXCEPT !.seek_end = key # "Home"], IF key = "Home" THEN 0 ELSE len,
                     TRUE, "Redraw")
          [] OTHER -> [prompt |-> p, echo |-> "None"]

\* Mutant: the cursor of a line taken from the history is not sought.
InputUnsought(p, text) ==
    [p EXCEPT !.input = text, !.redraw = FALSE, !.seek_end = FALSE,
              !.cursor = IF @ > Len(text) THEN Len(text) ELSE @]

set_input(p, text) ==
    [p EXCEPT !.input = text, !.redraw = FALSE, !.seek_end = FALSE,
              !.cursor = IF p.seek_end \/ @ > Len(text) THEN Len(text) ELSE @]

(***************************************************************************)
(* The screen: what the terminal makes of the bytes it is sent             *)
(***************************************************************************)
\* The line as the prompt would draw it.
draw_terminal_prompt(p) ==
    [text |-> p.input, cursor |-> IF p.cursor > Len(p.input) THEN Len(p.input) ELSE p.cursor]

echo_byte(s, byte) ==
    [text |-> SubSeq(s.text, 1, s.cursor) \o <<byte>> \o SubSeq(s.text, s.cursor + 2, Len(s.text)),
     cursor |-> s.cursor + 1]

\* Back, blank, back; a blank at the end of the line is not told from none.
EraseLast(s) ==
    IF s.cursor = 0 THEN s
    ELSE [text |-> IF s.cursor = Len(s.text) THEN Front(s.text)
                   ELSE [s.text EXCEPT ![s.cursor] = Blank],
          cursor |-> s.cursor - 1]

(***************************************************************************)
(* Editor.  A draft that the next history_up would overwrite is NoValue.   *)
(***************************************************************************)
NewEditor ==
    [line |-> <<>>, cursor |-> 0, history |-> <<>>, history_cursor |-> 0, draft |-> NoValue]

\* The newest slot of the history is the line being edited.
Edited(e) == [e EXCEPT !.history_cursor = Len(e.history), !.draft = NoValue]

insert(e, byte) ==
    IF Len(e.line) = LineCapacity THEN e
    ELSE Edited([e EXCEPT !.line = InsertAt(e.line, e.cursor + 1, byte), !.cursor = @ + 1])

backspace(e) ==
    IF e.cursor = 0 THEN e
    ELSE Edited([e EXCEPT !.line = RemoveAt(@, e.cursor), !.cursor = @ - 1])

delete(e) ==
    IF e.cursor = Len(e.line) THEN e
    ELSE Edited([e EXCEPT !.line = RemoveAt(@, e.cursor + 1)])

left(e) == [e EXCEPT !.cursor = IF @ = 0 THEN 0 ELSE @ - 1]
right(e) == [e EXCEPT !.cursor = IF @ = Len(e.line) THEN @ ELSE @ + 1]

clear_line(e) == Edited([e EXCEPT !.line = <<>>, !.cursor = 0])
load(e, text) == [e EXCEPT !.line = text, !.cursor = Len(text)]

remember(e) ==
    IF e.line = <<>> THEN e
    ELSE Edited([e EXCEPT !.history =
             Append(IF Len(@) < HistoryCapacity THEN @ ELSE Tail(@), e.line)])

history_up(e) ==
    IF e.history_cursor = 0 THEN e
    ELSE load([e EXCEPT !.history_cursor = @ - 1,
                        !.draft = IF e.history_cursor = Len(e.history)
                                  THEN [line |-> e.line, cursor |-> e.cursor] ELSE @],
              e.history[e.history_cursor])

history_down(e) ==
    CASE e.history_cursor = Len(e.history) -> e
      [] e.history_cursor + 1 = Len(e.history) ->
           Edited([e EXCEPT !.line = e.draft.line, !.cursor = e.draft.cursor])
      [] OTHER -> load([e EXCEPT !.history_cursor = @ + 1], e.history[e.history_cursor + 2])

\* The longest prefix that the command words starting with the line share.
complete_command(e) ==
    LET matches == {w \in Words : IsPrefix(e.line, w)}
        shared == {n \in 0..LineCapacity :
                      \A v, w \in matches : n <= Len(w) /\ SubSeq(v, 1, n) = SubSeq(w, 1, n)}
        longest == CHOOSE n \in shared : \A m \in shared : m <= n
    IN  IF Contains(e.line, Blank) \/ e.cursor # Len(e.line) \/ matches = {}
             \/ longest <= Len(e.line)
        THEN e ELSE load(e, SubSeq(CHOOSE w \in matches : TRUE, 1, longest))

Apply(e, key) ==
    CASE key \in Chars -> insert(e, key)
      [] key = "Backspace" -> backspace(e)
      [] key = "Delete" -> delete(e)
      [] key = "ArrowLeft" -> left(e)
      [] key = "ArrowRight" -> right(e)
      [] key = "Home" -> [e EXCEPT !.cursor = 0]
      [] key = "End" -> [e EXCEPT !.cursor = Len(e.line)]
      [] key = "ArrowUp" -> history_up(e)
      [] key = "ArrowDown" -> history_down(e)
      [] key = "Tab" -> complete_command(e)
      [] key = "Cancel" -> clear_line(e)

(***************************************************************************)
(* The terminal loop and the shell                                         *)
(***************************************************************************)
Init ==
    /\ decoder = NewDecoder /\ prompt = NewPrompt /\ editor = NewEditor
    /\ shell = "published" /\ awaiting = TRUE /\ screen = NoValue
    /\ overtaken = FALSE /\ sought = FALSE

\* The loop takes a key: the prompt notes and echoes it, the shell gets it.
TakeKey(key) ==
    LET noted == note_key(prompt, key)
    IN  /\ shell' = key
        /\ IF key \in {"Enter", "Cancel"}
           THEN /\ prompt' = finish_command /\ awaiting' = TRUE /\ screen' = NoValue
                /\ overtaken' = FALSE /\ sought' = FALSE
           ELSE /\ prompt' = noted.prompt
                /\ screen' = CASE noted.echo = "Char" -> echo_byte(screen, key)
                               [] noted.echo = "EraseLast" -> EraseLast(screen)
                               [] OTHER -> screen
                /\ UNCHANGED <<awaiting, overtaken, sought>>

\* A byte is read only while the shell waits for input.
read_byte(byte) ==
    LET fed == feed([decoder EXCEPT !.cr = byte = "cr"], byte)
        skipped == byte = "lf" /\ decoder.cr
    IN  /\ shell = "waits" /\ ~expire(decoder)
        /\ decoder' = IF skipped THEN [decoder EXCEPT !.cr = FALSE] ELSE fed.decoder
        /\ IF skipped \/ fed.key = NoValue
           THEN UNCHANGED <<prompt, shell, awaiting, screen, overtaken, sought>>
           ELSE TakeKey(fed.key)
        /\ UNCHANGED editor

\* A sequence that stays incomplete cancels the line.
expire_prefix ==
    /\ shell = "waits" /\ expire(decoder)
    /\ decoder' = Becomes(decoder, "Idle", NoValue).decoder
    /\ TakeKey("Cancel")
    /\ UNCHANGED editor

Tick ==
    /\ decoder.mode \in Incomplete /\ decoder.age < PrefixTimeout
    /\ decoder' = [decoder EXCEPT !.age = @ + 1]
    /\ UNCHANGED <<prompt, editor, shell, awaiting, screen, overtaken, sought>>

\* A line of output.  The pending line is cleared first and redrawn after it.
write_terminal_update ==
    /\ screen' = IF prompt.active THEN draw_terminal_prompt(prompt) ELSE NoValue
    /\ overtaken' = (prompt.active /\ shell # "waits" /\ ~prompt.redraw)

background_output ==
    /\ shell # "exited"
    /\ write_terminal_update
    /\ UNCHANGED <<decoder, prompt, editor, shell, awaiting, sought>>

\* The shell publishes its line: the prompt takes it over.
console_set_input(e) ==
    /\ prompt' = set_input(prompt, e.line)
    /\ screen' = IF prompt.active /\ prompt.redraw THEN draw_terminal_prompt(prompt') ELSE screen
    /\ overtaken' = (overtaken /\ ~prompt.redraw)
    /\ shell' = "published"

\* The shell handles a key.  A command first runs: its output comes line by
\* line, and it may clear the screen.
shell_edit ==
    /\ shell \in Keys \ {"Enter"}
    /\ editor' = Apply(editor, shell)
    /\ sought' = IF shell \in {"ArrowUp", "ArrowDown", "Tab"}
                 THEN editor'.cursor # Len(editor'.line)
                 ELSE sought /\ shell \notin {"Home", "End"}
    /\ console_set_input(editor')
    /\ UNCHANGED <<decoder, awaiting>>

execute ==
    /\ shell = "Enter" /\ shell' = "runs"
    /\ editor' = remember(editor)
    /\ UNCHANGED <<decoder, prompt, awaiting, screen, overtaken, sought>>

console_write ==
    /\ shell = "runs" /\ write_terminal_update
    /\ UNCHANGED <<decoder, prompt, editor, shell, awaiting, sought>>

command_done ==
    /\ shell = "runs"
    /\ editor' = clear_line(editor)
    /\ console_set_input(editor')
    /\ UNCHANGED <<decoder, awaiting, sought>>

\* The shell waits for the next key; the loop then shows the prompt it owes.
\* If another process holds the input, the shell ends and the loop with it.
wait_input(refused) ==
    /\ shell = "published"
    /\ shell' = IF refused THEN "exited" ELSE "waits"
    /\ IF awaiting /\ ~refused
       THEN /\ awaiting' = FALSE /\ prompt' = [prompt EXCEPT !.active = TRUE]
            /\ screen' = [text |-> <<>>, cursor |-> 0]
       ELSE UNCHANGED <<awaiting, prompt, screen>>
    /\ UNCHANGED <<decoder, editor, overtaken, sought>>

Next ==
    \/ shell = "waits" /\ \E byte \in SerialBytes : read_byte(byte)
    \/ expire_prefix \/ Tick \/ background_output
    \/ shell_edit \/ execute \/ console_write \/ command_done
    \/ \E refused \in BOOLEAN : wait_input(refused)

Spec == Init /\ [][Next]_vars

(***************************************************************************)
(* Property                                                                *)
(***************************************************************************)
\* Whenever the shell waits for a key, the prompt that the kernel keeps for
\* it (note_key, set_input) holds the line of the shell's editor and is active.
\* Unless a history or completion key left the editor's cursor inside the line,
\* the prompt's cursor is the editor's; unless besides output overtook the
\* publication of a key that was echoed, the terminal shows that line and cursor.
PromptMirrorsEditor ==
    shell = "waits" =>
        /\ prompt.active /\ ~awaiting
        /\ prompt.input = editor.line /\ prompt.cursor <= Len(prompt.input)
        /\ ~sought => prompt.cursor = editor.cursor
        /\ ~sought /\ ~overtaken => screen = [text |-> editor.line, cursor |-> editor.cursor]

\* What docs/TERMINAL.md says of output that arrives while a line is typed: it
\* clears the visible prompt and redraws the pending input afterward.
PendingInputIsShown ==
    shell = "waits" => screen.text = editor.line
=============================================================================
