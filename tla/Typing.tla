-------------------------------- MODULE Typing --------------------------------
(***************************************************************************)
(* From the keyboard to the text: the PS/2 interrupt handler and its       *)
(* buffer (drivers/keyboard.rs), the frame loop's key dispatch and the     *)
(* text editor and terminal it feeds (gui/mod.rs).  Interrupts arrive      *)
(* between any two frames, or while the frame loop has the buffer locked.  *)
(* Lines are sequences of one-byte characters.                             *)
(***************************************************************************)
EXTENDS Naturals, Sequences, FiniteSets, SequencesExt

CONSTANTS
    Codes,      \* the keys of the keyboard: scancode, and whether extended
    Released,   \* those whose release is looked at (shift keys always are)
    Files,      \* contents a file may have when it is opened
    KBUF,       \* capacity of KEYBOARD_BUFFER (256)
    UNDOMAX,    \* states of undo history kept (100)
    TABW,       \* spaces of a tab (4)
    PAGE,       \* lines of a page key (20)
    MAXACTS     \* bound on what the user does in a behaviour, but for undo and redo

ASSUME ConstantsOK ==
    /\ KBUF \in Nat \ {0} /\ UNDOMAX \in Nat \ {0} /\ TABW \in Nat /\ MAXACTS \in Nat
    /\ PAGE \in Nat \ {0}

VARIABLES
    wire,       \* bytes the keyboard has still to deliver (external)
    held,       \* ghost: the shift keys held down
    acts,       \* ghost: number of key acts and clicks so far
    kb,         \* ext: EXTENDED_KEY; shift, caps: MODIFIERS; buf: KEYBOARD_BUFFER;
                \* spins: the handler waits for the lock that its core holds
    queued,     \* ghost: what the user did and the frame loop has not read yet
    focus,      \* the content of the focused window
    ed,         \* TextEditorState
    file,       \* content of the file being edited, <<>> if it has no name
    term        \* input line of the terminal

vars == <<wire, held, acts, kb, queued, focus, ed, file, term>>

-----------------------------------------------------------------------------
(* The keyboard driver                                                     *)

\* The plain and the extended table.  A key is named by its code; an extended
\* key is written with the prefix.
Plain ==
    "1E" :> "A" @@ "1C" :> "Enter" @@ "0E" :> "Backspace" @@ "0F" :> "Tab" @@ "01" :> "Escape" @@
    "2A" :> "LeftShift" @@ "36" :> "RightShift" @@ "3A" :> "CapsLock" @@ "47" :> "Keypad7" @@
    "48" :> "Keypad8" @@ "49" :> "Keypad9" @@ "4B" :> "Keypad4" @@ "4D" :> "Keypad6" @@
    "4F" :> "Keypad1" @@ "50" :> "Keypad2" @@ "51" :> "Keypad3" @@ "53" :> "KeypadPeriod"

Extended ==
    "1C" :> "KeypadEnter" @@ "47" :> "Home" @@ "48" :> "Up" @@ "49" :> "PageUp" @@
    "4B" :> "Left" @@ "4D" :> "Right" @@ "4F" :> "End" @@ "50" :> "Down" @@
    "51" :> "PageDown" @@ "53" :> "Delete"

KeyOf(code, ext) ==
    IF ext THEN IF code \in DOMAIN Extended THEN Extended[code] ELSE "Unknown"
    ELSE IF code \in DOMAIN Plain THEN Plain[code] ELSE "Unknown"

\* process_scancode called only when the event fits.
ProcessScancodeRoom(k, key, pressed) ==
    [k EXCEPT !.shift = IF key \in {"LeftShift", "RightShift"} /\ Len(k.buf) < KBUF
                        THEN pressed ELSE @,
              !.caps = IF key = "CapsLock" /\ pressed THEN ~@ ELSE @]

\* process_scancode: either shift key sets or clears the one flag.
ProcessScancode(k, key, pressed) ==
    [k EXCEPT !.shift = IF key \in {"LeftShift", "RightShift"} THEN pressed ELSE @,
              !.caps = IF key = "CapsLock" /\ pressed THEN ~@ ELSE @]

\* The handler that forgets to take the prefix back.
TakePrefixNot(k) == k

\* handle_interrupt reads and clears EXTENDED_KEY.
TakePrefix(k) == [k EXCEPT !.ext = FALSE]

HasRoom(buf) == Len(buf) < KBUF

\* handle_interrupt, one byte: the prefix, or a code; an event that finds the
\* buffer full is dropped after the modifiers were updated.
Interrupt ==
    /\ wire # <<>>
    /\ wire' = Tail(wire)
    /\ LET b == Head(wire)
           key == KeyOf(b.code, kb.ext)
           k == ProcessScancode(TakePrefix(kb), key, b.pressed)
           event == [key |-> key, pressed |-> b.pressed, shift |-> k.shift, caps |-> k.caps]
           room == HasRoom(kb.buf)
       IN IF b.code = "E0"
          THEN kb' = [kb EXCEPT !.ext = TRUE] /\ UNCHANGED queued
          ELSE /\ kb' = [k EXCEPT !.buf = IF room THEN Append(@, event) ELSE @]
               /\ queued' = IF room THEN Append(queued, b.worked) ELSE queued
    /\ UNCHANGED <<held, acts, focus, ed, file, term>>

\* The same while has_key or read_key holds the lock of the buffer, with
\* interrupts on: the handler of a code spins, and the lock is never given back.
InterruptInside ==
    /\ wire # <<>> /\ Head(wire).code # "E0"
    /\ wire' = Tail(wire)
    /\ kb' = [ProcessScancode(TakePrefix(kb), KeyOf(Head(wire).code, kb.ext),
                              Head(wire).pressed) EXCEPT !.spins = TRUE]
    /\ UNCHANGED <<held, acts, queued, focus, ed, file, term>>

\* The user presses (or holds: the keyboard repeats) or releases a key, and the
\* keyboard sends its bytes.  A key is its code and whether the prefix precedes it.
Shifts == {<<"2A", FALSE>>, <<"36", FALSE>>}

Stroke(c, pressed) ==
    LET last == [code |-> c[1], pressed |-> pressed, worked |-> <<c, pressed>>] IN
    /\ acts < MAXACTS /\ wire = <<>>
    /\ pressed \/ c \in Shifts \cup Released
    /\ c \in Shifts => pressed \/ c \in held
    /\ acts' = acts + 1
    /\ held' = IF pressed THEN held \cup ({c} \cap Shifts) ELSE held \ {c}
    /\ wire' = IF c[2] THEN <<[last EXCEPT !.code = "E0"], last>> ELSE <<last>>
    /\ UNCHANGED <<kb, queued, focus, ed, file, term>>

\* keyevent_to_char: the characters of the keys above; "bs", "del" and "esc"
\* are control characters.
CharOf(e) ==
    IF ~e.pressed THEN "none"
    ELSE CASE e.key = "A" -> IF e.shift # e.caps THEN "A" ELSE "a"
           [] e.key \in {"Enter", "KeypadEnter"} -> "nl"
           [] e.key = "Tab" -> "tab"
           [] e.key = "Backspace" -> "bs"
           [] e.key = "Escape" -> "esc"
           [] e.key = "Delete" -> "del"
           [] e.key = "KeypadPeriod" -> "."
           [] e.key \in {"Keypad1", "Keypad2", "Keypad3", "Keypad4",
                         "Keypad6", "Keypad7", "Keypad8", "Keypad9"} -> "4"
           [] OTHER -> "none"

-----------------------------------------------------------------------------
(* The text editor.  line and col count from 0.                            *)

LineLen(t, n) == Len(t.lines[n + 1])
Snapshot(t) == [lines |-> t.lines, line |-> t.line, col |-> t.col]

Restore(t, s) == [t EXCEPT !.lines = s.lines, !.line = s.line, !.col = s.col, !.modified = TRUE]
AtMost(a, b) == IF a <= b THEN a ELSE b

NewEditor == [lines |-> << <<>> >>, line |-> 0, col |-> 0, named |-> FALSE, modified |-> FALSE, undo |-> <<>>, redo |-> <<>>]

\* str::lines: the text between newlines, without an empty last line.
LinesOf(text) ==
    LET all == FoldLeft(LAMBDA acc, c : IF c = "nl" THEN Append(acc, <<>>)
                                        ELSE [acc EXCEPT ![Len(acc)] = Append(@, c)],
                        << <<>> >>, text)
    IN IF Len(all) > 1 /\ Last(all) = <<>> THEN Front(all) ELSE all

\* content(): the lines joined by newlines.
Content(t) == FoldLeft(LAMBDA acc, l : acc \o <<"nl">> \o l, Head(t.lines), Tail(t.lines))

\* load_file keeps the editor as it is when the file cannot be read.
LoadFile(t, text) ==
    [NewEditor EXCEPT !.lines = LinesOf(text), !.named = TRUE]

\* push_undo that keeps the redo states of another branch.
PushUndoKeepRedo(t) ==
    LET u == Append(t.undo, Snapshot(t)) IN
    [t EXCEPT !.undo = IF Len(u) > UNDOMAX THEN Tail(u) ELSE u]

PushUndo(t) ==
    LET u == Append(t.undo, Snapshot(t)) IN
    [t EXCEPT !.undo = IF Len(u) > UNDOMAX THEN Tail(u) ELSE u, !.redo = <<>>]

Undo(t) ==
    IF t.undo = <<>> THEN t
    ELSE [Restore(t, Last(t.undo)) EXCEPT !.undo = Front(@), !.redo = Append(@, Snapshot(t))]

Redo(t) ==
    IF t.redo = <<>> THEN t
    ELSE [Restore(t, Last(t.redo)) EXCEPT !.redo = Front(@), !.undo = Append(@, Snapshot(t))]

\* insert_char
InsertChar(s, c) ==
    LET t == PushUndo(s)
        l == t.lines[t.line + 1]
        before == SubSeq(l, 1, AtMost(t.col, Len(l)))
        after == SubSeq(l, t.col + 1, Len(l))
    IN IF c = "nl"
       THEN [t EXCEPT !.lines = SubSeq(@, 1, t.line) \o <<before, after>>
                                \o SubSeq(@, t.line + 2, Len(@)),
                      !.line = @ + 1, !.col = 0, !.modified = TRUE]
       ELSE [t EXCEPT !.lines[t.line + 1] = before \o <<c>> \o after,
                      !.col = @ + 1, !.modified = TRUE]

\* Line n joined with the one after it.
Joined(lines, n) ==
    SubSeq(lines, 1, n - 1) \o <<lines[n] \o lines[n + 1]>> \o SubSeq(lines, n + 2, Len(lines))

\* delete_char (backspace)
DeleteChar(s) ==
    LET t == PushUndo(s) IN
    IF t.col > 0
    THEN [t EXCEPT !.lines[t.line + 1] = IF t.col <= Len(@) THEN RemoveAt(@, t.col) ELSE @,
                   !.col = @ - 1, !.modified = TRUE]
    ELSE IF t.line > 0
    THEN [t EXCEPT !.lines = Joined(@, t.line), !.line = @ - 1,
                   !.col = LineLen(t, t.line - 1), !.modified = TRUE]
    ELSE [t EXCEPT !.modified = TRUE]

\* delete_forward (delete key)
DeleteForward(s) ==
    LET t == PushUndo(s) IN
    IF t.col < LineLen(t, t.line)
    THEN [t EXCEPT !.lines[t.line + 1] = RemoveAt(@, t.col + 1), !.modified = TRUE]
    ELSE IF t.line + 1 < Len(t.lines)
    THEN [t EXCEPT !.lines = Joined(@, t.line + 1), !.modified = TRUE]
    ELSE t

\* move_up, move_down, page_up and page_down without the clamp.
ToLineFree(t, n) == [t EXCEPT !.line = n]

\* Going to another line keeps the column inside it.
ToLine(t, n) == [t EXCEPT !.line = n, !.col = AtMost(@, LineLen(t, n))]

MoveUp(t) == IF t.line > 0 THEN ToLine(t, t.line - 1) ELSE t
MoveDown(t) == IF t.line + 1 < Len(t.lines) THEN ToLine(t, t.line + 1) ELSE t
PageUp(t) == ToLine(t, IF t.line >= PAGE THEN t.line - PAGE ELSE 0)
PageDown(t) == ToLine(t, AtMost(t.line + PAGE, Len(t.lines) - 1))

MoveLeft(t) ==
    IF t.col > 0 THEN [t EXCEPT !.col = @ - 1]
    ELSE IF t.line > 0 THEN [t EXCEPT !.line = @ - 1, !.col = LineLen(t, t.line - 1)]
    ELSE t

MoveRight(t) ==
    IF t.col < LineLen(t, t.line) THEN [t EXCEPT !.col = @ + 1]
    ELSE IF t.line + 1 < Len(t.lines) THEN [t EXCEPT !.line = @ + 1, !.col = 0]
    ELSE t

MoveHome(t) == [t EXCEPT !.col = 0]
MoveEnd(t) == [t EXCEPT !.col = LineLen(t, t.line)]

-----------------------------------------------------------------------------
(* The frame loop                                                          *)

\* handle_key_event with an editor in focus.
EditorKey(t, e) ==
    IF ~e.pressed THEN t
    ELSE CASE e.key = "Up" -> MoveUp(t)
           [] e.key = "Down" -> MoveDown(t)
           [] e.key = "Left" -> MoveLeft(t)
           [] e.key = "Right" -> MoveRight(t)
           [] e.key = "Home" -> MoveHome(t)
           [] e.key = "End" -> MoveEnd(t)
           [] e.key = "PageUp" -> PageUp(t)
           [] e.key = "PageDown" -> PageDown(t)
           [] e.key = "Delete" -> DeleteForward(t)
           [] OTHER -> t

\* handle_keyboard with an editor in focus.
EditorChar(t, c) ==
    CASE c \in {"bs", "del"} -> DeleteChar(t)
      [] c = "tab" -> FoldLeft(InsertChar, t, [i \in 1..TABW |-> " "])
      [] c \in {"none", "esc"} -> t
      [] OTHER -> InsertChar(t, c)

Popped(s) == IF s = <<>> THEN s ELSE Front(s)

\* The same with a terminal: Delete pops here, ...
TerminalKey(s, e) == IF e.pressed /\ e.key = "Delete" THEN Popped(s) ELSE s

\* ... and again here; Enter hands the line to the shell.
TerminalChar(s, c) ==
    CASE c \in {"nl", "esc"} -> <<>>
      [] c \in {"bs", "del"} -> Popped(s)
      [] c = "tab" -> s \o [i \in 1..TABW |-> " "]
      [] c = "none" -> s
      [] OTHER -> Append(s, c)

ReadKey(buf) == [event |-> Head(buf), rest |-> Tail(buf)]

\* run, one frame with a key: handle_key_event, and then handle_keyboard for a
\* key that has a character too.
Frame ==
    /\ kb.buf # <<>>
    /\ LET r == ReadKey(kb.buf)
           c == CharOf(r.event)
       IN /\ kb' = [kb EXCEPT !.buf = r.rest]
          /\ ed' = IF focus = "editor" THEN EditorChar(EditorKey(ed, r.event), c) ELSE ed
          /\ term' = IF focus = "terminal" THEN TerminalChar(TerminalKey(term, r.event), c) ELSE term
    /\ queued' = Tail(queued)
    /\ UNCHANGED <<wire, held, acts, focus, file>>

\* handle_mouse on the editor's tool bar and text, and on the two windows.
ClickUndo == focus = "editor" /\ ed' = Undo(ed)
ClickRedo == focus = "editor" /\ ed' = Redo(ed)

\* Where the click lands depends on the scrolling, which is left out.
ClickText(row, column) ==
    /\ focus = "editor"
    /\ ed' = LET n == AtMost(row, Len(ed.lines) - 1) IN
             [ed EXCEPT !.line = n, !.col = AtMost(column, LineLen(ed, n))]

\* save_file: only a file with a name.  A write that fails may have changed what
\* the file system has in memory, and so what a reader of the file gets.
ClickSave(ok) ==
    /\ focus = "editor"
    /\ \/ ed.named /\ file' = Content(ed)
       \/ ~(ed.named /\ ok) /\ UNCHANGED file
    /\ ed' = [ed EXCEPT !.modified = @ /\ ~(ed.named /\ ok)]

ClickWindow == focus' = IF focus = "editor" THEN "terminal" ELSE "editor"

Mouse ==
    /\ \/ (ClickUndo \/ ClickRedo) /\ UNCHANGED <<focus, file, acts>>
       \/ /\ acts < MAXACTS /\ acts' = acts + 1
          /\ \/ \E row \in 0..Len(ed.lines), column \in 0..MAXACTS :
                   ClickText(row, column) /\ UNCHANGED <<focus, file>>
             \/ \E ok \in BOOLEAN : ClickSave(ok) /\ UNCHANGED focus
             \/ ClickWindow /\ UNCHANGED <<ed, file>>
    /\ UNCHANGED <<wire, held, kb, queued, term>>

Init ==
    /\ wire = <<>> /\ held = {} /\ acts = 0
    /\ kb = [ext |-> FALSE, shift |-> FALSE, caps |-> FALSE, buf |-> <<>>, spins |-> FALSE]
    /\ queued = <<>>
    /\ focus = "editor"
    /\ \/ ed = NewEditor /\ file = <<>>
       \/ \E text \in Files : file = text /\ ed = LoadFile(NewEditor, text)
    /\ term = <<>>

Next ==
    /\ ~kb.spins
    /\ \/ Interrupt \/ InterruptInside \/ Frame \/ Mouse
       \/ \E c \in Codes, pressed \in BOOLEAN : Stroke(c, pressed)

Spec == Init /\ [][Next]_vars

-----------------------------------------------------------------------------
(* Properties                                                              *)

\* Type correctness; the keyboard buffer never exceeds its capacity.
TypeOK ==
    /\ Len(kb.buf) <= KBUF
    /\ {kb.ext, kb.shift, kb.caps, kb.spins, ed.named, ed.modified} \subseteq BOOLEAN
    /\ \A i \in DOMAIN ed.lines : \A j \in DOMAIN ed.lines[i] :
          ed.lines[i][j] \in {"a", "A", "4", ".", " "}
    /\ focus \in {"editor", "terminal"}

\* What the frame loop has still to read is what the user worked and was not
\* dropped, in that order, each key decoded by the right table: no prefix is
\* lost to, or left over for, another key.
KeysInOrder ==
    /\ Len(kb.buf) = Len(queued)
    /\ \A i \in DOMAIN kb.buf :
          /\ kb.buf[i].key = KeyOf(queued[i][1][1], queued[i][1][2])
          /\ kb.buf[i].pressed = queued[i][2]

\* No shift without a shift key down, once its bytes have arrived: a dropped
\* event does not leave the modifier behind.  (The converse fails: releasing
\* one of two shift keys clears the flag.)
ShiftSound ==
    wire = <<>> /\ kb.shift => held # {}

\* The cursor is inside the text, and so is the cursor of every state undo or
\* redo can bring back: no index of the editor is out of range.
CursorInside ==
    \A s \in {Snapshot(ed)} \cup Range(ed.undo) \cup Range(ed.redo) :
        /\ s.line \in 0..(Len(s.lines) - 1)
        /\ s.col \in 0..Len(s.lines[s.line + 1])


\* undo and redo together keep at most UNDOMAX states; redo itself has no limit.
HistoryBounded == Len(ed.undo) + Len(ed.redo) <= UNDOMAX

\* The editor's undo and redo stacks implement one line of history with a
\* position in it: an edit cuts what lies ahead and forgets the oldest states
\* only, undo and redo only move.  A tab is TABW edits, the Delete key two.
Texts(stack) == [i \in DOMAIN stack |-> stack[i].lines]
History == INSTANCE Timeline WITH
    tape <- Texts(ed.undo) \o <<ed.lines>> \o Reverse(Texts(ed.redo)),
    pos <- Len(ed.undo) + 1,
    LIMIT <- UNDOMAX,
    BATCH <- IF TABW > 2 THEN TABW ELSE 2
OneTimeline == History!Spec

\* The Delete key removes what is at the cursor, and leaves the text in front
\* of it alone.
TextBefore(t) ==
    Content([t EXCEPT !.lines = SubSeq(@, 1, t.line) \o <<SubSeq(@[t.line + 1], 1, t.col)>>])
DeleteForwardOnly ==
    [][ Len(kb'.buf) < Len(kb.buf) /\ focus = "editor"
        /\ Head(kb.buf).key = "Delete" /\ Head(kb.buf).pressed
        => IsPrefix(TextBefore(ed), Content(ed')) ]_vars
=============================================================================
