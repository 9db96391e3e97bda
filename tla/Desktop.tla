------------------------------- MODULE Desktop -------------------------------
(***************************************************************************)
(* The desktop of gui/mod.rs: the windows and their focus, the file        *)
(* manager, the editor's tool bar and the Save As dialog, driven by the    *)
(* mouse and the keyboard, over a file system that the terminal changes    *)
(* as well.                                                                *)
(*                                                                         *)
(* Positions are left out: a frame finds the pointer over any part of any  *)
(* window, over the dock or over nothing.  The text of an editor is the    *)
(* number of the edit that made it, and scrolling is left out.             *)
(***************************************************************************)
EXTENDS Naturals, Sequences, FiniteSets, SequencesExt

CONSTANTS
    Kinds,      \* the windows the dock opens in this instance
    COLS,       \* columns the file manager's arrow keys assume (8)
    MAXIDS,     \* bound on the windows ever created
    MAXEDITS,   \* bound on the edits and shell commands
    MAXHIST     \* bound on a file manager's history

ASSUME ConstantsOK ==
    /\ Kinds \subseteq {"terminal", "files", "editor", "about", "browser"}
    /\ COLS \in Nat \ {0}
    /\ MAXIDS \in Nat /\ MAXEDITS \in Nat /\ MAXHIST \in Nat

VARIABLES
    left,       \* MOUSE.left, as the last packet of the mouse set it
    prev_left,  \* mouse_prev_left
    windows,    \* bottom to top
    next_id,    \* next_window_id
    fs,         \* what each path names: "none", "dir", or the text of a file
    edits,      \* number of edits and shell commands so far
    press       \* ghost: what the clicks of the current press of the button did

\* acts: clicks, early returns apart; steps: in or into the Save As dialog, up to 2;
\* deletes: windows whose Delete button removed a file; again: one did so twice.
NoPress == [acts |-> 0, steps |-> 0, deletes |-> {}, again |-> FALSE]

gui == <<prev_left, windows, next_id>>
vars == <<left, gui, fs, edits, press>>

-----------------------------------------------------------------------------
(* The files (external here): / has d and f, and /d an f of its own.       *)

Root == <<>>
Paths == { <<"d">>, <<"f">>, <<"d", "f">> }
IsDir(f, p) == IF p = Root THEN TRUE ELSE p \in Paths /\ f[p] = "dir"
IsFile(f, p) == p \in Paths /\ f[p] \notin {"none", "dir"}

\* refresh_files, SaveAsState::refresh: no entries if the directory is gone;
\* directories before files, and by name.
Listing(f, dir) ==
    LET names == SelectSeq(<<"d", "f">>, LAMBDA n : IsDir(f, Append(dir, n)))
                 \o SelectSeq(<<"d", "f">>, LAMBDA n : IsFile(f, Append(dir, n)))
    IN IF ~IsDir(f, dir) THEN <<>>
       ELSE [i \in DOMAIN names |->
                [name |-> names[i], is_dir |-> IsDir(f, Append(dir, names[i]))]]

DirsOf(f, dir) == SelectSeq(Listing(f, dir), LAMBDA e : e.is_dir)

\* What the lookup of a path that ends in an empty name (a "/") finds.
Real(p) == IF p # Root /\ Last(p) = "" THEN Front(p) ELSE p

\* fs::remove takes a directory with what is in it; fs::write_file writes a
\* file that is there, or creates it in its parent.
Without(f, p) == [q \in Paths |-> IF IsPrefix(p, q) THEN "none" ELSE f[q]]
CanWrite(f, p) ==
    \/ IsFile(f, Real(p))
    \/ p \in Paths /\ f[p] = "none" /\ IsDir(f, Front(p))
WriteFile(f, p, text) == IF CanWrite(f, p) THEN [f EXCEPT ![Real(p)] = text] ELSE f

-----------------------------------------------------------------------------
(* Windows and their contents                                              *)

Top == windows[Len(windows)]

\* FileManagerState::new
NewFiles == [path |-> Root, files |-> Listing(fs, Root), sel |-> 0, hist |-> <<Root>>, at |-> 1]

\* TextEditorState::new and load_file: a file that cannot be read gives an
\* empty editor without a name.
Loaded(f, p) == IF IsFile(f, Real(p)) THEN [file |-> <<p>>, text |-> f[Real(p)]]
                ELSE [file |-> <<>>, text |-> "0"]

\* SaveAsState::new.  The directory of a file in the root is the empty string,
\* which lists nothing.
NewSaveAs(e) ==
    IF e.file = <<>> THEN [dir |-> <<"d">>, empty |-> FALSE, name |-> "f",
                           dirs |-> DirsOf(fs, <<"d">>), text |-> e.text]
    ELSE LET d == Front(e.file[1]) IN
         [dir |-> d, empty |-> d = Root, name |-> Last(e.file[1]),
          dirs |-> IF d = Root THEN <<>> ELSE DirsOf(fs, d), text |-> e.text]

NewContent(kind) ==
    CASE kind = "files" -> NewFiles
      [] kind = "editor" -> Loaded(fs, Root)
      [] OTHER -> [none |-> 0]

\* create_window that leaves the others focused.
CreateWindowKeep(ws, id, kind, content) ==
    Append(ws, [id |-> id, kind |-> kind, focused |-> TRUE, dragging |-> FALSE, c |-> content])

\* create_window: the new one is on top and alone has the focus.
CreateWindow(ws, id, kind, content) ==
    Append([i \in DOMAIN ws |-> [ws[i] EXCEPT !.focused = FALSE]],
           [id |-> id, kind |-> kind, focused |-> TRUE, dragging |-> FALSE, c |-> content])

\* close_window gives the focus to no other window.
CloseWindow(ws, id) == SelectSeq(ws, LAMBDA w : w.id # id)

\* focus_window: the focus, and the top.
FocusWindow(ws, id) ==
    LET marked == [i \in DOMAIN ws |-> [ws[i] EXCEPT !.focused = (ws[i].id = id)]] IN
    SelectSeq(marked, LAMBDA w : w.id # id) \o SelectSeq(marked, LAMBDA w : w.id = id)

\* Replace the content of the top window.
SetTop(ws, content) == [ws EXCEPT ![Len(ws)].c = content]

-----------------------------------------------------------------------------
(* The file manager                                                        *)

\* refresh_files, after the path was set
Refresh(c, f, dir) == [c EXCEPT !.path = dir, !.files = Listing(f, dir), !.sel = 0]

\* navigate_to that keeps the forward history.
NavigateToKeep(c, dir) ==
    Refresh([c EXCEPT !.hist = Append(@, dir), !.at = Len(c.hist) + 1], fs, dir)

\* navigate_to
NavigateTo(c, dir) ==
    Refresh([c EXCEPT !.hist = Append(SubSeq(@, 1, c.at), dir), !.at = @ + 1], fs, dir)

GoBack(c) == IF c.at > 1 THEN Refresh([c EXCEPT !.at = @ - 1], fs, c.hist[c.at - 1]) ELSE c
GoForward(c) == IF c.at < Len(c.hist) THEN Refresh([c EXCEPT !.at = @ + 1], fs, c.hist[c.at + 1]) ELSE c

\* open_selected: only a directory.
OpenSelected(c) ==
    IF c.sel \in DOMAIN c.files /\ c.files[c.sel].is_dir
    THEN NavigateTo(c, Append(c.path, c.files[c.sel].name)) ELSE c

\* get_selected_file_path: <<>>, or the path of a file.
SelectedFile(c) ==
    IF c.sel \in DOMAIN c.files /\ ~c.files[c.sel].is_dir
    THEN <<Append(c.path, c.files[c.sel].name)>> ELSE <<>>

\* handle_key_event: the arrow keys.
Moved(c, key) ==
    IF c.sel = 0 THEN [c EXCEPT !.sel = IF c.files # <<>> THEN 1 ELSE 0]
    ELSE CASE key = "Up" -> [c EXCEPT !.sel = IF @ > COLS THEN @ - COLS ELSE @]
           [] key = "Down" -> [c EXCEPT !.sel = IF @ + COLS <= Len(c.files) THEN @ + COLS ELSE @]
           [] key = "Left" -> [c EXCEPT !.sel = IF @ > 1 THEN @ - 1 ELSE @]
           [] key = "Right" -> [c EXCEPT !.sel = IF @ + 1 <= Len(c.files) THEN @ + 1 ELSE @]

-----------------------------------------------------------------------------
(* handle_mouse.  A click gives what the frame changes, and whether the    *)
(* handler returns before it notes the state of the button.                *)

\* Parts of a window's content that react to a click.
Parts(kind) ==
    CASE kind = "files" -> {"back", "forward", "delete", "open", "cell1", "cell2", "cell3"}
      [] kind = "editor" -> {"save", "saveas", "text"}
      [] kind = "saveas" -> {"save", "cancel", "row0", "row1"}
      [] OTHER -> {"blank"}

Cell(part) == CASE part = "cell1" -> 1 [] part = "cell2" -> 2 [] part = "cell3" -> 3

\* What a click leaves: windows, files, whether a window was opened, whether
\* the handler returned early, and whether it deleted or stepped (ghosts).
Result(ws, f) == [windows |-> ws, fs |-> f, opened |-> FALSE, early |-> FALSE,
                  deleted |-> 0, stepped |-> 0]
OpenEditor(ws, f, p) ==
    [Result(CreateWindow(ws, next_id, "editor", Loaded(f, p)), f) EXCEPT !.opened = TRUE, !.early = TRUE]

FilesClick(ws, part) ==
    LET c == ws[Len(ws)].c
        file == SelectedFile(c)
    IN CASE part = "back" -> Result(SetTop(ws, GoBack(c)), fs)
         [] part = "forward" -> Result(SetTop(ws, GoForward(c)), fs)
         [] part \in {"delete", "open"} /\ file = <<>> -> Result(ws, fs)
         [] part = "delete" /\ file # <<>> ->
              [Result(SetTop(ws, Refresh(c, Without(fs, file[1]), c.path)), Without(fs, file[1]))
                 EXCEPT !.early = TRUE, !.deleted = ws[Len(ws)].id]
         [] part = "open" /\ file # <<>> -> OpenEditor(ws, fs, file[1])
         [] OTHER ->
              LET k == Cell(part) IN
              IF k > Len(c.files) THEN Result(SetTop(ws, [c EXCEPT !.sel = 0]), fs)
              ELSE IF c.sel # k THEN Result(SetTop(ws, [c EXCEPT !.sel = k]), fs)
              ELSE IF file # <<>> THEN OpenEditor(ws, fs, file[1])
              ELSE Result(SetTop(ws, OpenSelected(c)), fs)

\* save_file and the Save As button.
EditorClick(ws, part) ==
    LET c == ws[Len(ws)].c IN
    CASE part = "save" ->
           Result(ws, IF c.file # <<>> THEN WriteFile(fs, c.file[1], c.text) ELSE fs)
      [] part = "saveas" ->
           [Result(CreateWindow(ws, next_id, "saveas", NewSaveAs(c)), fs)
              EXCEPT !.opened = TRUE, !.early = TRUE, !.stepped = 1]
      [] OTHER -> Result(ws, fs)

\* Save in the dialog, by button or Enter: the result of the write is ignored.
Target(c) == Append(c.dir, c.name)
Written(c) == WriteFile(fs, Target(c), c.text)

\* A row of the dialog's list: the parent first, except at "/".  The empty
\* directory has no parent: it stays, and the handler returns all the same.
Step(c, row) ==
    LET atRoot == c.dir = Root /\ ~c.empty
        entry == IF atRoot THEN row + 1 ELSE row
        to(dir) == <<[c EXCEPT !.dir = dir, !.empty = FALSE, !.dirs = DirsOf(fs, dir)]>>
    IN IF entry = 0 THEN IF c.empty THEN <<c>> ELSE to(Front(c.dir))
       ELSE IF entry <= Len(c.dirs) THEN to(Append(c.dir, c.dirs[entry].name))
       ELSE <<>>

SaveAsClick(ws, part) ==
    LET w == ws[Len(ws)]
        c == w.c
        row == IF part = "row0" THEN 0 ELSE 1
    IN CASE part = "save" -> OpenEditor(CloseWindow(ws, w.id), Written(c), Target(c))
         [] part = "cancel" -> [Result(CloseWindow(ws, w.id), fs) EXCEPT !.early = TRUE]
         [] OTHER -> IF Step(c, row) = <<>> THEN Result(ws, fs)
                     ELSE [Result(SetTop(ws, Step(c, row)[1]), fs) EXCEPT !.early = TRUE, !.stepped = 1]

\* A click on window i: the close button, the title bar or the content.
WindowClick(i, part) ==
    LET w == windows[i]
        ws == FocusWindow(windows, w.id)
    IN CASE part = "close" -> Result(CloseWindow(windows, w.id), fs)
         [] part = "title" -> Result([ws EXCEPT ![Len(ws)].dragging = TRUE], fs)
         [] part \in Parts("files") /\ w.kind = "files" -> FilesClick(ws, part)
         [] part \in Parts("editor") /\ w.kind = "editor" -> EditorClick(ws, part)
         [] part \in Parts("saveas") /\ w.kind = "saveas" -> SaveAsClick(ws, part)
         [] OTHER -> Result(ws, fs)

DockClick(kind) ==
    [Result(CreateWindow(windows, next_id, kind, NewContent(kind)), fs) EXCEPT !.opened = TRUE]

\* handle_mouse that never notes a held button.
NotedFree(early) == FALSE

\* mouse_prev_left after the frame.
Noted(early) == IF early THEN prev_left ELSE left

NextId(opened) == IF opened THEN next_id + 1 ELSE next_id

\* The drag part of the frame: a released window stays where it is.
Dropped(ws) == [i \in DOMAIN ws |-> IF left THEN ws[i] ELSE [ws[i] EXCEPT !.dragging = FALSE]]

\* The bound on the histories.
Bounded(ws) == \A i \in DOMAIN ws : ws[i].kind = "files" => Len(ws[i].c.hist) <= MAXHIST

\* A frame in which the button was just pressed, over a window or the dock.
Click(r) ==
    /\ left /\ ~prev_left
    /\ next_id <= MAXIDS \/ ~r.opened
    /\ Bounded(r.windows)
    /\ windows' = r.windows
    /\ fs' = r.fs
    /\ next_id' = NextId(r.opened)
    /\ prev_left' = Noted(r.early)
    /\ press' = [acts |-> press.acts + (IF r.early THEN 0 ELSE 1),
                 steps |-> IF press.steps = 2 THEN 2 ELSE press.steps + r.stepped,
                 deletes |-> press.deletes \cup ({r.deleted} \ {0}),
                 again |-> press.again \/ r.deleted \in press.deletes]
    /\ UNCHANGED <<left, edits>>

ClickWindow == \E i \in DOMAIN windows :
    \E part \in {"close", "title", "blank"} \cup Parts(windows[i].kind) : Click(WindowClick(i, part))
ClickDock == \E kind \in Kinds : Click(DockClick(kind))

\* A frame without one, or over nothing.
Frame ==
    /\ windows' = Dropped(windows)
    /\ prev_left' = left
    /\ UNCHANGED <<left, next_id, fs, edits, press>>

\* drivers/mouse.rs: a packet sets the button.
Packet ==
    /\ left' = ~left
    /\ press' = NoPress
    /\ UNCHANGED <<gui, fs, edits>>

-----------------------------------------------------------------------------
(* The keyboard: handle_key_event and handle_keyboard, for the window that *)
(* has the focus.                                                          *)

Focused(kind) == windows # <<>> /\ Top.focused /\ Top.kind = kind

FilesKey(key) ==
    /\ Focused("files")
    /\ windows' = SetTop(windows, CASE key = "Enter" -> OpenSelected(Top.c)
                                    [] key = "Backspace" -> GoBack(Top.c)
                                    [] OTHER -> Moved(Top.c, key))
    /\ Bounded(windows')
    /\ press' = [press EXCEPT !.deletes = @ \ {Top.id}]
    /\ UNCHANGED <<left, prev_left, next_id, fs, edits>>

EditorKey ==
    /\ Focused("editor") /\ edits < MAXEDITS
    /\ edits' = edits + 1
    /\ windows' = SetTop(windows, [Top.c EXCEPT !.text = ToString(edits + 1)])
    /\ UNCHANGED <<left, prev_left, next_id, fs, press>>

\* The dialog: another name, Enter, Escape.
SaveAsName(name) ==
    /\ Focused("saveas")
    /\ windows' = SetTop(windows, [Top.c EXCEPT !.name = name])
    /\ UNCHANGED <<left, prev_left, next_id, fs, edits, press>>

SaveAsEnter ==
    /\ Focused("saveas") /\ next_id <= MAXIDS
    /\ fs' = Written(Top.c)
    /\ windows' = CloseWindow(CreateWindow(windows, next_id, "editor",
                                           Loaded(Written(Top.c), Target(Top.c))), Top.id)
    /\ next_id' = next_id + 1
    /\ UNCHANGED <<left, prev_left, edits, press>>

SaveAsEscape ==
    /\ Focused("saveas")
    /\ windows' = CloseWindow(windows, Top.id)
    /\ UNCHANGED <<left, prev_left, next_id, fs, edits, press>>

\* A shell command of the terminal: rm, or mkdir and touch of what is not there.
Shell(p, what) ==
    /\ Focused("terminal") /\ edits < MAXEDITS
    /\ edits' = edits + 1
    /\ fs' = IF what = "none" THEN Without(fs, p)
             ELSE IF fs[p] = "none" /\ IsDir(fs, Front(p)) THEN [fs EXCEPT ![p] = what] ELSE fs
    /\ UNCHANGED <<left, gui, press>>

Init ==
    /\ left = FALSE /\ prev_left = FALSE
    /\ windows = <<>> /\ next_id = 1
    /\ \/ fs = [p \in Paths |-> IF p = <<"d">> THEN "dir" ELSE "0"]
       \/ fs = [p \in Paths |-> IF p = <<"d", "f">> THEN "none" ELSE "0"]
    /\ edits = 0
    /\ press = NoPress

Next ==
    \/ Packet \/ ClickWindow \/ ClickDock \/ Frame
    \/ \E key \in {"Up", "Down", "Left", "Right", "Enter", "Backspace"} : FilesKey(key)
    \/ EditorKey
    \/ \E name \in {"f", ""} : SaveAsName(name)
    \/ SaveAsEnter \/ SaveAsEscape
    \/ \E p \in Paths, what \in {"none", "dir", "0"} : Shell(p, what)

Spec == Init /\ [][Next]_vars

-----------------------------------------------------------------------------
(* Properties                                                              *)

\* Type correctness.
TypeOK ==
    /\ {left, prev_left} \subseteq BOOLEAN
    /\ next_id \in 1..(MAXIDS + 1)
    /\ \A p \in Paths : fs[p] \in {"none", "dir"} \cup {ToString(n) : n \in 0..edits}
    /\ \A i \in DOMAIN windows : windows[i].id < next_id

\* At most one window has the focus, and it is the one on top; no two windows
\* share an id.  Keys go to the window the user sees in front.
FocusOnTop ==
    /\ \A i \in DOMAIN windows : windows[i].focused => i = Len(windows)
    /\ \A i, j \in DOMAIN windows : windows[i].id = windows[j].id => i = j

\* A window that is being dragged is in front, and the loop has seen the button
\* down: no press or key can start a second drag or strand the first.
OneDrag ==
    \A i \in DOMAIN windows :
        windows[i].dragging => i = Len(windows) /\ windows[i].focused /\ prev_left

\* The file manager shows the place its history says; the selection is inside
\* the list it was made in.
FilesInStep ==
    \A i \in DOMAIN windows :
        LET c == windows[i].c IN
        windows[i].kind = "files" =>
            /\ c.at \in DOMAIN c.hist /\ c.path = c.hist[c.at]
            /\ c.sel \in 0..Len(c.files)

\* Going somewhere cuts the history ahead and adds one place; back and forward
\* move along it and change nothing on it.
FilesHistory ==
    [][ \A i \in DOMAIN windows, j \in DOMAIN windows' :
          LET old == windows[i]
              new == windows'[j] IN
          old.id = new.id /\ old.kind = "files" =>
              \/ new.c.hist = old.c.hist /\ new.c.at \in (old.c.at - 1)..(old.c.at + 1)
              \/ Front(new.c.hist) = SubSeq(old.c.hist, 1, old.c.at) /\ new.c.at = Len(new.c.hist)
      ]_vars

\* Apart from the handlers that return early, one press of the button is one
\* click, however many frames it lasts and wherever the pointer goes meanwhile.
\* Delete returns early too, and the next frame clicks again, but one press
\* removes one file: nothing is selected then.  (Unless a key selected another
\* file in between.)
PressActsOnce == press.acts <= 1 /\ ~press.again

\* One click on a row of the Save As dialog goes one directory up or down, and
\* one click on Save As opens one dialog.
OneStep == press.steps <= 1
=============================================================================
