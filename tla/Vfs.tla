---------------------------------- MODULE Vfs ----------------------------------
(***************************************************************************)
(* Path names: the mount table and path resolution of fs/mod.rs, the RAM   *)
(* file system it falls back to when there is no disk, the device files of *)
(* fs/devfs.rs mounted at /dev, and the file commands and working          *)
(* directory of shell.rs, with the file system calls of                    *)
(* syscall/handlers.rs.                                                    *)
(*                                                                         *)
(* An absolute path is the sequence of what stands between its slashes     *)
(* after the first one: "/" is <<"">>, "//a" is <<"", "a">>.               *)
(***************************************************************************)
EXTENDS Naturals, Sequences, FiniteSets, SequencesExt

CONSTANTS
    Names,      \* names users give to files and directories
    Texts,      \* what they write into them, sequences of bytes
    MAXOBJ,     \* bound on the files and directories ever created
    MAXDEPTH    \* bound on the components of a path a user types

Devices == {"null", "zero", "random", "console", "tty"}
Odd == {"", ".", ".."}
Components == Names \cup Odd \cup {"dev"}

ASSUME ConstantsOK ==
    /\ MAXOBJ \in Nat \ {0} /\ MAXDEPTH \in Nat \ {0}
    /\ Names \cap (Odd \cup Devices \cup {"dev"}) = {}

\* Objects of the RAM file system are numbered in the order of their creation.
Objects == 0..MAXOBJ + 1
RootDir == 0
NoNode == "none"

VARIABLES
    nodes,      \* objects of the RAM file system: type, ino, kids or data
    created,    \* how many objects were created; the two NEXT_INO counters
    cwd,        \* CWD of the shell
    home,       \* ghost: the directory the last cd checked
    result      \* ghost: "ok" or "error" of the last command

vars == <<nodes, created, cwd, home, result>>

Free == [type |-> "free", ino |-> 0, kids |-> {}, data |-> <<>>]
Dir(ino) == [type |-> "dir", ino |-> ino, kids |-> {}, data |-> <<>>]
File(ino) == [type |-> "file", ino |-> ino, kids |-> {}, data |-> <<>>]

-----------------------------------------------------------------------------
(* Nodes: <<"ram", object>> or <<"dev", name>>; <<"dev", "">> is the root  *)
(* of the device file system.                                              *)

TypeOf(n) ==
    IF n[1] = "ram" THEN nodes[n[2]].type ELSE IF n[2] = "" THEN "dir" ELSE "device"

\* kids is a set of <<name, object>> pairs, one for a name.
KidsOf(o, name) == {k \in nodes[o].kids : k[1] = name}

\* RamInode::lookup and DevDir::lookup: no directory of either knows its parent.
Child(n, name) ==
    IF n = NoNode \/ TypeOf(n) # "dir" \/ name \in {".", ".."} THEN NoNode
    ELSE IF n[1] = "dev" THEN IF name \in Devices THEN <<"dev", name>> ELSE NoNode
    ELSE IF KidsOf(n[2], name) = {} THEN NoNode
    ELSE <<"ram", (CHOOSE k \in KidsOf(n[2], name) : TRUE)[2]>>

\* resolve_path: empty components and "." are skipped.
Resolve(start, path) ==
    FoldLeft(LAMBDA n, c : IF c \in {"", "."} THEN n ELSE Child(n, c), start, path)

\* lookup that takes the mount for every path that passes through the name.
LookupAnywhere(path) ==
    IF \E i \in DOMAIN path : path[i] = "dev"
    THEN LET i == CHOOSE k \in DOMAIN path : path[k] = "dev" IN
         Resolve(<<"dev", "">>, SubSeq(path, i + 1, Len(path)))
    ELSE Resolve(<<"ram", RootDir>>, path)

\* fs::lookup: the mount at /dev takes the paths that begin with it; the mount
\* at / the ones with two slashes in front.
Lookup(path) ==
    IF path[1] = "dev" THEN Resolve(<<"dev", "">>, Tail(path))
    ELSE IF path[1] = "" THEN Resolve(<<"ram", RootDir>>, Tail(path))
    ELSE Resolve(<<"ram", RootDir>>, path)

\* split_path: at the last slash.
Parent(path) == IF Len(path) = 1 THEN <<"">> ELSE Front(path)

\* Objects that can be reached from the root: the others are freed.
Below(ns) ==
    FoldLeft(LAMBDA S, i : S \cup {k[2] : k \in UNION {ns[o].kids : o \in S}},
             {RootDir}, [i \in 1..MAXOBJ |-> i])
Collected(ns) == [o \in Objects |-> IF o \in Below(ns) THEN ns[o] ELSE Free]

-----------------------------------------------------------------------------
(* Operations.  Each gives the new nodes and whether it succeeded.         *)

Failed == [nodes |-> nodes, ok |-> FALSE, new |-> FALSE]

\* fs::create and fs::mkdir, with RamInode::create and mkdir: a new entry under
\* any name but one that is taken.  The device directory makes nothing.
Make(path, node) ==
    LET p == Lookup(Parent(path))
        o == created.all + 1 IN
    IF p = NoNode \/ TypeOf(p) # "dir" \/ p[1] = "dev" \/ KidsOf(p[2], Last(path)) # {} THEN Failed
    ELSE [nodes |-> [nodes EXCEPT ![p[2]].kids = @ \cup {<<Last(path), o>>}, ![o] = node],
          ok |-> TRUE, new |-> TRUE]

\* RamInode::unlink: whatever has the name, with all below it; Ok even if
\* nothing has.
Unlink(path) ==
    LET p == Lookup(Parent(path)) IN
    IF p = NoNode \/ TypeOf(p) # "dir" \/ p[1] = "dev" THEN Failed
    ELSE [nodes |-> Collected([nodes EXCEPT ![p[2]].kids =
                                  {k \in @ : k[1] # Last(path)}]),
          ok |-> TRUE, new |-> FALSE]

\* write(0, text): the bytes after the text stay.
Overlay(data, text) ==
    [i \in 1..(IF Len(data) > Len(text) THEN Len(data) ELSE Len(text)) |->
        IF i <= Len(text) THEN text[i] ELSE data[i]]

\* Inode::write: a file takes it, a device discards or prints it.
WriteTo(ns, n, text) ==
    IF n[1] = "dev" THEN [nodes |-> ns, ok |-> n[2] # "", new |-> FALSE]
    ELSE IF ns[n[2]].type # "file" THEN [nodes |-> ns, ok |-> FALSE, new |-> FALSE]
    ELSE [nodes |-> [ns EXCEPT ![n[2]].data = Overlay(@, text)], ok |-> TRUE, new |-> FALSE]

\* exec_write: an existing file, or a new one.
WriteText(path, text) ==
    LET n == Lookup(path)
        made == Make(path, File(created.file))
    IN IF n # NoNode THEN WriteTo(nodes, n, text)
       ELSE IF ~made.ok THEN Failed
       ELSE [WriteTo(made.nodes, <<"ram", created.all + 1>>, text) EXCEPT !.new = TRUE]

\* fs::write_file truncates first; a device cannot be, which is ignored.
WriteFile(path, text) ==
    LET n == Lookup(path) IN
    IF n # NoNode /\ n[1] = "ram" /\ TypeOf(n) = "file"
    THEN [nodes |-> [nodes EXCEPT ![n[2]].data = text], ok |-> TRUE, new |-> FALSE]
    ELSE WriteText(path, text)

-----------------------------------------------------------------------------
(* The shell and the system calls                                          *)

\* A path put after another, by exec_ls and resolve_path: the root ends in a
\* slash of its own.
Joined(path, rest) == IF path = <<"">> THEN rest ELSE path \o rest

\* shell::resolve_path: a relative path is put after the working directory.
Absolute(arg) ==
    IF arg.abs THEN arg.path ELSE Joined(cwd, arg.path)

\* normalize_path that takes "." for the parent.
NormalizeUp(path) ==
    LET parts == FoldLeft(LAMBDA acc, c : IF c = "" THEN acc
                                          ELSE IF c \in {".", ".."} THEN IF acc = <<>> THEN acc ELSE Front(acc)
                                          ELSE Append(acc, c), <<>>, path)
    IN IF parts = <<>> THEN <<"">> ELSE parts

\* normalize_path
Normalize(path) ==
    LET parts == FoldLeft(LAMBDA acc, c : IF c \in {"", "."} THEN acc
                                          ELSE IF c = ".." THEN IF acc = <<>> THEN acc ELSE Front(acc)
                                          ELSE Append(acc, c), <<>>, path)
    IN IF parts = <<>> THEN <<"">> ELSE parts

\* exec_cd, which checks the path and keeps its normal form.
ExecCd(arg) ==
    LET n == Lookup(Absolute(arg)) IN
    /\ IF n # NoNode /\ TypeOf(n) = "dir"
       THEN /\ cwd' = Normalize(Absolute(arg))
            /\ home' = n
            /\ result' = "ok"
       ELSE result' = "error" /\ UNCHANGED <<cwd, home>>
    /\ UNCHANGED <<nodes, created>>

\* cd without an argument
ExecCdRoot ==
    /\ cwd' = <<"">> /\ home' = <<"ram", RootDir>> /\ result' = "ok"
    /\ UNCHANGED <<nodes, created>>

\* A command that changes files; kind says which counter a new object takes.
Change(r, kind) ==
    /\ r.new => created.all < MAXOBJ
    /\ nodes' = r.nodes
    /\ result' = IF r.ok THEN "ok" ELSE "error"
    /\ created' = IF ~r.new THEN created
                  ELSE [created EXCEPT !.all = @ + 1, ![kind] = @ + 1]
    /\ UNCHANGED <<cwd, home>>

\* exec_touch leaves alone what is there.
ExecTouch(arg) ==
    LET path == Absolute(arg) IN
    Change(IF Lookup(path) # NoNode THEN [Failed EXCEPT !.ok = TRUE]
           ELSE Make(path, File(created.file)), "file")

ExecMkdir(arg) == Change(Make(Absolute(arg), Dir(created.dir)), "dir")
ExecRm(arg) == Change(Unlink(Absolute(arg)), "file")
ExecWrite(arg, text) == Change(WriteText(Absolute(arg), text), "file")

\* The editor's and the Save As dialog's way to write.
GuiWrite(path, text) == Change(WriteFile(path, text), "file")

\* sys_mkdir, sys_unlink and sys_rmdir
SysMkdir(path) == Change(Make(path, Dir(created.dir)), "dir")
SysUnlink(path) == Change(Unlink(path), "file")

\* Paths users type.
Typed == UNION {[1..n -> Components] : n \in 1..MAXDEPTH}
Args == {a \in [abs : BOOLEAN, path : Typed] : ~a.abs => a.path[1] # ""}

\* init: the root and /dev in it, the only directory of the structure that
\* something is mounted on.
Init ==
    /\ nodes = [o \in Objects |->
                  CASE o = RootDir -> [Dir(1) EXCEPT !.kids = {<<"dev", 1>>}]
                    [] o = 1 -> Dir(1000)
                    [] OTHER -> Free]
    /\ created = [all |-> 1, file |-> 1000, dir |-> 1001]
    /\ cwd = <<"">> /\ home = <<"ram", RootDir>>
    /\ result = "ok"

Next ==
    \/ \E arg \in Args : ExecCd(arg) \/ ExecTouch(arg) \/ ExecMkdir(arg) \/ ExecRm(arg)
    \/ ExecCdRoot
    \/ \E arg \in Args, text \in Texts : ExecWrite(arg, text)
    \/ \E path \in Typed, text \in Texts : GuiWrite(path, text)
    \/ \E path \in Typed : SysMkdir(path) \/ SysUnlink(path)

Spec == Init /\ [][Next]_vars

-----------------------------------------------------------------------------

\* Objects, the counters, the working directory and the ghosts have their types.
TypeOK ==
    /\ \A o \in Objects :
         /\ nodes[o].type \in {"free", "dir", "file"} /\ nodes[o].ino \in Nat
         /\ nodes[o].kids \subseteq Components \X Objects
         /\ \A i \in DOMAIN nodes[o].data : nodes[o].data[i] \in UNION {Range(t) : t \in Texts}
    /\ created.all \in Objects /\ created.file \in Nat /\ created.dir \in Nat
    /\ cwd = <<"">> \/ \A i \in DOMAIN cwd : cwd[i] \in Components \ Odd
    /\ home \in {"ram"} \X Objects \cup {<<"dev", "">>}
    /\ result \in {"ok", "error"}

\* RamInode::create, mkdir and unlink keep a tree: every object but the root is
\* in exactly one directory, names in a directory are different, files contain
\* nothing, and numbers are shared by no two files and no two directories (a
\* file and a directory may share one: each kind counts from 1000).
TreeShape ==
    LET live == {o \in Objects : nodes[o].type # "free"} IN
    /\ \A o \in live \ {RootDir} :
         Cardinality({<<d, k>> \in live \X UNION {nodes[x].kids : x \in live} :
                         k \in nodes[d].kids /\ k[2] = o}) = 1
    /\ \A d \in live :
         /\ \A k \in nodes[d].kids : k[2] \in live
         /\ \A j, k \in nodes[d].kids : j[1] = k[1] => j = k
         /\ nodes[d].type = "file" => nodes[d].kids = {}
         /\ nodes[d].type = "dir" => nodes[d].data = <<>>
    /\ \A o, p \in live \ {RootDir} :
         o # p /\ nodes[o].type = nodes[p].type => nodes[o].ino # nodes[p].ino

\* What a directory lists, lookup finds: the path of a directory followed by
\* the name of an entry leads to that entry, whatever was created and removed
\* before.  The exceptions are the root's own dev, hidden by the mount, and
\* the names "", "." and "..", which touch and mkdir accept and no path reaches.
EntriesFound ==
    \A path \in Typed :
        LET d == Lookup(path) IN
        d # NoNode /\ d[1] = "ram" =>
            \A k \in nodes[d[2]].kids :
                \/ k[1] \in Odd
                \/ k[1] = "dev" /\ path = <<"">>
                \/ Lookup(Joined(path, <<k[1]>>)) = <<"ram", k[2]>>

\* cd checks one path and keeps another, its normal form.  As long as the
\* directory it checked exists, the kept path leads to that directory, after
\* any commands.  The exception is the root's own dev, reached with two
\* slashes: the kept "/dev" is the mounted one.
CwdIsHome ==
    home[1] = "dev" \/ nodes[home[2]].type = "dir" =>
        Lookup(cwd) = home \/ (cwd[1] = "dev" /\ home[1] = "ram")

\* A command or call that reports an error leaves files, directories and the
\* working directory as they were: exec_write creates nothing it cannot write.
ErrorChangesNothing ==
    [][result' = "error" => UNCHANGED <<nodes, created, cwd>>]_vars
=============================================================================
