------------------------------ MODULE FileTree ------------------------------
(***************************************************************************)
(* What a persistent filesystem promises its callers: a tree of names that *)
(* only the calls change.  A reboot is not an action here: it must be      *)
(* invisible.                                                              *)
(***************************************************************************)
EXTENDS Sequences, SequencesExt

CONSTANTS
    Paths,      \* sequences of names
    BootDirs,   \* directories every boot makes sure of
    BootFiles,  \* <<path, content>> of files every boot makes sure of
    Writes      \* the <<offset, data>> callers write

VARIABLES
    tree,   \* what is at each path
    call    \* the latest call

vars == <<tree, call>>

Absent == <<"absent">>
Dir == <<"dir">>
File(content) == <<"file", content>>

\* A call by name, the paths it names, what it writes, and its answer.
Called(name, paths, data, ok) ==
    [name |-> name, paths |-> paths, data |-> data, ok |-> ok]

IsDir(path) == path = <<>> \/ tree[path] = Dir
IsFile(path) == tree[path][1] = "file"
CanHoldFile(path) == IsFile(path) \/ (tree[path] = Absent /\ IsDir(Front(path)))
Below(path) == {q \in Paths : IsStrictPrefix(path, q)}

\* data replaces what is at offset, and the file grows as needed.
Overwritten(content, offset, data) ==
    LET gap == [k \in 1 .. offset - Len(content) |-> <<>>]
        tail == SubSeq(content, offset + Len(data) + 1, Len(content))
    IN  SubSeq(content \o gap, 1, offset) \o data \o tail

Init ==
    /\ tree = [path \in Paths |-> Absent]
    /\ call = Called("none", {}, <<>>, TRUE)

\* A boot tries to create what is missing.
Boot ==
    /\ \E paths \in SUBSET Paths : call' = Called("boot", paths, <<>>, TRUE)
    /\ \A path \in Paths :
          \/ tree'[path] = tree[path]
          \/ /\ tree[path] = Absent
             /\ \/ Contains(BootDirs, path) /\ tree'[path] = Dir
                \/ \E f \in ToSet(BootFiles) :
                      f[1] = path /\ tree'[path] = File(f[2])

Make(name, path, node) ==
    /\ call' = Called(name, {path}, <<>>, TRUE)
    /\ IsDir(Front(path))
    /\ tree[path] = Absent
    /\ tree' = [tree EXCEPT ![path] = node]

\* Only a file or an empty directory is removed.
Unlink(path) ==
    /\ call' = Called("remove", {path}, <<>>, TRUE)
    /\ tree[path] # Absent
    /\ \A q \in Below(path) : tree[q] = Absent
    /\ tree' = [tree EXCEPT ![path] = Absent]

WriteAt(name, path, offset, w) ==
    LET old == IF IsFile(path) THEN tree[path][2] ELSE <<>>
    IN  /\ call' = Called(name, {path}, w, TRUE)
        /\ CanHoldFile(path)
        /\ tree' = [tree EXCEPT ![path] = File(Overwritten(old, offset, w[2]))]

Replace(path, w) ==
    /\ call' = Called("write_file", {path}, w, TRUE)
    /\ CanHoldFile(path)
    /\ tree' = [tree EXCEPT ![path] = File(w[2])]

\* A call that only reads, or is refused.
NoEffect ==
    /\ call'.name \in {"read", "sync"} \/ ~call'.ok
    /\ UNCHANGED tree

Next ==
    \/ Boot
    \/ \E path \in Paths : \/ Make("create", path, File(<<>>))
                           \/ Make("mkdir", path, Dir)
                           \/ Unlink(path)
    \/ \E path \in Paths, w \in Writes : \/ WriteAt("write", path, 0, w)
                                         \/ WriteAt("seek", path, w[1], w)
                                         \/ Replace(path, w)
    \/ NoEffect

Spec == Init /\ [][Next]_vars
=============================================================================
