------------------------------ MODULE CottonFS ------------------------------
(***************************************************************************)
(* CottonFS, the persistent filesystem (kernel/src/fs/cottonfs.rs), and    *)
(* the path-level calls on it (kernel/src/fs/mod.rs).                      *)
(*                                                                         *)
(* A filesystem call runs alone (only the main context uses the            *)
(* filesystem), but power can fail between any two of its block writes.    *)
(* A call is therefore two things: its effect on memory, and the list of   *)
(* block writes it makes, in order.  The action of the call changes memory *)
(* and queues the writes in io; DiskWrite performs them one by one; Crash  *)
(* drops memory and the writes that are left.  No call starts while io is  *)
(* not empty.  The disk may also refuse one write of a call, which then    *)
(* gets an error.                                                          *)
(*                                                                         *)
(* Inside a call the filesystem is a record s: memory, the disk as the     *)
(* call sees it, the writes so far, and the outcome.                       *)
(***************************************************************************)
EXTENDS Integers, Sequences, SequencesExt, FiniteSets, FiniteSetsExt, TLC

CONSTANTS
    MAX_INODES,         \* inode slots, slot 0 included
    STORED,             \* direct pointers that fit the 128-byte slot
    BLOCK_SIZE,         \* cells (file data or directory entries) per block
    DATA_BLOCKS_START,  \* first data block
    DEV_BLOCKS,         \* blocks the disk really has
    SECTORS_PER_BLOCK,
    Paths,              \* the paths clients use, sequences of names
    BootDirs,           \* what create_directory_structure makes, in order
    BootFiles,          \* the <<path, data>> create_system_files writes
    Removable,          \* the paths clients remove
    Writes,             \* the <<offset, data>> clients write (`write` ignores offset)
    Calls,              \* the calls clients make
    MAX_CALLS,          \* bound on calls and refused writes together
    MAX_CRASHES,        \* bound on power failures and refused writes together
    MAX_FAULTS          \* bound on the writes the disk refuses

ROOT == 1
DIRECT == STORED + 4    \* DIRECT_BLOCKS: the slot holds four too few
BootPaths == ToSet(BootDirs) \cup {file[1] : file \in ToSet(BootFiles)}
Inos == 1 .. MAX_INODES - 1

\* CottonFS::new passes the device's sector count as the block count.
TOTAL_BLOCKS == DEV_BLOCKS * SECTORS_PER_BLOCK
DataBlocks == TOTAL_BLOCKS - DATA_BLOCKS_START

\* A cell is empty, a unit of file data <<v>>, or a directory entry
\* <<name, ino, type>>.
ZERO == <<>>
IsEntry(c) == Len(c) = 3
Zeros(n) == [k \in 1 .. n |-> 0]
ZeroBlock == [k \in 1 .. BLOCK_SIZE |-> ZERO]

-----------------------------------------------------------------------------
(* The disk is a function from places to contents.                         *)

SB == <<"superblock", 0>>
IBM == <<"inode bitmap", 0>>
DBM == <<"data bitmap", 0>>
Slot(i) == <<"inode slot", i>>
Blk(b) == <<"block", b>>

FreshSlot(type) ==
    [type |-> type, size |-> 0, blocks |-> 0, direct |-> Zeros(STORED)]

\* A raw image: all zero.
RawDisk ==
    [p \in {SB, IBM, DBM}
           \cup {Slot(i) : i \in 0 .. MAX_INODES}
           \cup {Blk(b) : b \in DATA_BLOCKS_START .. DEV_BLOCKS - 1} |->
        CASE p = SB -> [magic |-> FALSE, free_blocks |-> 0, free_inodes |-> 0]
          [] p \in {IBM, DBM} -> {}
          [] p[1] = "inode slot" -> FreshSlot("free")
          [] p[1] = "block" -> ZeroBlock]

\* Superblock::new.
NewSuperblock ==
    [magic |-> TRUE, free_blocks |-> DataBlocks, free_inodes |-> MAX_INODES - 1]

VARIABLES
    disk,       \* what survives a crash
    mem,        \* superblock, bitmaps and inode cache of the mounted CottonFS
    mounted,    \* "off", "cotton", or "ram" when CottonFS::new failed
    io,         \* block writes of the running call still to be made
    calls,      \* number of calls so far (bound)
    crashes,    \* number of power failures so far (bound)
    faults,     \* number of writes the disk has refused so far (bound)
    unsure,     \* ghost: paths of the calls that met one since the last power-on
    formatted,  \* ghost: some boot has finished
    call,       \* ghost: the latest call or boot, the paths it names, its data,
                \* and whether it returned Ok
    view        \* ghost: the tree callers see, or the next mount will show

vars == <<disk, mem, mounted, io, calls, crashes, faults, unsure, formatted, call, view>>

NoMem == [sb |-> NewSuperblock, ibm |-> {}, dbm |-> {}, cache |-> <<>>]

-----------------------------------------------------------------------------
(* Running a call.                                                         *)

\* good: how many writes the disk accepts before it refuses one.
Healthy == -1
Enter(m, d, good) ==
    [sb |-> m.sb, ibm |-> m.ibm, dbm |-> m.dbm, cache |-> m.cache,
     disk |-> d, good |-> good, io |-> <<>>, ok |-> TRUE, ret |-> 0]

\* s; F, where an error returns early.
Then(s, F(_)) == IF s.ok THEN F(s) ELSE s

Fail(s) == [s EXCEPT !.ok = FALSE]

\* `let _ = F`: what F did stays, its error is dropped.
Ignore(s, F(_)) == [F(s) EXCEPT !.ok = TRUE]

\* write_block: an error beyond the end of the disk, and when it is refused.
Put(s, place, value) ==
    IF place \notin DOMAIN s.disk \/ Len(s.io) = s.good
    THEN [Fail(s) EXCEPT !.good = Healthy]
    ELSE [s EXCEPT !.disk[place] = value,
                   !.io = Append(@, [place |-> place, value |-> value])]

SyncSuperblock(s) == Put(s, SB, s.sb)
SyncInodeBitmap(s) == Put(s, IBM, s.ibm)
SyncDataBitmap(s) == Put(s, DBM, s.dbm)

-----------------------------------------------------------------------------
(* Bitmaps and counters.                                                   *)

AllocInode(s) ==
    LET free == Inos \ s.ibm
    IN  IF s.sb.free_inodes = 0 \/ free = {}
        THEN Fail(s)
        ELSE Then(SyncInodeBitmap([s EXCEPT !.ibm = @ \cup {Min(free)},
                                            !.sb.free_inodes = @ - 1,
                                            !.ret = Min(free)]),
                  SyncSuperblock)

\* Mutant: the counter is forgotten.
FreeInodeNoCount(s, i) ==
    IF i = ROOT
    THEN Fail(s)
    ELSE Then(SyncInodeBitmap([s EXCEPT !.ibm = @ \ {i},
                                        !.cache = Restrict(@, DOMAIN @ \ {i})]),
              SyncSuperblock)

FreeInode(s, i) ==
    IF i = ROOT
    THEN Fail(s)
    ELSE Then(SyncInodeBitmap([s EXCEPT !.ibm = @ \ {i},
                                        !.sb.free_inodes = @ + 1,
                                        !.cache = Restrict(@, DOMAIN @ \ {i})]),
              SyncSuperblock)

\* Mutant: the bitmap is not written back.
AllocBlockNoSync(s) ==
    LET free == (0 .. DataBlocks - 1) \ s.dbm
    IN  IF s.sb.free_blocks = 0 \/ free = {}
        THEN Fail(s)
        ELSE SyncSuperblock([s EXCEPT !.dbm = @ \cup {Min(free)},
                                      !.sb.free_blocks = @ - 1,
                                      !.ret = DATA_BLOCKS_START + Min(free)])

AllocBlock(s) ==
    LET free == (0 .. DataBlocks - 1) \ s.dbm
    IN  IF s.sb.free_blocks = 0 \/ free = {}
        THEN Fail(s)
        ELSE Then(SyncDataBitmap([s EXCEPT !.dbm = @ \cup {Min(free)},
                                           !.sb.free_blocks = @ - 1,
                                           !.ret = DATA_BLOCKS_START + Min(free)]),
                  SyncSuperblock)

FreeBlock(s, b) ==
    IF b < DATA_BLOCKS_START
    THEN Fail(s)
    ELSE IF b - DATA_BLOCKS_START \notin s.dbm
    THEN s
    ELSE Then(SyncDataBitmap([s EXCEPT !.dbm = @ \ {b - DATA_BLOCKS_START},
                                       !.sb.free_blocks = @ + 1]),
              SyncSuperblock)

-----------------------------------------------------------------------------
(* Inodes.                                                                 *)

\* The first word of a used slot read as a block number: mode and type, far
\* above every block that is ever allocated.
ModeWord(slot) == IF slot.type = "free" THEN 0 ELSE TOTAL_BLOCKS + 1

\* read_disk_inode: DiskInode is 168 bytes and slots are 128 bytes apart, so
\* the last four direct pointers are the first four words of the next slot:
\* mode, group, size and blocks.
ReadDiskInode(s, i) ==
    LET this == s.disk[Slot(i)]
        next == s.disk[Slot(i + 1)]
    IN  [type |-> this.type, size |-> this.size, blocks |-> this.blocks,
         direct |-> this.direct \o <<ModeWord(next), 0, next.size, next.blocks>>,
         loaded |-> FALSE, content |-> <<>>, dirty |-> FALSE]

\* load_inode_internal.
LoadInode(s, i) ==
    IF i \in DOMAIN s.cache
    THEN [s EXCEPT !.ret = i]
    ELSE IF s.disk[Slot(i)].type = "free"
    THEN Fail(s)
    ELSE [s EXCEPT !.cache = (i :> ReadDiskInode(s, i)) @@ @, !.ret = i]

\* Mutant: the slot is erased before it is written.
WriteDiskInodeErases(s, i) ==
    LET n == s.cache[i]
    IN  Then(Put(s, Slot(i), FreshSlot("free")),
             LAMBDA t : Put(t, Slot(i), [type |-> n.type, size |-> n.size,
                                         blocks |-> n.blocks,
                                         direct |-> SubSeq(n.direct, 1, STORED)]))

\* write_disk_inode: 128 of the 168 bytes.
WriteDiskInode(s, i) ==
    LET n == s.cache[i]
    IN  Put(s, Slot(i), [type |-> n.type, size |-> n.size, blocks |-> n.blocks,
                         direct |-> SubSeq(n.direct, 1, STORED)])

BlocksFor(cells) == (cells + BLOCK_SIZE - 1) \div BLOCK_SIZE

\* Blocks load_dir_entries (to the first null pointer) and load_file_data
\* (also no further than the size) read.
BlocksToRead(n) ==
    Min({k \in 1 .. DIRECT : \/ n.direct[k] = 0
                             \/ n.type = "file" /\ k > BlocksFor(n.size)}
            \cup {DIRECT + 1}) - 1

\* load_dir_entries and load_file_data.
LoadContent(s, i) ==
    LET n == s.cache[i]
        blocks == BlocksToRead(n)
        cells == [c \in 1 .. blocks * BLOCK_SIZE |->
                    s.disk[Blk(n.direct[((c - 1) \div BLOCK_SIZE) + 1])]
                          [((c - 1) % BLOCK_SIZE) + 1]]
    IN  IF n.loaded
        THEN s
        ELSE IF \E k \in 1 .. blocks : Blk(n.direct[k]) \notin DOMAIN s.disk
        THEN Fail(s)
        ELSE [s EXCEPT !.cache[i].loaded = TRUE,
                       !.cache[i].content =
                           IF n.type = "dir"
                           THEN SelectSeq(cells, IsEntry)
                           ELSE SubSeq(cells, 1, Min({n.size, Len(cells)}))]

\* Block k of the content, zero padded.
BlockOf(content, k) ==
    [c \in 1 .. BLOCK_SIZE |->
        LET j == (k - 1) * BLOCK_SIZE + c
        IN  IF j <= Len(content) THEN content[j] ELSE ZERO]

\* One turn of the write loop: allocate the block if the pointer is null,
\* write it.
SaveBlock(s, i, k) ==
    LET GetBlock(t) == IF t.cache[i].direct[k] # 0
                       THEN t
                       ELSE Then(AllocBlock(t),
                                 LAMBDA u : [u EXCEPT !.cache[i].direct[k] = u.ret])
    IN  Then(GetBlock(s),
             LAMBDA t : Put(t, Blk(t.cache[i].direct[k]),
                            BlockOf(t.cache[i].content, k)))

\* One turn of the loop that frees what a shorter file no longer needs.
DropBlock(s, i, k) ==
    IF s.cache[i].direct[k] = 0
    THEN s
    ELSE [Ignore(s, LAMBDA t : FreeBlock(t, t.cache[i].direct[k]))
            EXCEPT !.cache[i].direct[k] = 0]

\* Mutant: the inode is not written back.
SaveContentNoInode(s, i) ==
    LET content == s.cache[i].content
        needed == BlocksFor(Len(content))
        written == FoldLeft(LAMBDA t, k : Then(t, LAMBDA u : SaveBlock(u, i, k)),
                            s, [k \in 1 .. Min({needed, DIRECT}) |-> k])
    IN  Then(written, LAMBDA t : [t EXCEPT !.cache[i].size = Len(content),
                                           !.cache[i].blocks = needed,
                                           !.cache[i].dirty = FALSE])

\* save_dir_entries and save_file_data.  Only the latter frees blocks.
SaveContent(s, i) ==
    LET content == s.cache[i].content
        needed == BlocksFor(Len(content))
        written == FoldLeft(LAMBDA t, k : Then(t, LAMBDA u : SaveBlock(u, i, k)),
                            s, [k \in 1 .. Min({needed, DIRECT}) |-> k])
        Drop(t) == IF t.cache[i].type = "dir"
                   THEN t
                   ELSE FoldLeft(LAMBDA u, k : DropBlock(u, i, k), t,
                                 [k \in 1 .. DIRECT - Min({needed, DIRECT}) |->
                                    needed + k])
        Update(t) == [t EXCEPT !.cache[i].size = Len(content),
                               !.cache[i].blocks = needed]
        Clean(t) == [t EXCEPT !.cache[i].dirty = FALSE]
    IN  Then(Then(written, LAMBDA t : WriteDiskInode(Update(Drop(t)), i)), Clean)

-----------------------------------------------------------------------------
(* Operations of an inode (impl Inode for CottonInode).                    *)

\* Positions of name in a loaded directory.
Positions(n, name) == {k \in 1 .. Len(n.content) : n.content[k][1] = name}

Lookup(s, dir, name) ==
    IF s.cache[dir].type # "dir"
    THEN Fail(s)
    ELSE Then(LoadContent(s, dir),
              LAMBDA t :
                LET found == Positions(t.cache[dir], name)
                IN  IF found = {}
                    THEN Fail(t)
                    ELSE LoadInode(t, t.cache[dir].content[Min(found)][2]))

\* create and mkdir differ in the type only.
CreateIn(s, dir, name, type) ==
    LET AddEntry(t, i) ==
            [t EXCEPT !.cache[dir].content = Append(@, <<name, i, type>>),
                      !.cache[dir].loaded = TRUE,
                      !.cache[dir].dirty = TRUE]
        Finish(t) ==
            LET i == t.ret
            IN  Then(Then(Put(t, Slot(i), FreshSlot(type)),
                          LAMBDA u : SaveContent(AddEntry(u, i), dir)),
                     LAMBDA u : LoadInode(u, i))
        loaded == Ignore(s, LAMBDA t : LoadContent(t, dir))
    IN  IF s.cache[dir].type # "dir"
        THEN Fail(s)
        ELSE IF Positions(loaded.cache[dir], name) # {}
        THEN Fail(loaded)
        ELSE Then(AllocInode(loaded), Finish)

\* Mutant: the inode is freed before the entry is gone.
UnlinkInFreesFirst(s, dir, name) ==
    Then(LoadContent(s, dir),
         LAMBDA t :
            LET found == Positions(t.cache[dir], name)
                i == t.cache[dir].content[Min(found)][2]
            IN  IF found = {}
                THEN Fail(t)
                ELSE Then(FreeInode(t, i),
                          LAMBDA u : SaveContent([u EXCEPT !.cache[dir].content =
                                                     RemoveAt(@, Min(found))], dir)))

UnlinkIn(s, dir, name) ==
    LET Remove1(t, k) == [t EXCEPT !.cache[dir].content = RemoveAt(@, k),
                                   !.cache[dir].dirty = TRUE]
    IN  IF s.cache[dir].type # "dir"
        THEN Fail(s)
        ELSE Then(LoadContent(s, dir),
                  LAMBDA t :
                    LET found == Positions(t.cache[dir], name)
                        i == t.cache[dir].content[Min(found)][2]
                    IN  IF found = {}
                        THEN Fail(t)
                        ELSE Then(SaveContent(Remove1(t, Min(found)), dir),
                                  LAMBDA u : FreeInode(u, i)))

\* Mutant: what follows the written range is lost.
SplicedCuts(content, offset, data) ==
    [k \in 1 .. offset + Len(data) |->
        IF k > offset THEN data[k - offset]
        ELSE IF k <= Len(content) THEN content[k] ELSE ZERO]

\* The content after data is written at offset, zero-extended.
Spliced(content, offset, data) ==
    [k \in 1 .. Max({Len(content), offset + Len(data)}) |->
        IF k > offset /\ k <= offset + Len(data) THEN data[k - offset]
        ELSE IF k <= Len(content) THEN content[k] ELSE ZERO]

SetContent(s, i, content) ==
    SaveContent([s EXCEPT !.cache[i].content = content,
                          !.cache[i].loaded = TRUE,
                          !.cache[i].dirty = TRUE], i)

WriteAt(s, i, offset, data) ==
    LET loaded == Ignore(s, LAMBDA t : LoadContent(t, i))
    IN  IF s.cache[i].type # "file"
        THEN Fail(s)
        ELSE SetContent(loaded, i, Spliced(loaded.cache[i].content, offset, data))

\* truncate(0), the only size the kernel uses.
Truncate(s, i) ==
    IF s.cache[i].type # "file" THEN Fail(s) ELSE SetContent(s, i, <<>>)

-----------------------------------------------------------------------------
(* Paths (fs::lookup and the calls of fs/mod.rs).                          *)

Walk(s, path) ==
    FoldLeft(LAMBDA t, name : Then(t, LAMBDA u : Lookup(u, u.ret, name)),
             [s EXCEPT !.ret = ROOT], path)

FsCreate(s, path, type) ==
    Then(Walk(s, Front(path)),
         LAMBDA t : CreateIn(t, t.ret, Last(path), type))

FsRemove(s, path) ==
    Then(Walk(s, Front(path)), LAMBDA t : UnlinkIn(t, t.ret, Last(path)))

\* The terminal's `write`: existing file or a new one, written in place.
ShellWrite(s, path, data) ==
    Then(IF Walk(s, path).ok THEN Walk(s, path) ELSE FsCreate(s, path, "file"),
         LAMBDA t : WriteAt(t, t.ret, 0, data))

\* FileDescriptor::write after a seek to offset.
DescriptorWrite(s, path, offset, data) ==
    Then(Walk(s, path), LAMBDA t : WriteAt(t, t.ret, offset, data))

\* fs::write_file: truncate, then write (the closing sync finds the inode
\* clean).
WriteFile(s, path, data) ==
    LET found == Walk(s, path)
        emptied == Ignore(found, LAMBDA t : Truncate(t, t.ret))
    IN  Then(IF found.ok THEN emptied ELSE FsCreate(s, path, "file"),
             LAMBDA t : WriteAt(t, t.ret, 0, data))

\* fs::read_file and the editor: the content is loaded into the cache.
ReadFile(s, path) ==
    Then(Walk(s, path), LAMBDA t : LoadContent(t, t.ret))

\* sync_all: every dirty cached inode, then the metadata.
SyncAll(s) ==
    LET dirty == {i \in DOMAIN s.cache : s.cache[i].dirty}
        saved == FoldLeft(LAMBDA t, i : Then(t, LAMBDA u : SaveContent(u, i)),
                          s, SetToSortSeq(dirty, <))
    IN  Then(Then(Then(saved, SyncSuperblock), SyncInodeBitmap), SyncDataBitmap)

-----------------------------------------------------------------------------
(* Mounting (CottonFS::new) and booting (fs::init).                        *)

Format(s) ==
    Then(Then(Then(SyncSuperblock(s), SyncInodeBitmap), SyncDataBitmap),
         LAMBDA t : Put(t, Slot(ROOT), FreshSlot("dir")))

Mount(d, good) ==
    LET raw == ~d[SB].magic
        m == [sb |-> IF raw THEN NewSuperblock ELSE d[SB],
              ibm |-> IF raw THEN {ROOT} ELSE d[IBM],
              dbm |-> IF raw THEN {} ELSE d[DBM],
              cache |-> <<>>]
    IN  Then(IF raw THEN Format(Enter(m, d, good)) ELSE Enter(m, d, good),
             LAMBDA s : LoadInode(s, ROOT))

\* create_directory_structure: a failure is only logged.
MakeBootDirs(s) ==
    FoldLeft(LAMBDA t, path :
                IF Walk(t, path).ok
                THEN Walk(t, path)
                ELSE [FsCreate(t, path, "dir") EXCEPT !.ok = TRUE],
             s, BootDirs)

\* create_system_files: errors are dropped.
MakeBootFiles(s) ==
    FoldLeft(LAMBDA t, file :
                IF Walk(t, file[1]).ok
                THEN Walk(t, file[1])
                ELSE Ignore(t, LAMBDA u : WriteFile(u, file[1], file[2])),
             s, BootFiles)

-----------------------------------------------------------------------------
(* The system.                                                             *)

\* The abstract tree that callers see.
Tree == INSTANCE FileTree WITH tree <- view

\* What fs::lookup and a read find at path.
NodeAt(s, path) ==
    LET found == Walk(s, path)
        i == found.ret
        loaded == LoadContent(found, i)
    IN  IF ~found.ok THEN <<"absent">>
        ELSE IF found.cache[i].type = "dir" THEN <<"dir">>
        ELSE IF ~loaded.ok THEN <<"unreadable">>
        ELSE <<"file", loaded.cache[i].content>>

TreeOf(s) == [path \in Paths |-> NodeAt(s, path)]

\* What a mount of disk d shows: nothing when it fails.
MountedTree(d) ==
    IF Mount(d, Healthy).ok
    THEN TreeOf(Mount(d, Healthy))
    ELSE [path \in Paths |-> <<"absent">>]

Init ==
    /\ disk = RawDisk
    /\ mem = NoMem
    /\ mounted = "off"
    /\ io = <<>>
    /\ calls = 0
    /\ crashes = 0
    /\ faults = 0 /\ unsure = {}
    /\ formatted = FALSE
    /\ call = Tree!Called("none", {}, <<>>, TRUE)
    /\ view = MountedTree(RawDisk)

\* The state after a call whose run is s.
Leave(s) ==
    /\ mem' = [sb |-> s.sb, ibm |-> s.ibm, dbm |-> s.dbm, cache |-> s.cache]
    /\ io' = s.io
    /\ view' = TreeOf([s EXCEPT !.ok = TRUE])

\* The disk accepts all of the writes that Run, a call on paths, makes, or all
\* but one.  It refuses none before a first boot has finished.
OnDisk(Run(_), paths, Outcome(_)) ==
    \/ Outcome(Run(Healthy)) /\ UNCHANGED <<faults, unsure>>
    \/ /\ formatted /\ faults < MAX_FAULTS /\ crashes + faults < MAX_CRASHES
       /\ \E good \in 0 .. Len(Run(Healthy).io) - 1 : Outcome(Run(good))
       /\ faults' = faults + 1
       /\ unsure' = unsure \cup paths

\* fs::init: CottonFS, or a RAM filesystem when it cannot be mounted.
Boot ==
    LET missing == {path \in BootPaths : view[path] = Tree!Absent}
        Start(good) == Then(Mount(disk, good), LAMBDA s : MakeBootFiles(MakeBootDirs(s)))
        Booted(s) ==
            IF s.ok
            THEN Leave(s) /\ mounted' = "cotton"
            ELSE mounted' = "ram" /\ io' = s.io /\ UNCHANGED <<mem, view>>
    IN  /\ mounted = "off"
        /\ OnDisk(Start, missing, Booted)
        /\ call' = Tree!Called("boot", missing, <<>>, TRUE)
        /\ UNCHANGED <<disk, calls, crashes, formatted>>

\* fs::init returns.
BootDone ==
    /\ mounted = "cotton"
    /\ io = <<>>
    /\ ~formatted
    /\ formatted' = TRUE
    /\ UNCHANGED <<disk, mem, mounted, io, calls, crashes, faults, unsure, call, view>>

Call(name, path, data, Effect(_)) ==
    LET Returns(s) == Leave(s) /\ call' = Tree!Called(name, {path}, data, s.ok)
    IN  /\ mounted = "cotton" /\ formatted
        /\ io = <<>>
        /\ name \in Calls
        /\ calls + faults < MAX_CALLS
        /\ calls' = calls + 1
        /\ OnDisk(LAMBDA good : Effect(Enter(mem, disk, good)), {path}, Returns)
        /\ UNCHANGED <<disk, mounted, crashes, formatted>>

Create(path) == Call("create", path, <<>>, LAMBDA s : FsCreate(s, path, "file"))
Mkdir(path) == Call("mkdir", path, <<>>, LAMBDA s : FsCreate(s, path, "dir"))
Unlink(path) == Call("remove", path, <<>>, LAMBDA s : FsRemove(s, path))
Write(path, w) == Call("write", path, w, LAMBDA s : ShellWrite(s, path, w[2]))
WriteSeek(path, w) ==
    Call("seek", path, w, LAMBDA s : DescriptorWrite(s, path, w[1], w[2]))
Replace(path, w) == Call("write_file", path, w, LAMBDA s : WriteFile(s, path, w[2]))
Read(path) == Call("read", path, <<>>, LAMBDA s : ReadFile(s, path))
Sync == Call("sync", <<>>, <<>>, SyncAll)

ClientCall ==
    \/ \E path \in Paths : Create(path) \/ Mkdir(path) \/ Read(path)
    \/ \E path \in Removable : Unlink(path)
    \/ \E path \in Paths, w \in Writes :
          Write(path, w) \/ WriteSeek(path, w) \/ Replace(path, w)
    \/ Sync

\* The next block write of the running call reaches the disk.
DiskWrite ==
    /\ io # <<>>
    /\ disk' = [disk EXCEPT ![Head(io).place] = Head(io).value]
    /\ io' = Tail(io)
    /\ UNCHANGED <<mem, mounted, calls, crashes, faults, unsure, formatted, call, view>>

PowerOff ==
    /\ mounted' = "off"
    /\ mem' = NoMem
    /\ io' = <<>>
    /\ view' = MountedTree(disk)
    /\ unsure' = {}
    /\ UNCHANGED <<disk, calls, faults, formatted, call>>

\* The machine is reset between calls.
Reset ==
    /\ mounted # "off"
    /\ io = <<>>
    /\ PowerOff
    /\ UNCHANGED crashes

\* Power fails during a call.
Crash ==
    /\ io # <<>>
    /\ crashes + faults < MAX_CRASHES
    /\ crashes' = crashes + 1
    /\ PowerOff

Next == Boot \/ BootDone \/ ClientCall \/ DiskWrite \/ Reset \/ Crash

Spec == Init /\ [][Next]_vars

-----------------------------------------------------------------------------
(* Reading the disk.                                                       *)

\* The blocks inode i points to on disk, and the entries of directory i.
BlocksOf(i) == ToSet(disk[Slot(i)].direct) \ {0}
EntriesOf(i) ==
    IF disk[Slot(i)].type # "dir" THEN {}
    ELSE {c \in UNION {ToSet(disk[Blk(b)]) : b \in BlocksOf(i)} : IsEntry(c)}
Children(S) == UNION {{e[2] : e \in EntriesOf(i)} : i \in S}

\* Inodes with a path from the root on disk.
Reachable == FoldLeft(LAMBDA S, k : S \cup Children(S), {ROOT},
                      [k \in 1 .. MAX_INODES |-> k])

-----------------------------------------------------------------------------
(* Properties.                                                             *)

\* Every part of the mounted filesystem keeps its type, and inodes in the
\* cache are real ones.
TypeOK ==
    /\ mounted \in {"off", "cotton", "ram"}
    /\ mem.ibm \subseteq Inos /\ disk[IBM] \subseteq Inos
    /\ mem.dbm \subseteq 0 .. DataBlocks - 1
    /\ mem.sb.free_blocks \in Nat /\ mem.sb.free_inodes \in Nat
    /\ DOMAIN mem.cache \subseteq Inos
    /\ \A i \in DOMAIN mem.cache : mem.cache[i].type \in {"file", "dir"}
    /\ calls \in 0 .. MAX_CALLS /\ crashes \in 0 .. MAX_CRASHES
    /\ faults \in 0 .. MAX_FAULTS /\ unsure \subseteq Paths \cup {<<>>}

\* On disk, whatever instant power fails at and whichever write the disk
\* refuses, between and during boots, in-place writes and removals: an inode
\* that can be reached is marked in the inode bitmap and has one name only, its
\* blocks are marked in the data bitmap, and no block belongs to two inodes
\* ("a simple, safe, and persistent filesystem").
DiskConsistent ==
    formatted =>
        /\ Reachable \subseteq disk[IBM]
        /\ \A i \in Reachable : \A b \in BlocksOf(i) :
              b - DATA_BLOCKS_START \in disk[DBM]
        /\ \A i, j \in Reachable :
              i # j => /\ BlocksOf(i) \cap BlocksOf(j) = {}
                       /\ {e[2] : e \in EntriesOf(i)} \cap {e[2] : e \in EntriesOf(j)} = {}
        /\ \A i \in Reachable : \A e, f \in EntriesOf(i) : e[2] = f[2] => e = f

\* When a call has returned, what it did is on disk: a reset now and a new
\* mount show the tree the running system shows ("Persistent storage with
\* immediate sync").
CallsDurable ==
    mounted = "cotton" /\ io = <<>> => view = MountedTree(disk)

\* No step of in-place writes and removals, crash, reboot and disk error
\* included, changes what is at a path other than the one the latest call
\* named; a boot only adds what fs::init creates, where nothing was.  What a
\* call did in memory and then failed to write is visible until the power goes.
OnlyTargetChanges ==
    [][\A path \in Paths :
          view'[path] # view[path] => path \in call'.paths \cup unsure]_vars

\* The superblock's counters and the bitmaps are written separately and never
\* compared again: each power failure and each refused write can move them one
\* apart, no more.
CountersDrift ==
    mounted = "cotton" /\ io = <<>> =>
        /\ mem.sb.free_blocks - (DataBlocks - Cardinality(mem.dbm))
              \in -(crashes + faults) .. crashes + faults
        /\ mem.sb.free_inodes - (MAX_INODES - Cardinality(mem.ibm))
              \in -(crashes + faults) .. crashes + faults

\* Once a first boot has finished, no crash and no disk error leaves a disk that
\* CottonFS::new refuses (which would put the user on the RAM filesystem).
StaysMountable == formatted => Mount(disk, Healthy).ok

\* The filesystem implements the file tree: each call is one atomic change of
\* the tree and resets between calls are invisible ("files you create survive
\* reboots").
ImplementsFileTree == Tree!Spec

\* "Create or mount filesystem on the given block device": no crash, not even
\* during the first boot's format, leaves a disk that cannot be mounted.
AlwaysMountable == Mount(disk, Healthy).ok

\* "Remove file or empty directory" (fs::remove and the terminal's rm): a
\* remove strands nothing, so that between calls every allocated inode has a
\* path.
NoOrphans ==
    mounted = "cotton" /\ io = <<>> /\ crashes = 0 => mem.ibm = Reachable

\* total_blocks is the "Total blocks on disk": no block beyond the end of the
\* device is allocated.
AllocatedOnDevice ==
    \A b \in mem.dbm : b + DATA_BLOCKS_START < DEV_BLOCKS
=============================================================================
