# CottonOS in TLA+

CottonOS is a hobby operating system: a Rust kernel for one x86-64 core with a
desktop, a network stack on an RTL8139 card and a persistent filesystem on an
ATA disk. This directory models its components in TLA+, checks them with TLC on
small instances and proves what matters most with TLAPS for every instance.

`PROJECT.json` lists the components, the runs, the mutants (a mutant is a
definition with a plausible bug that a property must catch), the map from
definitions to source lines, the findings, the hazards and the theorems.

## The system and what models it

| Part (`kernel/src/`) | Role | Modules |
|---|---|---|
| `mm/physical.rs`, `mm/heap.rs` | bitmap of 4 KB frames; a heap in identity-mapped frames | `FrameAllocator`, `FrameAllocatorProofs` |
| `fs/cottonfs.rs`, `fs/mod.rs` | on-disk filesystem and the path calls on it | `CottonFS`, `FileTree` |
| `fs/mod.rs`, `fs/devfs.rs`, `shell.rs` | mounts, path resolution, RAM filesystem, device files, the shell's file commands | `Vfs` |
| `drivers/storage/` | ATA PIO, the registry of disks | `Ata`, `AtaProofs` |
| `proc/`, process calls of `syscall/` | process table, priority queues, timer preemption | `Scheduler`, `SchedulerProofs`, `Retain`, `RetainProofs` |
| `sync/` | mutexes, semaphores, condition variable, barrier, once | `Sync`, `SyncProofs` |
| `drivers/keyboard.rs`, editor of `gui/mod.rs` | from the scan code to the text | `Typing`, `Timeline` |
| `drivers/mouse.rs` | PS/2 packets, pointer | `Mouse` |
| `gui/mod.rs` | windows, focus, file manager, Save As | `Desktop` |
| `task.rs`, `gui/mod.rs`, `browser.rs`, `crypto/tls.rs` | one side task that downloads a page while the desktop draws; the TCP socket, DNS and TLS phases it goes through | `NetTask`, `NetTaskProofs` |
| `drivers/network.rs` | RTL8139 rings; network configuration and DHCP | `Nic`, `NetConfig`, `NicProofs` |
| `browser.rs` | chunked responses; HTML to styled lines, word wrap | `Response`, `Page` |

The parts interact like this: the kernel starts every part once (`main.rs`), then
the desktop loop runs for ever in the main context. Interrupts (timer, keyboard,
mouse, network card) run on top of whatever they interrupt, on the same core and
stack. A page download runs on a second stack that the two sides switch between
by hand. Only the main context calls the filesystem.

## FrameAllocator

State: `allocated` (the bitmap), `first_free` (the search hint), the two counters,
`HEAP_END`, and a ghost `held` that records the grants callers hold. Actions:
`Alloc`, `AllocContiguous`, `Free`, `FreeContiguous` and `ExtendHeap`, each the whole
function of the same name. `Init` covers every boot memory map (the set of
available pages is arbitrary) with the reservations `init` makes.

The frame allocator, the locks (`Sync`) and the disk driver (`Ata`) share no variable. `MCMachine` puts them in one
run, `machine`, whose initial state picks the part that works, so that it explores the sum of the three and not the product.
For the frames (9 pages, a heap of 1 to 3 pages, runs of at most 3) it checks that grants
are exclusive, that the counter is the number of clear bits, and that the hint hides no
free page. Nine pages are enough for a run
on either side of the reserved pages, for fragmentation, and for the heap to grow past
a granted frame. That growth is not checked for overlap: `reserve_range` leaves an
allocated page as it is, so the heap can come to share a frame with its holder, but
nothing calls `extend_heap` today.

### Proofs

`FrameAllocatorProofs` proves these invariants, the type invariant and that
the statistics do not underflow, for all constants that
satisfy `ConstantsAssumption`. None of the invariants is inductive alone: the exclusive
grants need that a held page is marked, the counter needs finiteness of the bitmap,
and the search needs that nothing below the hint is free. `IInv` is the conjunction:
types, exact counter, sound hint (`HintSound`), held pages marked (`HeldAllocated`),
free pages below `total_pages` and outside the boot reservations (`FreeSound`),
exclusive grants. `InitEstablishes` and one lemma per action
(`AllocPreserves`, `AllocContiguousPreserves`, `FreePreserves`, `ExtendHeapPreserves`)
give `InductiveInvariant`; the other theorems follow from it. `GrantPreserves` and
`ReturnPreserves` are the two lemmas the action lemmas share: what marking a free set
and clearing a held set do to the invariant. Cardinalities come from
`FiniteSetTheorems`.

## CottonFS and FileTree

A call runs alone, but power can fail between two of its block writes. A call is
therefore its effect on memory and the ordered list of writes it makes: the call's
action updates `mem` and queues the writes in `io`, `DiskWrite` performs them one by
one, `Crash` drops memory and what is left of `io`, `Reset` restarts the machine
between calls. The disk can also refuse one write of a call (`OnDisk`): the writes before it are made, the call goes on as
the code does after the error, and what it did in memory stays. The ghost `unsure` has the paths of such calls until the
power goes. Inside a call the filesystem is a record threaded through the
operators of the module; `Then` is `?`, `Ignore` is `let _ =`.

The disk holds a superblock, two bitmaps, inode slots and data blocks. Writes of a
bitmap rewrite all of its blocks with one bit changed, so each is one write here.
A slot keeps 8 of the 12 direct pointers (`STORED`), and a read takes the other four
from the next slot, as the 168-byte structure in 128-byte slots does. File bytes and
directory entries are cells, `BLOCK_SIZE` to a block.

`FileTree` is what callers are promised: a tree that changes only by calls, each call
atomic, an `Ok` answer meaning the change was made, an error meaning it was not, a
reboot invisible except that it creates missing system directories and files.
`ImplementsFileTree` says CottonFS implements it, where the tree is the ghost `view`:
what a lookup and a read of each path give in the mounted system, or would give after
the next mount.

Runs that pass:

* `fs_clean`: no power failures; files of at most two blocks; every call;
  inode slots run out. Refinement and durability.
* `fs_crash`: two power failures anywhere, or one and a refused write, and three calls (two with a refused write) of removal,
  in-place write and write after a seek, with the boots between them. Once a first boot has finished, the disk is consistent
  at every instant, the superblock counters drift by at most one per failure, the disk stays mountable and a failure only
  affects the path of the call it hit. No write is refused during the first boot.

Their bounds exclude what goes wrong otherwise: `fs_crash` has no call that truncates, both keep directories within one block and
never remove a last entry or a directory. Run `fs_alias` checks the last property
where file sizes are also block numbers and finds it violated: an inode is 168 bytes, a
slot 128 ("On-disk inode structure (128 bytes)"), so a file's last pointers are the
neighbour's first fields. Run `fs_nonempty` removes directories: `unlink` does not look whether one is empty, though
`fs::remove` ("Remove file or empty directory") and the help of `rm` say so, and what is in it is stranded (`NoOrphans`). The other disagreements are under "Configurations beside the
runs". Two more limits of the checked instances are plain in the code: a file of more than
`STORED` blocks loses its tail at a reboot, and `unlink` never frees data blocks.

Not modelled: reads that the disk refuses. Abstracted: times, modes and owners; names are model strings; a block write is atomic
(the driver writes eight sectors); bytes past the end of an inode-table block read as
zero.

## NetTask

One core, two stacks. `main` is the desktop loop, which handles input and then calls
`handle_pending_browser_fetch` once per frame; net runs `fetch_and_render`. `cpu` says
which one runs. A saved stack pointer (`MAIN_RSP`, `NET_RSP`) is the stack it points into
and the place in it; loading any other than that of the suspended stack puts `cpu` to
`"lost"`, which stands for undefined behaviour. `fetch` holds the locals of the fetch: its
phase (DNS, connect, TLS handshake, send, read), the URL after redirects, the rounds left,
and how often the current wait may still yield before its deadline passes. Every phase may
succeed, fail or time out, and each error path closes the socket or leaves it open as the
code does. `browsers`, `order` and `focused` are the browser windows; the ghost `asked` is
what was requested in each.

User actions are those that reach a browser window (mouse and keys), opening and closing
windows, and the terminal's network commands, which share the socket and `yield_to_main` and may run at any time, also
while a fetch waits. The socket has a ghost `by`: which stack connected or closed it last.

* `net` (2 windows, 5 inputs, 2 requests per fetch, 1 yield per wait): nothing but a terminal command during a fetch
  loads a stale stack pointer (`ContextsLive`), the flags agree, results reach only the window that asked, a
  page comes from the server it was requested from whatever an earlier error path left in
  the socket, unless a terminal command took it, and a window at rest shows the result of its latest request. Five inputs are
  enough to request, change the address and request again while the first fetch runs, and
  to go back after following a link.
  It also checks `LoadingEnds`. Fairness is weak fairness of the loop's service
  step and of the net stack's step: the loop never ends (nothing clears `running`) and the
  stack that has the core executes. Waits end because the timer advances; that is the
  bound `MAX_YIELDS`. No fairness is assumed of the user. The topmost waiting window is
  served first, so with unbounded input a lower window could wait for ever.
  `LoadingEnds` makes no claim once a stack is lost.
* `net_terminal` checks `YieldReturns`, what the comment of `yield_to_main` says ("Yields to the GUI for one frame, then
  returns"), and finds it violated: the waits of a terminal command call it on the main stack, and with a fetch under
  way the two stack pointers are used the wrong way round.

Deadlock is not checked in these runs: with no request and the inputs used up, the loop
only redraws.

### Proofs

`NetTaskProofs` proves every safety property of run `net` for every number of windows, inputs,
redirects, yields and terminal commands. There are two inductive invariants.

`IInv` is about the stacks and gives `ContextsLive` and `ResultHeld`. Neither is inductive alone: while
net runs, main waits exactly where `MAIN_RSP` points (`NetHasCore`); while main runs, a fetch under way
waits where `NET_RSP` points (`MainHasCore`), unless a stack is lost; net has taken its URL before it first yields (`UrlTaken`).

`WInv` is about the windows and rests on `IInv`. It gives the types, `OwnResults`, `LatestShown` and `PageFromServer`. What makes
it inductive is `Job`: the URL of the fetch under way, which wanders from `PENDING_URL` to the fetch's own
copy to the result (`JobUrl`), is one of the requests of the window it will be delivered to, and
the latest one unless a later one waits there. `Requests` says the same of what waits in a window, and
`Peer` that from `tcp_connect` on the socket belongs to the fetch or was last used by the terminal. Each has one lemma for each group of
actions, over lemmas for what they share: a switch to main, the end of a fetch, a change of phase, a step
that leaves the task alone.

`Retain` is `Vec::retain`, used by `NetTask` and `Scheduler`. It is written with positions and not as a fold,
so that `RetainProofs` can prove what both proofs need: the result has the other elements, each once if
it was there once, in their order.

Abstracted: URLs and texts are model strings (`UrlOf` is `build_navigate_url` on what is
not a URL); an edit of the address bar may give any text; page contents are the request
and the peer they stem from; the size of the net stack.

## Vfs

The tree of the RAM filesystem (`nodes`), the shell's working directory (`cwd`) and the
device files mounted at `/dev`. A path is the sequence of what stands between its slashes, so
`/`, `//a`, `/./dev` and `/a/..` are all different inputs. Actions are the shell's `cd`,
`touch`, `mkdir`, `rm` and `write`, the editor's save and the system calls that create or
remove. The text console's commands (`cmd_*`) have the same steps as the terminal window's
(`exec_*`) and are not repeated.

`vfs` (one name beside `dev`, `.`, `..` and the empty one; four objects; paths of two
components below the working directory) checks that what a directory lists is found
(`EntriesFound`) and that the working directory, which `cd` keeps in a normal form it did not
check, is the directory it checked (`CwdIsHome`). The exceptions each property names are what
the code does: entries named `.`, `..` or the empty name can be made and never reached,
`//dev` and `/./dev` go past the mount, `..` exists only in the shell's own normal form.

## Ata

The driver's request, sector by sector, against a drive that works on its own: it becomes
ready, stores a sector, fails one, or is slower than the polling loop. A drive takes no command
while busy. `trusted` is a ghost that turns false when a driver has given up on a drive in the
middle of a command, or cut a sector number to 28 bits for a drive that takes no more: nothing resets
a drive, so from then on the two disagree about where they are and no property is claimed.

Run `machine` (28-bit limit 2, four sectors, two requests of none to three sectors, three sets of drives)
checks that only the sectors a write was asked to store change (`OwnSectors`) and that Ok means
done (`OkIsDone`). The limit of 2 puts requests on both sides of it and across it. One exception is
stated in the property: an error on the last sector of a write is not looked at. `flush` reports
neither errors nor its timeout. A request of no sectors starts a command of 256 that nobody transfers; nothing makes one.

`AtaProofs` proves the types, `RegistryExact`, `OwnSectors` and `OkIsDone` for any sets of drives, sizes,
28-bit limit, request lengths and number of requests. The inductive invariant ties the two state machines
together: as long as `trusted` holds, the drive of the request is at its command and is about to transfer the request's next
sector or is storing the one before (`InStep`), no other drive is at a command (`OnlyOne`), and what
was transferred so far is where it belongs (`Progress`). A drive that is storing has the number of the last
request, which is why a late store cannot break `OwnSectors`.

## Scheduler

State: the process table, the five run queues, `current`, and `flow`, the place of the kernel code
that makes calls. A step is one section under a spin lock, and `Tick` comes between any two.
Two things end a behaviour, and nothing is claimed after them: `TickInside`, the interrupt while the
flow holds a lock it wants (`"spinning"`), and a context switch between two processes of the table,
which saves no register (`"lost"`).

`sched` (two processes beside init and idle, two priorities, slices of two ticks, five ticks) checks that
queues, states and `current` agree whatever the interrupt finds half done, that a zombie stays one and
that none is stranded. The exceptions of `NoneStranded` are the init process, which nothing
queues, and a process that slept, which `sleep_ms` does not requeue. Two processes of two
priorities are enough to have one queued, one current and one being added or removed; five ticks use
up a slice twice.

`SchedulerProofs` proves the types, `QueuesExact`, `NoneStranded`, `ExitIsFinal` and `HighestFirst` (a process
that is put on the CPU has no process of higher priority left in the queues) for any number of processes, slice and
ticks. `QueuesExact` is not inductive: that a push keeps the queues free of duplicates needs that the
pushed process is in none. `FlowInv` says what each half-done call may believe of the
process it works on, whatever the interrupt did since it looked: between `insert` and `enqueue` it is in no queue and not current, between
`remove` and `dequeue` it is gone from the table, a process that exits or falls asleep is in no queue. `TableInv`
says where a process of each state is. That a zombie is current only until the `schedule` of its own exit makes
`ExitIsFinal` an action property that follows from the invariant.

No liveness is claimed: the highest queue always goes first, so a process that never sleeps starves the
others, and an interrupt inside a locked section stops the machine. In the desktop the scheduler
is not even started; only the tick counter is used.

## Sync

The initial state picks a primitive, which three threads use; each atomic operation and each section
under a spin lock is one step. The core is single, so memory is sequentially consistent. Run `machine` checks
mutual exclusion, that locks, permits and readers add up (`NothingLost`), that no thread leaves a
barrier early, over two rounds, and that `Once` runs once. Threads are symmetric: only equality of
pids is used.

The threads are used as the code expects: they have different pids that are not 0 (`current_pid` of code
without a process gives 0, which `RecursiveMutex` also uses for "no owner"); a barrier is made for
as many threads as use it; only a holder releases a `BinarySemaphore` (two releases by others can make
its count 2). `CondVar::wait` ends in a `todo!()` panic; it is modelled up to there. There is no fairness:
waiting threads spin through `yield_now`, which guarantees nothing about who runs next.

`SyncProofs` proves all four properties and the types for any finite set of threads and any number of permits, rounds and
nested guards. The inductive invariant has one clause for each primitive: for every place in the code, what the
thread there holds and what the fields show of it. The flag of a mutex is set exactly while one thread is between its
compare-exchange and its store (`HeldBy`); the reader count is the number of threads that announced themselves, not of
those that read; permits, holders and posts add up; a thread in a barrier loaded the current generation or the one
released last, and while the leader has not released the round all others wait in it. Adding and removing one thread from a
counted set is `FiniteSetTheorems`' part.

## Typing, Timeline and Mouse

`Typing` follows a key from the wire (prefix and scan code, two interrupts) through the event buffer to
the editor or the terminal. Interrupts come between any two frames, or while the frame loop has the buffer locked: then the
handler spins for ever on the lock its own core holds (`InterruptInside`), and nothing is claimed after it. The editor is its lines, cursor,
modified mark, undo and redo. `Timeline` is what undo and redo promise: one line of texts and a
position in it; `OneTimeline` says the two stacks of the editor implement it, with the stack of undone
states, the text and the reversed redo stack as the line. A save that fails may or may not have changed the file as a reader
sees it; what it left on the disk is `CottonFS`'s subject.

`Mouse` builds packets from bytes that may get lost. `RealignsWhenStill` says how the driver finds
back: bit 3 of the first byte is enough after two packets without movement. With movement it may stay
misaligned for long, since movement bytes can have bit 3.

`input` checks both: keys in order and decoded by the right table when the buffer (2) is full, no shift that sticks because
its release found it full (`ShiftSound`), the
cursor inside the text and inside every state that undo may restore, an unmodified editor equal to its
file, the refinement, and the realignment. Four actions of the user and a history of two are
enough to overflow both buffer and history and to undo past a save. The two drivers share no variable, so the
initial state picks the device that works and the run explores the sum of the two, not the product;
a behaviour with both is an interleaving of two such behaviours, and no property speaks about both.

## Desktop

Windows in stacking order, each with its contents: a file manager with path, listing, selection and
history, an editor with file name and text number, a Save As dialog. A frame takes the pointer's part
and the button and runs the whole of `handle_mouse`; keys go to the focused window; the terminal changes files
underneath. `press` is a ghost that counts what one press of the button did.

`desktop` (three windows, one edit or shell command, a history of three) checks that the focused window
is the top one (`FocusOnTop`), that a press acts once where the handler does not return early (`PressActsOnce`) and that navigation only cuts and
extends a file manager's history (`FilesHistory`). Some handlers return before they note the button,
so a held button clicks again in the next frame; `PressActsOnce` covers what is still right then,
`DesktopHold.cfg` shows what is not. Positions, scrolling and drawing are left out: a frame may find the
pointer over any part of any window.

## Nic and NetConfig

`Nic` is the driver and the card that shares memory with it: the receive ring in bytes, with wrap and
alignment, and the transmit descriptors. Packets arrive between any two accesses of the driver.
`nic` (ring of 32 bytes, packets of four lengths among them unaligned and too long, two descriptors, six
packets, three frames sent) checks that driver and card agree about the ring (`RingInStep`), that
frames are delivered unaltered, in order and once, without any resynchronisation but for packets that are too long,
and that the wire carries what was sent (`FramesExact`). Six packets wrap the ring twice.

`NetConfig` is the configuration that the set commands and DHCP change and the `dhcp` command that waits. In the same run,
again one part per behaviour because they share no variable, `DhcpReportsTruth` checks the command's
answer against leases that are early, late, repeated or expired. Not every outcome is sensible: a lease that
comes unasked overrides what was set by hand, and an expired one stays in use.

`NicProofs` proves `RingInStep`, `FramesExact` and the types of `Nic` for every ring whose size is a multiple of four and divides 2^16, with
slack for the longest packet behind it, for every set of frame lengths and any number of descriptors (`ConstantsOK`).
`RingInStep` says that each packet starts where the one before ends. That is not inductive: that a new packet
overwrites none that waits needs all of them to lie in the part of the ring between the driver's offset and the card's. The
invariant measures that part as a distance from the driver's offset (`Ahead`, which goes round the ring): the waiting packets fill
it end to end (`Waiting`). The lemmas on `Ahead` are the arithmetic of the ring, with alignment, wrap and
the 16 that `CAPR` lags behind modulo 2^16; `NoOverlap` is the one that uses them. For the transmit side, exactly the descriptors from the card's next one up to the
driver's are the card's and their buffers hold the frames of the queue (`Lent`).

It also proves, for `NetConfig` and any addresses, netmasks and leases, that the interface uses the configuration that
is shown (`IfaceInStep`) and the action property `DhcpReportsTruth`. The invariant (`CInv`) says of a waiting command that nothing
was applied since it began and that a socket that is bound has its lease from after the restart. `PrefixOfNetmask` shows that the prefix of a lease
survives `netmask()` and `prefix_len`. The run composes the parts in `MCNic`; the theorems are about each part's
own specification.

## Response and Page

What the browser does with the bytes of a response; the fetch itself is `NetTask`'s. Both are further
parts of run `nic`.

`Response` is the string that `http_get_raw` and `https_get` put together from reads of any size and
`decode_chunked`, which joins the chunks in it. A server divides one of two pages, whose text has digits
and line ends in it, into chunks of one to four bytes (sizes of one and two digits, in base 3), with or without
extensions; reading ends anywhere. `ChunksJoined`: the result is the completely received chunks, joined.
It holds if no read or chunk ends inside a character. Otherwise `from_utf8_lossy`, applied to each read
alone, replaces the halves by longer characters, the sizes no longer fit, and `decode_chunked` can slice the
string inside a character, which panics (`NeverPanics`).

`Page` is `render_html_doc` with its `DocBuilder`, and `layout`. A page is any five tags and
characters; tags that the code treats alike have one name, an entity is the character it stands for, an anchor the URL it
resolves to. `PageShown`: each letter is laid out once, in order and with its link, and the spans of a line
join up and end inside the window. Windows have three and four columns and two links are allowed, so that words are
split, rules wrap and anchors are refused (a letter of a refused anchor may have any link). Characters are of one byte: `layout`
counts bytes, and `split_at` panics if a word that is longer than the line has the middle of a longer character at its edge.

## Configurations beside the runs

`PROJECT.json` lists one run for each question. Two groups of further configurations are kept for use by hand
(`tlc -config X.cfg M`).

`*More.cfg` check, with the constants of the run of the same name, the type invariants and the plainer
properties (screen bounds, the shape of the tree, the selection of a file manager), where they are not proved. All hold.

The following show where the code departs from its comments, its documentation or its evident purpose; TLC reports the
property violated.

| Configuration (module) | Property | What the code does |
|---|---|---|
| `CottonFSTruncate` (`MCCottonFS`) | `OnlyTargetChanges` | a power failure inside `write_file` leaves an inode with freed blocks |
| `CottonFSFormat` (`MCCottonFS`) | `AlwaysMountable` | a power failure inside the first format leaves a superblock without a root |
| `CottonFSLastEntry` (`MCCottonFS`) | `CallsDurable` | the last entry of a directory comes back after a reboot |
| `CottonFSCapacity` (`MCCottonFS`) | `AllocatedOnDevice` | blocks are counted in sectors, so blocks past the end are handed out |
| `NetTaskUrl` (`MCNetTask`) | `CurrentUrlShown` | `current_url` gets the address bar's text at the end of the fetch |
| `SchedulerContext` (`Scheduler`) | `ContextKept` | a context switch loads a stack pointer and saves nothing ("Save old context and load new") |
| `TypingDelete` (`MCTyping`) | `DeleteForwardOnly` | the Delete key also deletes what is before the cursor |
| `Browser` (`MCNic`, with `-continue`) | `NeverPanics`, `StyledAsTagged` | a read that ends inside a character makes `decode_chunked` panic; text before `</h1>`, `</h4>` or `</pre>` loses its style, which is taken back before the text is flushed |
| `DesktopHold` (`Desktop`) | `OneStep` | a button held on a row of Save As walks one directory in each frame |

## What is proved and what is only checked

Proved for every value of the constants that satisfies the named assumptions: what type they have and what the code's own
constants satisfy (for example that the ring's size divides 2^16). No theorem restricts what the user, the disk or the
network may do beyond what its module does:

| Module | Theorems |
|---|---|
| `FrameAllocatorProofs` | of run `machine` what is about the frames, types, statistics |
| `SyncProofs` | of run `machine` what is about the locks, types |
| `SchedulerProofs` | all of run `sched`, types, `HighestFirst` |
| `AtaProofs` | of run `machine` what is about the disks, types, `RegistryExact` |
| `NetTaskProofs` | all of run `net` but `LoadingEnds`, types |
| `NicProofs` | of run `nic` what is about the driver and the configuration, types, `IfaceInStep` |

Each inductive invariant was checked by TLC on an instance before it was proved.

Only checked, on small instances:

* `LoadingEnds`, the one liveness property: fairness is out of the prover's reach.
* `CottonFS` and its refinement of `FileTree`: a call is a fold over blocks, entries and path components, and so is
  the view that maps it to the tree. What a fold computes for every input takes induction over data, which the installed
  provers cannot do. The same holds for paths in `Vfs` and for the texts in `Typing` (the cursor is found by folding over a line).
* `Response` and `Page`: recursive functions over strings, for the same reason.
* `Desktop` and `Mouse`: within reach, not proved.

## Not modelled

* Paging and address spaces: only `AddressSpace::new` is ever called, for user processes nothing creates.
  The same holds for threads (`proc/thread.rs`) and `exec`.
* `smoltcp` and the TLS library: external; UDP, ping and the network interrupt, which only counts.
* Drawing, fonts, console and text browser output, the serial port, CPU and PCI listings: output only.
* Start-up (boot code, descriptor tables, interrupt controller): straight-line, run once.
* Partition tables, which nothing reads, and `userspace/`, which nothing loads.
* What the commands of the shell print.
