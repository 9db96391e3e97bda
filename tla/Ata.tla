--------------------------------- MODULE Ata ---------------------------------
(***************************************************************************)
(* The ATA PIO driver (drivers/storage/ata.rs), the registry of block      *)
(* devices (drivers/storage/mod.rs) and the drives behind it.  The driver  *)
(* runs one request at a time; the drive works on its own in between, and  *)
(* may fail a sector or be slower than the driver's polling loops.  The    *)
(* drives are external: they are modelled by what the driver relies on.    *)
(* A drive obeys no command while it is busy.                              *)
(***************************************************************************)
EXTENDS Naturals, Sequences

CONSTANTS
    LIMIT28,    \* first sector number that does not fit a 28-bit address (2^28)
    MAXLBA,     \* bound on the sectors requests ask for
    MAXCOUNT,   \* largest count of sectors of a request (255)
    MAXREQS,    \* bound on the number of requests
    Layouts     \* what may be attached to the four positions

Positions == 1..4       \* (0,0), (0,1), (1,0), (1,1): hda, hdb, hdc, hdd
Kinds == {"none", "atapi", "stuck", "ata28", "ata48"}
Drive(kind, sectors) == [kind |-> kind, sectors |-> sectors]

ASSUME AtaOK ==
    /\ LIMIT28 \in Nat \ {0} /\ MAXLBA \in Nat /\ MAXCOUNT \in Nat \ {0} /\ MAXREQS \in Nat
    /\ \A l \in Layouts : l \in [Positions -> [kind : Kinds, sectors : 0..(MAXLBA + MAXCOUNT)]]
    /\ \A l \in Layouts, p \in Positions : l[p].kind = "ata28" => l[p].sectors <= LIMIT28

Channel(p) == IF p \in {1, 2} THEN 0 ELSE 1

VARIABLES
    layout,     \* the drive at each position
    scan,       \* next position scan_devices looks at; 5 when done
    registry,   \* BLOCK_DEVICES: what was detected, in order
    selected,   \* per channel: the position the drive register selects
    dev,        \* per position: the drive's own state
    disk,       \* per position: the sectors' content (0, or the request that wrote it)
    req,        \* the driver's request: its arguments, locals and result
    log,        \* ghost: the requests so far
    trusted     \* ghost: no request timed out, was cut to 28 bits or had count 0

ataVars == <<layout, scan, registry, selected, dev, disk, req, log, trusted>>

\* phase: "idle", "busy", "drq" (DRQ set) or "err" (ERR set); cmd: "read",
\* "write", "flush"; addr, left: next sector and how many; storing: the data of
\* a sector taken and not stored yet, or 0; faulted: the last store failed.
IdleDev == [phase |-> "idle", cmd |-> "none", addr |-> 0, left |-> 0, storing |-> 0,
            lba28 |-> FALSE, faulted |-> FALSE]

NoReq == [at |-> "idle", op |-> "none", pos |-> 1, lba |-> 0, count |-> 0, sector |-> 0,
          buf |-> <<>>, res |-> "none"]

AtaInit ==
    /\ layout \in Layouts
    /\ scan = 1
    /\ registry = <<>>
    /\ selected = [c \in {0, 1} |-> 1 + 2 * c]
    /\ dev = [p \in Positions |-> IdleDev]
    /\ disk = [p \in Positions |-> [s \in 0..(layout[p].sectors - 1) |-> 0]]
    /\ req = NoReq
    /\ log = <<>>
    /\ trusted = TRUE

-----------------------------------------------------------------------------
(* Detection                                                               *)

\* detect: IDENTIFY succeeds only on an ATA disk; no drive (status 0), one that
\* stays busy, an ATAPI drive (its signature in LBA mid and hi) give None.
Detected(d) == d.kind \in {"ata28", "ata48"}

\* The device found: words 100-103 or 60-61 give the sectors.
Found(p) == [pos |-> p, lba48 |-> layout[p].kind = "ata48", sectors |-> layout[p].sectors]

\* scan_devices and storage::init: the detected drives, in scan order.
Scan ==
    /\ scan \in Positions
    /\ selected' = [selected EXCEPT ![Channel(scan)] = scan]
    /\ registry' = IF Detected(layout[scan]) THEN Append(registry, Found(scan)) ELSE registry
    /\ scan' = scan + 1
    /\ UNCHANGED <<layout, dev, disk, req, log, trusted>>

-----------------------------------------------------------------------------
(* The driver                                                              *)

\* The bug of a limit that is one too high.
Uses48Late(d, lba) == d.lba48 /\ lba > LIMIT28

\* read_sectors and write_sectors: the address the registers carry.
Uses48(d, lba) == d.lba48 /\ lba > LIMIT28 - 1

Address(d, lba) == IF Uses48(d, lba) THEN lba ELSE lba % LIMIT28

\* A sector count of 0 is 256 to the drive.
Sectors(count) == IF count = 0 THEN MAXCOUNT + 1 ELSE count

\* BlockDevice::read and write: a count over 255 or a short buffer is refused
\* before the drive is touched; otherwise select the drive, write the registers
\* and the command.  A busy drive ignores it.  A count of 0 starts a command
\* too, whose sectors nobody transfers.
Issue(op, i, lba, count, buflen) ==
    LET d == registry[i]
        p == d.pos
        id == Len(log) + 1
        new == [NoReq EXCEPT !.op = op, !.pos = p, !.lba = lba, !.count = count,
                             !.buf = [k \in 1..buflen |-> IF op = "write" THEN id ELSE 0]]
        fits == lba < LIMIT28 \/ d.lba48
    IN
    /\ scan = 5 /\ req.at = "idle" /\ Len(log) < MAXREQS
    /\ log' = Append(log, [op |-> op, pos |-> p, lba |-> lba, count |-> count])
    /\ IF count > MAXCOUNT \/ buflen < count
       THEN /\ req' = [new EXCEPT !.at = "done", !.res = "refused"]
            /\ UNCHANGED <<selected, dev, trusted>>
       ELSE /\ req' = IF count > 0 THEN [new EXCEPT !.at = "poll"]
                      ELSE IF op = "write" THEN [new EXCEPT !.at = "flush"]
                      ELSE [new EXCEPT !.at = "done", !.res = "ok"]
            /\ selected' = [selected EXCEPT ![Channel(p)] = p]
            /\ dev' = IF dev[p].phase = "busy" THEN dev
                      ELSE [dev EXCEPT ![p] =
                              [IdleDev EXCEPT !.phase = "busy", !.cmd = op,
                                              !.addr = Address(d, lba), !.left = Sectors(count),
                                              !.lba28 = ~Uses48(d, lba)]]
            /\ trusted' = (trusted /\ fits /\ dev[p].phase # "busy" /\ count # 0)
    /\ UNCHANGED <<layout, scan, registry, disk>>

\* The polling loop sees ERR.
PollErr ==
    /\ req.at = "poll" /\ dev[req.pos].phase = "err"
    /\ req' = [req EXCEPT !.at = "done", !.res = "error"]
    /\ UNCHANGED <<layout, scan, registry, selected, dev, disk, log, trusted>>

\* The polling loop runs out; whatever the drive still does goes on.
PollTimeout ==
    /\ req.at = "poll" /\ dev[req.pos].phase \in {"busy", "idle"}
    /\ req' = [req EXCEPT !.at = "done", !.res = "timeout"]
    /\ trusted' = FALSE
    /\ UNCHANGED <<layout, scan, registry, selected, dev, disk, log>>

\* After a sector: the next one, or the end (a write goes on to flush).
AfterSector == IF req.sector + 1 < req.count THEN "poll"
               ELSE IF req.op = "write" THEN "flush" ELSE "done"

\* The place of a sector in the caller's buffer.
BufferAt(sector) == sector + 1

\* DRQ: read 256 words into the buffer, ...
ReadSector ==
    LET p == req.pos
        d == dev[p] IN
    /\ req.at = "poll" /\ req.op = "read" /\ d.phase = "drq" /\ d.cmd = "read"
    /\ req' = [req EXCEPT !.buf[BufferAt(req.sector)] = disk[p][d.addr],
                          !.sector = @ + 1, !.at = AfterSector,
                          !.res = IF AfterSector = "done" THEN "ok" ELSE @]
    /\ dev' = [dev EXCEPT ![p].phase = IF d.left > 1 THEN "busy" ELSE "idle",
                          ![p].addr = @ + 1, ![p].left = @ - 1]
    /\ UNCHANGED <<layout, scan, registry, selected, disk, log, trusted>>

\* The bug of sending the data without waiting for DRQ: a busy drive drops it.
WriteSectorBlind ==
    LET p == req.pos
        d == dev[p] IN
    /\ req.at = "poll" /\ req.op = "write"
    /\ req' = [req EXCEPT !.sector = @ + 1, !.at = AfterSector]
    /\ dev' = IF d.phase = "drq"
              THEN [dev EXCEPT ![p].phase = "busy", ![p].storing = req.buf[BufferAt(req.sector)]]
              ELSE dev
    /\ UNCHANGED <<layout, scan, registry, selected, disk, log, trusted>>

\* ... or write them from it.
WriteSector ==
    LET p == req.pos
        d == dev[p] IN
    /\ req.at = "poll" /\ req.op = "write" /\ d.phase = "drq" /\ d.cmd = "write"
    /\ req' = [req EXCEPT !.sector = @ + 1, !.at = AfterSector]
    /\ dev' = [dev EXCEPT ![p].phase = "busy",
                          ![p].storing = req.buf[BufferAt(req.sector)]]
    /\ UNCHANGED <<layout, scan, registry, selected, disk, log, trusted>>

\* The transfer's direction does not match the command the drive is at: what
\* the words are then is unknown.
WrongTransfer ==
    LET d == dev[req.pos] IN
    /\ req.at = "poll" /\ d.phase = "drq" /\ d.cmd # req.op
    /\ req' = [req EXCEPT !.sector = @ + 1, !.at = AfterSector,
                          !.res = IF AfterSector = "done" THEN "ok" ELSE @]
    /\ UNCHANGED <<layout, scan, registry, selected, dev, disk, log, trusted>>

\* flush(): CACHE FLUSH to the drive the channel has selected; the drive is
\* still storing the last sector then, and ignores it.
Flush ==
    LET p == selected[Channel(req.pos)] IN
    /\ req.at = "flush"
    /\ req' = [req EXCEPT !.at = "flushing"]
    /\ dev' = IF dev[p].phase = "busy" THEN dev
              ELSE [dev EXCEPT ![p].phase = "idle", ![p].cmd = "flush"]
    /\ UNCHANGED <<layout, scan, registry, selected, disk, log, trusted>>

\* It waits while BSY is set, for so long, and returns Ok in any case.
FlushEnd ==
    LET busy == dev[selected[Channel(req.pos)]].phase = "busy" IN
    /\ req.at = "flushing"
    /\ req' = [req EXCEPT !.at = "done", !.res = "ok"]
    /\ trusted' = (trusted /\ ~busy)
    /\ UNCHANGED <<layout, scan, registry, selected, dev, disk, log>>

\* The caller has the result.
Return ==
    /\ req.at = "done"
    /\ req' = NoReq
    /\ UNCHANGED <<layout, scan, registry, selected, dev, disk, log, trusted>>

-----------------------------------------------------------------------------
(* The drive (external)                                                    *)

\* A sector the command cannot address, or that the drive does not have.
Unreachable(p) ==
    \/ dev[p].addr >= layout[p].sectors
    \/ dev[p].lba28 /\ dev[p].addr >= LIMIT28

\* Ready for the next sector of the command.
DevReady(p) ==
    LET d == dev[p] IN
    /\ d.phase = "busy" /\ d.cmd \in {"read", "write"} /\ d.storing = 0
    /\ dev' = [dev EXCEPT ![p].phase = IF Unreachable(p) THEN "err" ELSE "drq"]
    /\ UNCHANGED <<layout, scan, registry, selected, disk, req, log, trusted>>

\* The sector taken is stored.
DevStore(p) ==
    LET d == dev[p] IN
    /\ d.phase = "busy" /\ d.storing # 0
    /\ disk' = [disk EXCEPT ![p][d.addr] = d.storing]
    /\ dev' = [dev EXCEPT ![p].storing = 0, ![p].addr = @ + 1, ![p].left = @ - 1,
                          ![p].phase = IF d.left > 1 THEN "busy" ELSE "idle"]
    /\ UNCHANGED <<layout, scan, registry, selected, req, log, trusted>>

\* The medium fails.
DevFail(p) ==
    /\ dev[p].phase = "busy"
    /\ dev' = [dev EXCEPT ![p].phase = "err", ![p].storing = 0,
                          ![p].faulted = dev[p].storing # 0]
    /\ UNCHANGED <<layout, scan, registry, selected, disk, req, log, trusted>>

AtaNext ==
    \/ Scan
    \/ \E op \in {"read", "write"}, i \in DOMAIN registry, lba \in 0..MAXLBA,
          count \in 0..(MAXCOUNT + 1), buflen \in {1, MAXCOUNT + 1} :
          Issue(op, i, lba, count, buflen)
    \/ PollErr \/ PollTimeout \/ ReadSector \/ WriteSector \/ WrongTransfer
    \/ Flush \/ FlushEnd \/ Return
    \/ \E p \in Positions : DevReady(p) \/ DevStore(p) \/ DevFail(p)

AtaSpec == AtaInit /\ [][AtaNext]_ataVars

-----------------------------------------------------------------------------
(* Properties                                                              *)

\* Type correctness: no transfer runs outside the buffer, the count or the disk.
AtaTypeOK ==
    /\ scan \in 1..5
    /\ \A p \in Positions :
          /\ dev[p].phase \in {"idle", "busy", "drq", "err"}
          /\ dev[p].left \in Nat /\ dev[p].addr \in Nat
          /\ DOMAIN disk[p] = 0..(layout[p].sectors - 1)
          /\ \A s \in DOMAIN disk[p] : disk[p][s] \in 0..MAXREQS
    /\ req.sector \in 0..req.count
    /\ req.res \in {"none", "ok", "error", "timeout", "refused"}
    /\ \A i \in DOMAIN registry : registry[i].pos \in Positions

\* storage::init registers exactly the ATA disks, in channel and drive order,
\* each with its own size: index 0, which the file system mounts, is the first.
RegistryExact ==
    /\ \A i \in DOMAIN registry :
          LET d == layout[registry[i].pos] IN
          /\ d.kind = IF registry[i].lba48 THEN "ata48" ELSE "ata28"
          /\ d.sectors = registry[i].sectors
    /\ \A i, j \in DOMAIN registry : i < j => registry[i].pos < registry[j].pos
    /\ \A p \in Positions : p < scan /\ layout[p].kind \in {"ata28", "ata48"} =>
          \E i \in DOMAIN registry : registry[i].pos = p

\* A sector holds what a write to that very sector of that drive put there:
\* neither the 28/48-bit switch-over nor a failed, short or refused request
\* touches another one.
OwnSectors ==
    trusted =>
        \A p \in Positions : \A s \in DOMAIN disk[p] :
            LET w == disk[p][s] IN
            w # 0 => /\ log[w].op = "write" /\ log[w].pos = p
                     /\ s \in log[w].lba..(log[w].lba + log[w].count - 1)

\* A read that returns Ok has filled the buffer with the sectors it was asked
\* for; one that fails part way is reported as failed.
ReadExact ==
    trusted /\ req.at = "done" /\ req.op = "read" /\ req.res = "ok" =>
        \A k \in 0..(req.count - 1) : req.buf[k + 1] = disk[req.pos][req.lba + k]

\* A write that returns Ok has stored every sector but the last, and the last
\* too unless the drive failed on it: nothing looks at ERR after the last one.
WriteStored ==
    trusted /\ req.at = "done" /\ req.op = "write" /\ req.res = "ok" =>
        \A k \in 0..(req.count - 1) :
            \/ disk[req.pos][req.lba + k] = Len(log)
            \/ k = req.count - 1 /\ dev[req.pos].faulted

\* A request that returns Ok has done what it was asked, as long as no request
\* before it timed out, was cut to 28 bits or left its drive at a command by
\* asking for no sectors.  The exception is the last sector of a write: nothing
\* looks at ERR after it.
OkIsDone == ReadExact /\ WriteStored
=============================================================================
