------------------------------ MODULE AtaProofs ------------------------------
(***************************************************************************)
(* The ATA driver for disks, requests and counts of any size.  A request   *)
(* and the command its drive is at advance sector by sector together, as   *)
(* long as no request timed out and every address fits; what the drive has *)
(* stored and what the driver has read then follow from how far it is.     *)
(***************************************************************************)
EXTENDS Ata, Integers, TLAPS

DevType ==
    [phase : {"idle", "busy", "drq", "err"}, cmd : {"none", "read", "write", "flush"},
     addr : Nat, left : Nat, storing : Nat, lba28 : BOOLEAN, faulted : BOOLEAN]
ReqType ==
    [at : {"idle", "poll", "flush", "flushing", "done"}, op : {"none", "read", "write"},
     pos : Positions, lba : Nat, count : Nat, sector : Nat, buf : Seq(Nat),
     res : {"none", "ok", "error", "timeout", "refused"}]
FoundType == [pos : Positions, lba48 : BOOLEAN, sectors : Nat]
LogType == [op : {"read", "write"}, pos : Positions, lba : Nat, count : Nat]

Shape ==
    /\ layout \in Layouts
    /\ scan \in 1..5
    /\ registry \in Seq(FoundType)
    /\ selected \in [{0, 1} -> Positions]
    /\ dev \in [Positions -> DevType]
    /\ req \in ReqType
    /\ log \in Seq(LogType) /\ Len(log) <= MAXREQS
    /\ trusted \in BOOLEAN
    /\ DOMAIN disk = Positions
    /\ \A p \in Positions : disk[p] \in [0..(layout[p].sectors - 1) -> Nat]

\* What was written has a request, a drive in a transfer has sectors left, and
\* one that takes or stores a sector has it.
Drives ==
    \A p \in Positions :
        /\ \A s \in 0..(layout[p].sectors - 1) : disk[p][s] <= Len(log)
        /\ dev[p].storing <= Len(log)
        /\ dev[p].storing # 0 => dev[p].phase = "busy"
        /\ dev[p].phase \in {"busy", "drq"} => dev[p].left >= 1
        /\ dev[p].phase = "drq" \/ dev[p].storing # 0 => dev[p].addr < layout[p].sectors

\* The request under way is the last one of the log and has selected its drive.
Active ==
    /\ req.sector <= req.count
    /\ req.at # "idle" =>
         /\ scan = 5
         /\ log # <<>> /\ (trusted => req.count >= 1)
         /\ log[Len(log)] = [op |-> req.op, pos |-> req.pos, lba |-> req.lba,
                             count |-> req.count]
    /\ req.at \in {"poll", "flush", "flushing"} =>
         /\ selected[Channel(req.pos)] = req.pos
         /\ req.count <= Len(req.buf)
         /\ req.op = "write" => \A k \in 1..Len(req.buf) : req.buf[k] = Len(log)
    /\ req.at = "poll" => req.sector < req.count
    /\ req.at \in {"flush", "flushing"} => req.op = "write" /\ req.sector = req.count

\* The first n sectors of the request have been read, or written.
Filled(n) == \A k \in 0..(n - 1) : req.buf[k + 1] = disk[req.pos][req.lba + k]
Stored(n) == \A k \in 0..(n - 1) : disk[req.pos][req.lba + k] = Len(log)

\* All of them are, or the drive failed on the last one.
Written ==
    /\ Stored(req.count - 1)
    /\ disk[req.pos][req.lba + req.count - 1] = Len(log) \/ dev[req.pos].faulted

\* The drive is at the command of the request: about to transfer the request's
\* sector, or storing the one before.
InStep ==
    LET d == dev[req.pos] IN
    /\ d.phase \in {"busy", "drq"} /\ d.storing = 0 =>
         /\ req.at = "poll" /\ d.cmd = req.op
         /\ d.addr = req.lba + req.sector
         /\ d.left = req.count - req.sector
         /\ req.op = "write" => Stored(req.sector)
    /\ d.storing # 0 =>
         /\ req.op = "write" /\ req.sector >= 1 /\ d.cmd = "write"
         /\ d.addr = req.lba + req.sector - 1
         /\ d.left = req.count - req.sector + 1
         /\ d.storing = Len(log)
         /\ Stored(req.sector - 1)

\* No other drive is at a command, ...
OnlyOne ==
    \A p \in Positions :
        dev[p].phase \in {"busy", "drq"} =>
            p = req.pos /\ req.at \in {"poll", "flush", "flushing"}

\* ... and a request that is not failed yet has what it was asked for so far.
Progress ==
    /\ req.at = "poll" /\ req.op = "read" => Filled(req.sector)
    /\ req.at = "done" /\ req.op = "read" /\ req.res = "ok" => Filled(req.count)
    /\ req.at \in {"flush", "flushing"} /\ dev[req.pos].phase \in {"idle", "err"} => Written
    /\ req.at = "done" /\ req.op = "write" /\ req.res = "ok" => Written

\* The inductive invariant.
IInv ==
    /\ Shape
    /\ Drives
    /\ Active
    /\ trusted => InStep /\ OnlyOne /\ Progress
    /\ OwnSectors
    /\ RegistryExact
    /\ \A i \in DOMAIN registry : registry[i].pos < scan

-----------------------------------------------------------------------------
(* Start-up                                                                *)

\* Nothing is detected, asked for or written at start-up.
LEMMA InitEstablishes == AtaInit => IInv
  <1>1. SUFFICES ASSUME AtaInit PROVE IInv
    OBVIOUS
  <1>2. /\ IdleDev \in DevType /\ IdleDev.phase = "idle" /\ IdleDev.storing = 0
    BY DEF IdleDev, DevType
  <1>3. /\ NoReq \in ReqType /\ NoReq.at = "idle" /\ NoReq.sector = 0 /\ NoReq.count = 0
    BY DEF NoReq, ReqType, Positions
  <1>4. selected \in [{0, 1} -> Positions]
    BY <1>1 DEF AtaInit, Positions
  <1>5. layout \in Layouts /\ \A p \in Positions : layout[p].sectors \in Nat
    BY <1>1, AtaOK DEF AtaInit
  <1>6. Shape
    BY <1>1, <1>2, <1>3, <1>4, <1>5, AtaOK DEF AtaInit, Shape
  <1>7. Drives
    BY <1>1, <1>2 DEF AtaInit, Drives
  <1>8. Active
    BY <1>1, <1>3 DEF AtaInit, Active
  <1>9. req.pos \in Positions
    BY <1>6 DEF Shape, ReqType
  <1>10. InStep /\ OnlyOne /\ Progress
    BY <1>1, <1>2, <1>3, <1>9 DEF AtaInit, InStep, OnlyOne, Progress
  <1>11. OwnSectors
    BY <1>1 DEF AtaInit, OwnSectors
  <1>12. RegistryExact /\ \A i \in DOMAIN registry : registry[i].pos < scan
    BY <1>1 DEF AtaInit, RegistryExact, Positions
  <1>13. QED
    BY <1>6, <1>7, <1>8, <1>10, <1>11, <1>12 DEF IInv

-----------------------------------------------------------------------------
(* Detection                                                               *)

\* A step of the detection appends the position it looks at, or nothing.
LEMMA ScanPreserves ==
  ASSUME IInv, Scan
  PROVE  IInv'
  <1>1. /\ scan \in 1..4 /\ scan' = scan + 1
        /\ selected' = [selected EXCEPT ![Channel(scan)] = scan]
        /\ registry' = IF Detected(layout[scan]) THEN Append(registry, Found(scan))
                                                 ELSE registry
        /\ UNCHANGED <<layout, dev, disk, req, log, trusted>>
    BY DEF Scan, Positions
  <1>2. req.at = "idle"
    BY <1>1 DEF IInv, Active
  <1>3. /\ Found(scan) \in FoundType /\ Found(scan).pos = scan
        /\ Found(scan).sectors = layout[scan].sectors
        /\ Detected(layout[scan]) =>
             layout[scan].kind = IF Found(scan).lba48 THEN "ata48" ELSE "ata28"
    <2>1. layout[scan].sectors \in Nat /\ scan \in Positions
      BY <1>1, AtaOK, SMTT(20) DEF IInv, Shape, Positions
    <2>2. /\ Found(scan).pos = scan /\ Found(scan).sectors = layout[scan].sectors
          /\ Found(scan).lba48 = (layout[scan].kind = "ata48")
      BY DEF Found
    <2>3. Found(scan) \in FoundType
      BY <2>1, Zenon DEF Found, FoundType
    <2>4. QED
      BY <2>2, <2>3, Zenon DEF Detected
  <1> DEFINE r == registry
             n == Len(registry)
  <1>4. /\ r \in Seq(FoundType) /\ n \in Nat /\ DOMAIN r = 1..n
        /\ \A i \in 1..n : r[i].pos < scan
    BY DEF IInv, Shape
  <1>5. /\ registry' \in Seq(FoundType)
        /\ \A i \in 1..n : registry'[i] = r[i]
        /\ Detected(layout[scan]) =>
             DOMAIN registry' = 1..(n + 1) /\ registry'[n + 1] = Found(scan)
        /\ ~Detected(layout[scan]) => DOMAIN registry' = 1..n
    BY <1>1, <1>3, <1>4
  <1>6. Shape'
    BY <1>1, <1>5 DEF IInv, Shape, Channel, Positions
  <1>7. Drives' /\ Active'
    BY <1>1, <1>2 DEF IInv, Drives, Active
  <1>8. trusted' => InStep' /\ OnlyOne' /\ Progress'
    BY <1>1 DEF IInv, InStep, OnlyOne, Progress, Filled, Stored, Written
  <1>9. OwnSectors'
    BY <1>1 DEF IInv, OwnSectors
  <1>10. \A i \in DOMAIN registry' : registry'[i].pos < scan'
    <2>1. \A i \in 1..n : registry'[i].pos < scan + 1
      <3>1. ASSUME NEW i \in 1..n PROVE r[i].pos \in Nat
        <4>1. r[i] \in FoundType
          BY <1>4
        <4>2. QED
          BY <4>1 DEF FoundType, Positions
      <3>2. QED
        BY <1>1, <1>4, <1>5, <3>1
    <2>2. QED
      BY <1>1, <1>3, <1>4, <1>5, <2>1
  <1>11. RegistryExact'
    <2>1. \A i \in DOMAIN registry' :
            LET d == layout[registry'[i].pos] IN
            /\ d.kind = IF registry'[i].lba48 THEN "ata48" ELSE "ata28"
            /\ d.sectors = registry'[i].sectors
      BY <1>3, <1>4, <1>5 DEF IInv, RegistryExact
    <2>2. \A i, j \in DOMAIN registry' : i < j => registry'[i].pos < registry'[j].pos
      BY <1>3, <1>4, <1>5, SMTT(20) DEF IInv, RegistryExact
    <2>3. ASSUME NEW p \in Positions, p < scan + 1, layout[p].kind \in {"ata28", "ata48"}
          PROVE  \E i \in DOMAIN registry' : registry'[i].pos = p
      <3>1. CASE p = scan
        BY <1>3, <1>4, <1>5, <2>3, <3>1 DEF Detected
      <3>2. CASE p < scan
        <4>1. PICK i \in 1..n : r[i].pos = p
          BY <1>4, <2>3, <3>2 DEF IInv, RegistryExact
        <4>2. i \in DOMAIN registry' /\ registry'[i].pos = p
          BY <1>4, <1>5, <4>1
        <4>3. QED
          BY <4>2
      <3>3. QED
        BY <1>1, <2>3, <3>1, <3>2 DEF Positions
    <2>4. QED
      BY <1>1, <2>1, <2>2, <2>3 DEF RegistryExact
  <1>12. QED
    BY <1>6, <1>7, <1>8, <1>9, <1>10, <1>11 DEF IInv

-----------------------------------------------------------------------------
(* The drive                                                               *)

\* After the detection the registry stays, and what is left to show of a step
\* is about the drives and the request.
LEMMA AfterScan ==
  ASSUME IInv, UNCHANGED <<layout, scan, registry>>,
         Shape', Drives', Active', trusted' => InStep' /\ OnlyOne' /\ Progress', OwnSectors'
  PROVE  IInv'
  BY DEF IInv, RegistryExact

\* The fields of a request and of the drives.
LEMMA Fields ==
  ASSUME Shape
  PROVE  /\ req.pos \in Positions /\ req.lba \in Nat /\ req.count \in Nat /\ req.sector \in Nat
         /\ req.buf \in Seq(Nat) /\ Len(log) \in Nat
         /\ \A p \in Positions :
              /\ dev[p] \in DevType /\ dev[p].addr \in Nat /\ dev[p].left \in Nat
              /\ dev[p].storing \in Nat /\ layout[p].sectors \in Nat
              /\ dev[p].phase \in {"idle", "busy", "drq", "err"}
              /\ dev[p].faulted \in BOOLEAN
  <1>1. req \in ReqType /\ log \in Seq(LogType) /\ layout \in Layouts
    BY DEF Shape
  <1>2. ASSUME NEW p \in Positions
        PROVE  /\ dev[p] \in DevType /\ dev[p].addr \in Nat /\ dev[p].left \in Nat
               /\ dev[p].storing \in Nat
               /\ dev[p].phase \in {"idle", "busy", "drq", "err"}
               /\ dev[p].faulted \in BOOLEAN
    BY DEF Shape, DevType
  <1>3. ASSUME NEW p \in Positions PROVE layout[p].sectors \in Nat
    <2>1. layout[p] \in [kind : Kinds, sectors : 0..(MAXLBA + MAXCOUNT)]
      BY <1>1, AtaOK
    <2>2. QED
      BY <2>1, AtaOK
  <1>4. QED
    BY <1>1, <1>2, <1>3 DEF ReqType

\* Request w is a write that covers sector s of drive p.
Owned(p, s, w) ==
    /\ log[w].op = "write" /\ log[w].pos = p
    /\ s \in log[w].lba..(log[w].lba + log[w].count - 1)

\* OwnSectors in these terms.
LEMMA OwnSectorsAre ==
  OwnSectors <=>
    (trusted => \A p \in Positions : \A s \in DOMAIN disk[p] :
                    disk[p][s] # 0 => Owned(p, s, disk[p][s]))
  BY DEF OwnSectors, Owned

\* A step of drive p alone.
LEMMA DriveKeeps ==
  ASSUME IInv, NEW p \in Positions, NEW e \in DevType,
         dev' = [dev EXCEPT ![p] = e],
         UNCHANGED <<layout, scan, registry, selected, disk, req, log, trusted>>,
         e.storing <= Len(log), e.storing # 0 => e.phase = "busy",
         e.phase \in {"busy", "drq"} => e.left >= 1,
         e.phase = "drq" \/ e.storing # 0 => e.addr < layout[p].sectors,
         trusted => InStep' /\ OnlyOne' /\ Progress'
  PROVE  IInv'
  <1>1. /\ dev' \in [Positions -> DevType] /\ dev'[p] = e
        /\ \A q \in Positions : q # p => dev'[q] = dev[q]
    BY DEF IInv, Shape
  <1>2. Shape'
    BY <1>1 DEF IInv, Shape
  <1>3. Drives'
    BY <1>1 DEF IInv, Drives
  <1>4. Active'
    BY DEF IInv, Active
  <1>5. OwnSectors'
    BY DEF IInv, OwnSectors
  <1>6. QED
    BY <1>2, <1>3, <1>4, <1>5, AfterScan

\* A drive asks for the next sector only if it has it.
LEMMA ReadyPreserves ==
  ASSUME IInv, NEW p \in Positions, DevReady(p)
  PROVE  IInv'
  <1> DEFINE d == dev[p]
             e == [d EXCEPT !.phase = IF Unreachable(p) THEN "err" ELSE "drq"]
  <1>1. /\ d.phase = "busy" /\ d.storing = 0
        /\ dev' = [dev EXCEPT ![p] = e]
        /\ UNCHANGED <<layout, scan, registry, selected, disk, req, log, trusted>>
    BY DEF DevReady
  <1>2. /\ d \in DevType /\ d.addr \in Nat /\ layout[p].sectors \in Nat
        /\ req.pos \in Positions /\ DOMAIN dev = Positions
    BY Fields DEF IInv, Shape
  <1>3. /\ e \in DevType /\ e.phase \in {"err", "drq"} /\ e.storing = d.storing
        /\ e.left = d.left /\ e.addr = d.addr /\ e.cmd = d.cmd
        /\ e.phase = "drq" => ~Unreachable(p)
    BY <1>2 DEF DevType
  <1>4. e.phase = "drq" => e.addr < layout[p].sectors
    BY <1>2, <1>3 DEF Unreachable
  <1>5. e.left >= 1 /\ e.storing = 0 /\ e.storing <= Len(log)
    BY <1>1, <1>3, Fields DEF IInv, Drives
  <1> HIDE DEF e
  <1>6. dev'[p] = e /\ \A q \in Positions : q # p => dev'[q] = dev[q]
    BY <1>1, <1>2
  <1>7. ASSUME trusted PROVE InStep' /\ OnlyOne' /\ Progress'
    <2>1. InStep /\ OnlyOne /\ Progress
      BY <1>7 DEF IInv
    <2>2. p = req.pos
      BY <1>1, <2>1 DEF OnlyOne
    <2>3. InStep'
      BY <1>1, <1>3, <1>6, <2>1, <2>2 DEF InStep, Stored
    <2>4. OnlyOne'
      BY <1>1, <1>6, <2>1 DEF OnlyOne
    <2>5. req.at = "poll"
      BY <1>1, <2>1, <2>2 DEF InStep
    <2>6. Progress'
      BY <1>1, <2>1, <2>5 DEF Progress, Filled
    <2>7. QED
      BY <2>3, <2>4, <2>6
  <1>8. QED
    BY <1>1, <1>3, <1>4, <1>5, <1>7, DriveKeeps, Zenon

\* A drive that fails while it stores the last sector of a write is the one case
\* in which the write will still return Ok.
LEMMA FailPreserves ==
  ASSUME IInv, NEW p \in Positions, DevFail(p)
  PROVE  IInv'
  <1> DEFINE d == dev[p]
             e == [d EXCEPT !.phase = "err", !.storing = 0, !.faulted = d.storing # 0]
  <1>1. /\ d.phase = "busy"
        /\ dev' = [dev EXCEPT ![p] = e]
        /\ UNCHANGED <<layout, scan, registry, selected, disk, req, log, trusted>>
    BY Zenon DEF DevFail
  <1>2. d \in DevType /\ req.pos \in Positions /\ DOMAIN dev = Positions /\ Len(log) \in Nat
    BY Fields DEF IInv, Shape
  <1>3. e \in DevType
    <2>1. (d.storing # 0) \in BOOLEAN
      OBVIOUS
    <2>2. QED
      BY <1>2, <2>1, Zenon DEF DevType
  <1>4. e.phase = "err" /\ e.storing = 0 /\ (d.storing # 0 => e.faulted)
    BY <1>2, Zenon DEF DevType
  <1> HIDE DEF e
  <1>5. dev'[p] = e /\ \A q \in Positions : q # p => dev'[q] = dev[q]
    BY <1>1, <1>2
  <1>6. ASSUME trusted PROVE InStep' /\ OnlyOne' /\ Progress'
    <2>1. InStep /\ OnlyOne /\ Progress /\ Active
      BY <1>6 DEF IInv
    <2>2. p = req.pos /\ req.at \in {"poll", "flush", "flushing"}
      BY <1>1, <2>1 DEF OnlyOne
    <2>3. InStep'
      BY <1>1, <1>4, <1>5, <2>2 DEF InStep
    <2>4. OnlyOne'
      BY <1>1, <1>4, <1>5, <2>1 DEF OnlyOne
    <2>5. ASSUME req.at \in {"flush", "flushing"} PROVE Written'
      <3>1. d.storing # 0 /\ req.sector = req.count
        BY <1>1, <2>1, <2>2, <2>5 DEF InStep, Active
      <3>2. Stored(req.count - 1)
        BY <2>1, <2>2, <3>1 DEF InStep
      <3>3. dev'[req.pos].faulted
        BY <1>4, <1>5, <2>2, <3>1
      <3>4. QED
        BY <1>1, <3>2, <3>3 DEF Written, Stored
    <2>6. Progress'
      BY <1>1, <2>1, <2>2, <2>5 DEF Progress, Filled
    <2>7. QED
      BY <2>3, <2>4, <2>6
  <1>7. /\ e.storing <= Len(log) /\ (e.storing # 0 => e.phase = "busy")
        /\ e.phase \in {"busy", "drq"} => e.left >= 1
        /\ e.phase = "drq" \/ e.storing # 0 => e.addr < layout[p].sectors
    BY <1>2, <1>4
  <1>8. QED
    BY <1>1, <1>3, <1>6, <1>7, DriveKeeps, Zenon

\* A drive stores the sector that its request has just handed over.
LEMMA StorePreserves ==
  ASSUME IInv, NEW p \in Positions, DevStore(p)
  PROVE  IInv'
  <1> DEFINE d == dev[p]
             e == [d EXCEPT !.storing = 0, !.addr = @ + 1, !.left = @ - 1,
                            !.phase = IF d.left > 1 THEN "busy" ELSE "idle"]
  <1>1. /\ d.phase = "busy" /\ d.storing # 0
        /\ disk' = [disk EXCEPT ![p][d.addr] = d.storing]
        /\ dev' = [dev EXCEPT ![p] = e]
        /\ UNCHANGED <<layout, scan, registry, selected, req, log, trusted>>
    BY Zenon DEF DevStore
  <1>2. /\ d \in DevType /\ req.pos \in Positions /\ DOMAIN dev = Positions
        /\ Len(log) \in Nat /\ d.addr \in Nat /\ d.left \in Nat /\ d.storing \in Nat
        /\ layout[p].sectors \in Nat /\ req.lba \in Nat /\ req.sector \in Nat
        /\ req.count \in Nat
    BY Fields DEF IInv, Shape
  <1>3. d.left >= 1 /\ d.addr < layout[p].sectors /\ d.storing <= Len(log)
    BY <1>1 DEF IInv, Drives
  <1>4. d.left - 1 \in Nat /\ d.addr + 1 \in Nat
    BY <1>2, <1>3
  <1>5. /\ e \in DevType /\ e.storing = 0 /\ e.addr = d.addr + 1 /\ e.left = d.left - 1
        /\ e.phase = IF d.left > 1 THEN "busy" ELSE "idle"
    BY <1>2, <1>4, Zenon DEF DevType
  <1> HIDE DEF e
  <1>6. /\ dev' \in [Positions -> DevType] /\ dev'[p] = e
        /\ \A q \in Positions : q # p => dev'[q] = dev[q]
    BY <1>1, <1>5 DEF IInv, Shape
  <1>7. /\ DOMAIN disk' = Positions
        /\ \A q \in Positions : q # p => disk'[q] = disk[q]
        /\ disk'[p] \in [0..(layout[p].sectors - 1) -> Nat]
        /\ disk'[p][d.addr] = d.storing
        /\ \A s : s # d.addr => disk'[p][s] = disk[p][s]
    <2>1. DOMAIN disk = Positions /\ disk[p] \in [0..(layout[p].sectors - 1) -> Nat]
      BY DEF IInv, Shape
    <2>2. d.addr \in 0..(layout[p].sectors - 1)
      BY <1>2, <1>3
    <2>3. disk'[p] = [disk[p] EXCEPT ![d.addr] = d.storing]
      BY <1>1, <2>1
    <2>4. QED
      BY <1>1, <1>2, <2>1, <2>2, <2>3
  <1>8. Shape'
    BY <1>1, <1>6, <1>7 DEF IInv, Shape
  <1>9. Drives'
    BY <1>1, <1>2, <1>3, <1>5, <1>6, <1>7, SMTT(20) DEF IInv, Drives
  <1>10. Active'
    BY <1>1 DEF IInv, Active
  <1>11. ASSUME trusted
         PROVE  InStep' /\ OnlyOne' /\ Progress' /\ OwnSectors'
    <2>1. InStep /\ OnlyOne /\ Progress /\ Active /\ OwnSectors
      BY <1>11 DEF IInv
    <2>2. p = req.pos /\ req.at \in {"poll", "flush", "flushing"}
      BY <1>1, <2>1 DEF OnlyOne
    <2>3. /\ req.op = "write" /\ req.sector >= 1 /\ d.cmd = "write"
          /\ d.addr = req.lba + req.sector - 1
          /\ d.left = req.count - req.sector + 1
          /\ d.storing = Len(log)
          /\ Stored(req.sector - 1)
      BY <1>1, <2>1, <2>2 DEF InStep
    <2>4. Stored(req.sector)'
      <3>1. SUFFICES ASSUME NEW k \in 0..(req.sector - 1)
                     PROVE  disk'[p][req.lba + k] = Len(log)
        BY <1>1, <2>2 DEF Stored
      <3>2. CASE k = req.sector - 1
        BY <1>2, <1>7, <2>3, <3>2
      <3>3. CASE k # req.sector - 1
        <4>1. k \in 0..((req.sector - 1) - 1) /\ req.lba + k # d.addr
          BY <1>2, <2>3, <3>3, SMTT(20)
        <4>2. disk[p][req.lba + k] = Len(log)
          BY <2>2, <2>3, <4>1 DEF Stored
        <4>3. QED
          BY <1>7, <4>1, <4>2
      <3>4. QED
        BY <3>2, <3>3
    <2>5. InStep'
      <3>1. e.phase = "busy" => req.at = "poll"
        BY <1>2, <1>5, <2>1, <2>2, <2>3, SMTT(20) DEF Active
      <3>2. e.cmd = d.cmd
        BY <1>2 DEF e, DevType
      <3>3. e.addr = req.lba + req.sector /\ e.left = req.count - req.sector
        BY <1>2, <1>5, <2>3, SMTT(20)
      <3>4. QED
        BY <1>1, <1>5, <1>6, <2>2, <2>3, <2>4, <3>1, <3>2, <3>3 DEF InStep
    <2>6. OnlyOne'
      BY <1>1, <1>6, <2>1, <2>2 DEF OnlyOne
    <2>7. ASSUME req.at \in {"flush", "flushing"} PROVE Written'
      <3>1. req.sector = req.count
        BY <2>1, <2>7 DEF Active
      <3>2. QED
        BY <1>1, <1>2, <2>3, <2>4, <3>1, SMTT(20) DEF Written, Stored
    <2>8. Progress'
      BY <1>1, <2>1, <2>2, <2>3, <2>7 DEF Progress
    <2>9. OwnSectors'
      <3>1. /\ log[Len(log)] = [op |-> "write", pos |-> p, lba |-> req.lba,
                                count |-> req.count]
            /\ req.sector <= req.count
        BY <2>1, <2>2, <2>3 DEF Active
      <3>2. d.addr \in req.lba..(req.lba + req.count - 1)
        BY <1>2, <2>3, <3>1, SMTT(20)
      <3>3. Owned(p, d.addr, d.storing)
        BY <2>3, <3>1, <3>2 DEF Owned
      <3>4. ASSUME NEW q \in Positions, NEW s \in DOMAIN disk'[q], disk'[q][s] # 0
            PROVE  Owned(q, s, disk'[q][s])
        <4>1. CASE q = p /\ s = d.addr
          BY <1>7, <3>3, <4>1
        <4>2. CASE ~(q = p /\ s = d.addr)
          <5>1. disk'[q][s] = disk[q][s] /\ s \in DOMAIN disk[q]
            BY <1>7, <4>2, Zenon DEF IInv, Shape
          <5>2. QED
            BY <1>11, <2>1, <3>4, <5>1, OwnSectorsAre
        <4>3. QED
          BY <4>1, <4>2
      <3>5. QED
        BY <1>1, <3>4 DEF OwnSectors, Owned
    <2>10. QED
      BY <2>5, <2>6, <2>8, <2>9
  <1>12. OwnSectors'
    BY <1>1, <1>11 DEF OwnSectors
  <1>13. QED
    BY <1>1, <1>8, <1>9, <1>10, <1>11, <1>12, AfterScan

-----------------------------------------------------------------------------
(* The driver                                                              *)

\* A request ends with an error, a timeout or, after the flush of a write, Ok.
LEMMA EndPreserves ==
  ASSUME IInv, req.at # "idle", NEW r \in {"ok", "error", "timeout"},
         req' = [req EXCEPT !.at = "done", !.res = r],
         UNCHANGED <<layout, scan, registry, selected, dev, disk, log>>,
         trusted' \in BOOLEAN,
         trusted' => /\ trusted
                     /\ \A p \in Positions : dev[p].phase \notin {"busy", "drq"}
                     /\ r = "ok" => req.op = "write" /\ Written
  PROVE  IInv'
  <1>1. req \in ReqType /\ req.pos \in Positions
    BY DEF IInv, Shape, ReqType
  <1>2. /\ req' \in ReqType /\ req'.at = "done" /\ req'.res = r /\ req'.op = req.op
        /\ req'.pos = req.pos /\ req'.lba = req.lba /\ req'.count = req.count
        /\ req'.sector = req.sector /\ req'.buf = req.buf
    BY <1>1, Zenon DEF ReqType
  <1>3. Shape'
    BY <1>2 DEF IInv, Shape
  <1>4. Drives'
    BY DEF IInv, Drives
  <1>5. Active'
    BY <1>2 DEF IInv, Active
  <1>6. ASSUME trusted' PROVE InStep' /\ OnlyOne' /\ Progress'
    <2>1. Drives /\ \A p \in Positions : dev[p].phase \notin {"busy", "drq"}
      BY <1>6 DEF IInv
    <2>2. InStep' /\ OnlyOne'
      BY <1>1, <1>2, <2>1 DEF InStep, OnlyOne, Drives
    <2>3. Progress'
      BY <1>2, <1>6 DEF Progress, Written, Stored
    <2>4. QED
      BY <2>2, <2>3
  <1>7. OwnSectors'
    BY DEF IInv, OwnSectors
  <1>8. QED
    BY <1>3, <1>4, <1>5, <1>6, <1>7, AfterScan

\* The two ends of the polling loop that give up, and the end of the flush.
LEMMA EndsPreserve ==
  ASSUME IInv, PollErr \/ PollTimeout \/ FlushEnd
  PROVE  IInv'
  <1>1. req.pos \in Positions /\ trusted \in BOOLEAN
        /\ \A p \in Positions : dev[p].phase \in {"idle", "busy", "drq", "err"}
    BY Fields DEF IInv, Shape
  <1>2. CASE PollErr
    <2>1. trusted => \A p \in Positions : dev[p].phase \notin {"busy", "drq"}
      BY <1>2 DEF PollErr, IInv, OnlyOne
    <2>2. QED
      BY <1>1, <1>2, <2>1, EndPreserves DEF PollErr
  <1>3. CASE PollTimeout
    BY <1>3, EndPreserves, Zenon DEF PollTimeout
  <1>4. CASE FlushEnd
    <2>1. selected[Channel(req.pos)] = req.pos /\ req.op = "write"
      BY <1>4 DEF FlushEnd, IInv, Active
    <2>2. /\ req.at = "flushing" /\ req' = [req EXCEPT !.at = "done", !.res = "ok"]
          /\ trusted' = (trusted /\ ~(dev[req.pos].phase = "busy"))
          /\ UNCHANGED <<layout, scan, registry, selected, dev, disk, log>>
      BY <1>4, <2>1 DEF FlushEnd
    <2>3. ASSUME trusted, dev[req.pos].phase # "busy"
          PROVE  /\ \A p \in Positions : dev[p].phase \notin {"busy", "drq"}
                 /\ Written
      <3>1. InStep /\ OnlyOne /\ Progress /\ Drives
        BY <2>3 DEF IInv
      <3>2. dev[req.pos].phase # "drq"
        BY <1>1, <2>2, <2>3, <3>1 DEF InStep, Drives
      <3>3. \A p \in Positions : dev[p].phase \notin {"busy", "drq"}
        BY <2>3, <3>1, <3>2 DEF OnlyOne
      <3>4. Written
        BY <1>1, <2>2, <2>3, <3>1, <3>2 DEF Progress
      <3>5. QED
        BY <3>3, <3>4
    <2>4. QED
      BY <1>1, <2>1, <2>2, <2>3, EndPreserves, Zenon
  <1>5. QED
    BY <1>2, <1>3, <1>4

\* Between two requests no drive is at a command.
LEMMA ReturnPreserves ==
  ASSUME IInv, Return
  PROVE  IInv'
  <1>1. /\ req.at = "done" /\ req' = NoReq
        /\ UNCHANGED <<layout, scan, registry, selected, dev, disk, log, trusted>>
    BY DEF Return
  <1>2. /\ NoReq \in ReqType /\ NoReq.at = "idle" /\ NoReq.sector = 0 /\ NoReq.count = 0
        /\ NoReq.pos \in Positions
    BY DEF NoReq, ReqType, Positions
  <1>3. Shape' /\ Drives' /\ Active' /\ OwnSectors'
    BY <1>1, <1>2, SMTT(20) DEF IInv, Shape, Drives, Active, OwnSectors
  <1>4. ASSUME trusted PROVE InStep' /\ OnlyOne' /\ Progress'
    <2>1. Drives /\ \A p \in Positions : dev[p].phase \notin {"busy", "drq"}
      BY <1>1, <1>4 DEF IInv, OnlyOne
    <2>2. QED
      BY <1>1, <1>2, <2>1 DEF InStep, OnlyOne, Drives, Progress
  <1>5. QED
    BY <1>1, <1>3, <1>4, AfterScan

\* CACHE FLUSH is ignored while the last sector is stored, and otherwise only
\* clears the drive's state.
LEMMA FlushPreserves ==
  ASSUME IInv, Flush
  PROVE  IInv'
  <1> DEFINE p == req.pos
             d == dev[p]
             e == IF d.phase = "busy" THEN d ELSE [d EXCEPT !.phase = "idle", !.cmd = "flush"]
  <1>1. selected[Channel(p)] = p /\ p \in Positions /\ d \in DevType /\ DOMAIN dev = Positions
    BY Fields DEF Flush, IInv, Active, Shape
  <1>2. /\ req.at = "flush" /\ req' = [req EXCEPT !.at = "flushing"]
        /\ dev' = [dev EXCEPT ![p] = e]
        /\ UNCHANGED <<layout, scan, registry, selected, disk, log, trusted>>
    <2>1. dev \in [Positions -> DevType]
      BY DEF IInv, Shape
    <2>2. QED
      BY <1>1, <2>1, Zenon DEF Flush
  <1>3. /\ e \in DevType /\ e.storing = d.storing /\ e.left = d.left /\ e.addr = d.addr
        /\ e.faulted = d.faulted
        /\ IF d.phase = "busy" THEN e = d ELSE e.phase = "idle"
    BY <1>1, Zenon DEF DevType
  <1> HIDE DEF e
  <1>4. /\ dev' \in [Positions -> DevType] /\ dev'[p] = e
        /\ \A q \in Positions : q # p => dev'[q] = dev[q]
    BY <1>1, <1>2, <1>3 DEF IInv, Shape
  <1>5. /\ req' \in ReqType /\ req'.at = "flushing" /\ req'.res = req.res /\ req'.op = req.op
        /\ req'.pos = req.pos /\ req'.lba = req.lba /\ req'.count = req.count
        /\ req'.sector = req.sector /\ req'.buf = req.buf
    BY <1>2, SMTT(20) DEF IInv, Shape, ReqType
  <1>6. Shape'
    BY <1>2, <1>4, <1>5 DEF IInv, Shape
  <1>7. Drives'
    BY <1>2, <1>3, <1>4 DEF IInv, Drives
  <1>8. Active'
    BY <1>2, <1>5 DEF IInv, Active
  <1>9. OwnSectors'
    BY <1>2 DEF IInv, OwnSectors
  <1>10. ASSUME trusted PROVE InStep' /\ OnlyOne' /\ Progress'
    <2>1. InStep /\ OnlyOne /\ Progress /\ Drives
      BY <1>10 DEF IInv
    <2>2. d.phase \in {"idle", "busy", "err"}
      BY <1>1, <1>2, <2>1, Fields DEF InStep, Drives, IInv
    <2>3. InStep'
      BY <1>1, <1>2, <1>3, <1>4, <1>5, <2>1, <2>2 DEF InStep, Drives, Stored
    <2>4. OnlyOne'
      BY <1>2, <1>3, <1>4, <1>5, <2>1 DEF OnlyOne
    <2>5. Progress'
      BY <1>1, <1>2, <1>3, <1>4, <1>5, <2>1, <2>2 DEF Progress, Written, Stored
    <2>6. QED
      BY <2>3, <2>4, <2>5
  <1>11. QED
    BY <1>2, <1>6, <1>7, <1>8, <1>9, <1>10, AfterScan

\* Where a request goes after a sector.
LEMMA AfterSectorIs ==
  ASSUME IInv, req.at = "poll"
  PROVE  /\ req.sector + 1 < req.count => AfterSector = "poll"
         /\ ~(req.sector + 1 < req.count) =>
              /\ req.sector + 1 = req.count
              /\ req.op = "write" => AfterSector = "flush"
              /\ req.op # "write" => AfterSector = "done"
         /\ AfterSector \in {"poll", "flush", "done"}
         /\ req.sector + 1 <= req.count
  <1>1. req.sector \in Nat /\ req.count \in Nat /\ req.sector < req.count
    BY Fields DEF IInv, Active
  <1>2. QED
    BY <1>1 DEF AfterSector

\* A sector read is the one that was asked for.
LEMMA ReadPreserves ==
  ASSUME IInv, ReadSector
  PROVE  IInv'
  <1> DEFINE p == req.pos
             d == dev[p]
             x == disk[p][d.addr]
             b == [req.buf EXCEPT ![req.sector + 1] = x]
             r == IF AfterSector = "done" THEN "ok" ELSE req.res
             e == [d EXCEPT !.phase = IF d.left > 1 THEN "busy" ELSE "idle",
                            !.addr = @ + 1, !.left = @ - 1]
  <1>1. /\ req.at = "poll" /\ req.op = "read" /\ d.phase = "drq" /\ d.cmd = "read"
        /\ req' = [req EXCEPT !.buf = b, !.sector = @ + 1, !.at = AfterSector, !.res = r]
        /\ dev' = [dev EXCEPT ![p] = e]
        /\ UNCHANGED <<layout, scan, registry, selected, disk, log, trusted>>
    BY Zenon DEF ReadSector, BufferAt
  <1>2. /\ p \in Positions /\ d \in DevType /\ DOMAIN dev = Positions /\ req \in ReqType
        /\ d.addr \in Nat /\ d.left \in Nat /\ layout[p].sectors \in Nat
        /\ req.lba \in Nat /\ req.sector \in Nat /\ req.count \in Nat
        /\ req.buf \in Seq(Nat) /\ d.storing \in Nat /\ Len(log) \in Nat
    BY Fields DEF IInv, Shape
  <1>3. /\ d.left >= 1 /\ d.addr < layout[p].sectors /\ d.storing = 0
        /\ req.sector < req.count /\ req.count <= Len(req.buf)
    BY <1>1, <1>2, SMTT(20) DEF IInv, Drives, Active
  <1>4. x \in Nat
    <2>1. d.addr \in 0..(layout[p].sectors - 1)
      BY <1>2, <1>3, SMTT(20)
    <2>2. QED
      BY <1>2, <2>1, SMTT(20) DEF IInv, Shape
  <1>5. /\ b \in Seq(Nat) /\ Len(b) = Len(req.buf) /\ b[req.sector + 1] = x
        /\ \A k \in 1..Len(req.buf) : k # req.sector + 1 => b[k] = req.buf[k]
    <2>1. req.sector + 1 \in 1..Len(req.buf)
      BY <1>2, <1>3, SMTT(20)
    <2> HIDE DEF x
    <2>2. QED
      BY <1>2, <1>4, <2>1, SMTT(20)
  <1>6. /\ e \in DevType /\ e.storing = d.storing /\ e.left = d.left - 1
        /\ e.addr = d.addr + 1 /\ e.cmd = d.cmd
        /\ e.phase = IF d.left > 1 THEN "busy" ELSE "idle"
    <2>1. d.left - 1 \in Nat /\ d.addr + 1 \in Nat
      BY <1>2, <1>3, SMTT(20)
    <2>2. QED
      BY <1>2, <2>1, Zenon DEF DevType
  <1>7. r \in {"none", "ok", "error", "timeout", "refused"}
    BY <1>2 DEF ReqType
  <1>8. /\ AfterSector \in {"poll", "done"}
        /\ AfterSector = "poll" <=> req.sector + 1 < req.count
        /\ AfterSector = "done" => req.sector + 1 = req.count
        /\ req.sector + 1 <= req.count
    BY <1>1, AfterSectorIs
  <1> HIDE DEF b, e, r, x
  <1>9. /\ req' \in ReqType /\ req'.at = AfterSector /\ req'.res = r /\ req'.op = req.op
        /\ req'.pos = req.pos /\ req'.lba = req.lba /\ req'.count = req.count
        /\ req'.sector = req.sector + 1 /\ req'.buf = b
    <2>1. req.sector + 1 \in Nat
      BY <1>2
    <2>2. QED
      BY <1>1, <1>2, <1>5, <1>7, <1>8, <2>1, Zenon DEF ReqType
  <1>10. /\ dev' \in [Positions -> DevType] /\ dev'[p] = e
         /\ \A q \in Positions : q # p => dev'[q] = dev[q]
    BY <1>1, <1>2, <1>6 DEF IInv, Shape
  <1>11. Shape'
    BY <1>1, <1>9, <1>10 DEF IInv, Shape
  <1>12. Drives'
    BY <1>1, <1>2, <1>3, <1>6, <1>10, SMTT(20) DEF IInv, Drives
  <1>13. Active'
    BY <1>1, <1>3, <1>5, <1>8, <1>9 DEF IInv, Active
  <1>14. OwnSectors'
    BY <1>1 DEF IInv, OwnSectors
  <1>15. ASSUME trusted PROVE InStep' /\ OnlyOne' /\ Progress'
    <2>1. InStep /\ OnlyOne /\ Progress
      BY <1>15 DEF IInv
    <2>2. d.addr = req.lba + req.sector /\ d.left = req.count - req.sector
      BY <1>1, <1>3, <2>1 DEF InStep
    <2>3. Filled(req.sector)'
      <3>1. SUFFICES ASSUME NEW k \in 0..((req.sector + 1) - 1)
                     PROVE  b[k + 1] = disk[p][req.lba + k]
        BY <1>1, <1>9 DEF Filled
      <3>2. CASE k = req.sector
        BY <1>5, <2>2, <3>2 DEF x
      <3>3. CASE k # req.sector
        <4>1. k \in 0..(req.sector - 1) /\ k + 1 \in 1..Len(req.buf) /\ k + 1 # req.sector + 1
          BY <1>2, <1>3, <3>3, SMTT(20)
        <4>2. req.buf[k + 1] = disk[p][req.lba + k]
          BY <1>1, <2>1, <4>1 DEF Progress, Filled
        <4>3. QED
          BY <1>5, <4>1, <4>2
      <3>4. QED
        BY <3>2, <3>3
    <2>4. InStep'
      <3>1. e.addr = req.lba + (req.sector + 1) /\ e.left = req.count - (req.sector + 1)
        BY <1>2, <1>6, <2>2, SMTT(20)
      <3>2. e.phase = "busy" => AfterSector = "poll"
        BY <1>2, <1>6, <1>8, <2>2
      <3>3. QED
        BY <1>1, <1>3, <1>6, <1>9, <1>10, <3>1, <3>2 DEF InStep
    <2>5. OnlyOne'
      <3>1. e.phase = "busy" => AfterSector = "poll"
        BY <1>2, <1>6, <1>8, <2>2
      <3>2. QED
        BY <1>6, <1>9, <1>10, <2>1, <3>1 DEF OnlyOne
    <2>6. Progress'
      BY <1>1, <1>8, <1>9, <2>3 DEF Progress
    <2>7. QED
      BY <2>4, <2>5, <2>6
  <1>16. QED
    BY <1>1, <1>11, <1>12, <1>13, <1>14, <1>15, AfterScan

\* A sector handed over is stored next, at the place it was asked for.
LEMMA WritePreserves ==
  ASSUME IInv, WriteSector
  PROVE  IInv'
  <1> DEFINE p == req.pos
             d == dev[p]
             e == [d EXCEPT !.phase = "busy", !.storing = Len(log)]
  <1>1. /\ req.at = "poll" /\ req.op = "write" /\ d.phase = "drq" /\ d.cmd = "write"
        /\ UNCHANGED <<layout, scan, registry, selected, disk, log, trusted>>
    BY DEF WriteSector
  <1>2. /\ p \in Positions /\ d \in DevType /\ DOMAIN dev = Positions /\ req \in ReqType
        /\ d.addr \in Nat /\ d.left \in Nat /\ layout[p].sectors \in Nat
        /\ req.lba \in Nat /\ req.sector \in Nat /\ req.count \in Nat
        /\ req.buf \in Seq(Nat) /\ d.storing \in Nat /\ Len(log) \in Nat
    BY Fields DEF IInv, Shape
  <1>3. /\ d.left >= 1 /\ d.addr < layout[p].sectors /\ d.storing = 0
        /\ req.sector < req.count /\ req.count <= Len(req.buf) /\ Len(log) # 0
    <2>1. log \in Seq(LogType) /\ log # <<>>
      BY <1>1 DEF IInv, Shape, Active
    <2>2. QED
      BY <1>1, <1>2, <2>1, SMTT(20) DEF IInv, Drives, Active
  <1>4. dev' = [dev EXCEPT ![p] = e]
    <2>1. req.sector + 1 \in 1..Len(req.buf)
      BY <1>2, <1>3, SMTT(20)
    <2>2. req.buf[req.sector + 1] = Len(log)
      BY <1>1, <2>1 DEF IInv, Active
    <2>3. dev' = [dev EXCEPT ![p].phase = "busy", ![p].storing = req.buf[req.sector + 1]]
      BY DEF WriteSector, BufferAt
    <2>4. QED
      BY <2>2, <2>3, Zenon
  <1>5. /\ e \in DevType /\ e.storing = Len(log) /\ e.left = d.left
        /\ e.addr = d.addr /\ e.cmd = d.cmd /\ e.phase = "busy"
    BY <1>2, Zenon DEF DevType
  <1>6. /\ AfterSector \in {"poll", "flush"}
        /\ AfterSector = "poll" => req.sector + 1 < req.count
        /\ AfterSector = "flush" => req.sector + 1 = req.count
        /\ req.sector + 1 <= req.count
    BY <1>1, AfterSectorIs
  <1> HIDE DEF e
  <1>7. /\ req' \in ReqType /\ req'.at = AfterSector /\ req'.res = req.res /\ req'.op = req.op
        /\ req'.pos = req.pos /\ req'.lba = req.lba /\ req'.count = req.count
        /\ req'.sector = req.sector + 1 /\ req'.buf = req.buf
    <2>1. req.sector + 1 \in Nat
      BY <1>2
    <2>2. req' = [req EXCEPT !.sector = @ + 1, !.at = AfterSector]
      BY DEF WriteSector
    <2>3. QED
      BY <1>2, <1>6, <2>1, <2>2, Zenon DEF ReqType
  <1>8. /\ dev' \in [Positions -> DevType] /\ dev'[p] = e
        /\ \A q \in Positions : q # p => dev'[q] = dev[q]
    BY <1>2, <1>4, <1>5 DEF IInv, Shape
  <1>9. Shape'
    BY <1>1, <1>7, <1>8 DEF IInv, Shape
  <1>10. Drives'
    BY <1>1, <1>2, <1>3, <1>5, <1>8, SMTT(20) DEF IInv, Drives
  <1>11. Active'
    BY <1>1, <1>3, <1>6, <1>7 DEF IInv, Active
  <1>12. OwnSectors'
    BY <1>1 DEF IInv, OwnSectors
  <1>13. ASSUME trusted PROVE InStep' /\ OnlyOne' /\ Progress'
    <2>1. InStep /\ OnlyOne /\ Progress
      BY <1>13 DEF IInv
    <2>2. /\ d.addr = req.lba + req.sector /\ d.left = req.count - req.sector
          /\ Stored(req.sector)
      BY <1>1, <1>3, <2>1 DEF InStep
    <2>3. InStep'
      <3>1. /\ e.addr = req.lba + (req.sector + 1) - 1
            /\ e.left = req.count - (req.sector + 1) + 1
            /\ req.sector + 1 >= 1 /\ (req.sector + 1) - 1 = req.sector
        <4>1. /\ req.lba + req.sector = req.lba + (req.sector + 1) - 1
              /\ req.count - req.sector = req.count - (req.sector + 1) + 1
              /\ req.sector + 1 >= 1 /\ (req.sector + 1) - 1 = req.sector
          BY <1>2, SMTT(20)
        <4>2. QED
          BY <1>5, <2>2, <4>1
      <3>2. Stored(req.sector - 1)'
        BY <1>1, <1>7, <2>2, <3>1 DEF Stored
      <3>3. QED
        BY <1>1, <1>3, <1>5, <1>7, <1>8, <3>1, <3>2 DEF InStep
    <2>4. OnlyOne'
      BY <1>6, <1>7, <1>8, <2>1 DEF OnlyOne
    <2>5. Progress'
      BY <1>1, <1>5, <1>6, <1>7, <1>8 DEF Progress
    <2>6. QED
      BY <2>3, <2>4, <2>5
  <1>14. QED
    BY <1>1, <1>9, <1>10, <1>11, <1>12, <1>13, AfterScan

\* While requests are trusted the drive is at the command of the request.
LEMMA WrongPreserves ==
  ASSUME IInv, WrongTransfer
  PROVE  IInv'
  <1> DEFINE d == dev[req.pos]
             r == IF AfterSector = "done" THEN "ok" ELSE req.res
  <1>1. /\ req.at = "poll" /\ d.phase = "drq" /\ d.cmd # req.op
        /\ req' = [req EXCEPT !.sector = @ + 1, !.at = AfterSector, !.res = r]
        /\ UNCHANGED <<layout, scan, registry, selected, dev, disk, log, trusted>>
    BY DEF WrongTransfer
  <1>2. /\ req.pos \in Positions /\ req \in ReqType
        /\ req.sector \in Nat /\ req.count \in Nat
    BY Fields DEF IInv, Shape
  <1>3. ~trusted
    BY <1>1, <1>2 DEF IInv, InStep, Drives
  <1>4. /\ AfterSector \in {"poll", "flush", "done"}
        /\ AfterSector = "poll" => req.sector + 1 < req.count
        /\ AfterSector = "flush" => req.sector + 1 = req.count /\ req.op = "write"
        /\ req.sector + 1 <= req.count
    BY <1>1, AfterSectorIs
  <1>5. r \in {"none", "ok", "error", "timeout", "refused"}
    BY <1>2 DEF ReqType
  <1> HIDE DEF r
  <1>6. /\ req' \in ReqType /\ req'.at = AfterSector /\ req'.op = req.op
        /\ req'.pos = req.pos /\ req'.lba = req.lba /\ req'.count = req.count
        /\ req'.sector = req.sector + 1 /\ req'.buf = req.buf
    <2>1. req.sector + 1 \in Nat
      BY <1>2
    <2>2. QED
      BY <1>1, <1>2, <1>4, <1>5, <2>1, Zenon DEF ReqType
  <1>7. Shape' /\ Drives' /\ OwnSectors'
    BY <1>1, <1>6 DEF IInv, Shape, Drives, OwnSectors
  <1>8. Active'
    BY <1>1, <1>4, <1>6 DEF IInv, Active
  <1>9. QED
    BY <1>1, <1>3, <1>7, <1>8, AfterScan

\* Below 2^28 the registers carry the sector number itself, and above it with
\* the 48-bit command.
LEMMA AddressFits ==
  ASSUME NEW d, NEW lba \in Nat, lba < LIMIT28 \/ d.lba48
  PROVE  Address(d, lba) = lba
  <1>1. LIMIT28 \in Nat \ {0}
    BY AtaOK
  <1>2. CASE lba < LIMIT28
    <2>1. lba % LIMIT28 = lba
      BY <1>1, <1>2
    <2>2. QED
      BY <2>1 DEF Address
  <1>3. CASE ~(lba < LIMIT28)
    <2>1. lba > LIMIT28 - 1
      BY <1>1, <1>3
    <2>2. Uses48(d, lba)
      BY <1>3, <2>1 DEF Uses48
    <2>3. QED
      BY <2>2 DEF Address
  <1>4. QED
    BY <1>2, <1>3

\* A new request is the last of the log; its command starts at its first sector.
LEMMA IssuePreserves ==
  ASSUME IInv, NEW op \in {"read", "write"}, NEW i \in DOMAIN registry,
         NEW lba \in 0..MAXLBA, NEW count \in 0..(MAXCOUNT + 1),
         NEW buflen \in {1, MAXCOUNT + 1}, Issue(op, i, lba, count, buflen)
  PROVE  IInv'
  <1> DEFINE d == registry[i]
             p == d.pos
             id == Len(log) + 1
             b == [k \in 1..buflen |-> IF op = "write" THEN id ELSE 0]
             new == [NoReq EXCEPT !.op = op, !.pos = p, !.lba = lba, !.count = count,
                                  !.buf = b]
             l == [op |-> op, pos |-> p, lba |-> lba, count |-> count]
             fits == lba < LIMIT28 \/ d.lba48
             refused == count > MAXCOUNT \/ buflen < count
             e == [IdleDev EXCEPT !.phase = "busy", !.cmd = op, !.addr = Address(d, lba),
                                  !.left = Sectors(count), !.lba28 = ~Uses48(d, lba)]
             at == IF count > 0 THEN "poll" ELSE IF op = "write" THEN "flush" ELSE "done"
             res == IF at = "done" THEN "ok" ELSE "none"
  <1>1. /\ scan = 5 /\ req.at = "idle" /\ Len(log) < MAXREQS
        /\ log' = Append(log, l)
        /\ UNCHANGED <<layout, scan, registry, disk>>
    BY DEF Issue
  <1>2. refused => /\ req' = [new EXCEPT !.at = "done", !.res = "refused"]
                   /\ UNCHANGED <<selected, dev, trusted>>
    BY DEF Issue
  <1>3. ~refused =>
          /\ req' = IF count > 0 THEN [new EXCEPT !.at = "poll"]
                    ELSE IF op = "write" THEN [new EXCEPT !.at = "flush"]
                    ELSE [new EXCEPT !.at = "done", !.res = "ok"]
          /\ selected' = [selected EXCEPT ![Channel(p)] = p]
          /\ dev' = IF dev[p].phase = "busy" THEN dev ELSE [dev EXCEPT ![p] = e]
          /\ trusted' = (trusted /\ fits /\ dev[p].phase # "busy" /\ count # 0)
    BY DEF Issue
  <1>4. /\ Shape /\ Drives /\ OwnSectors /\ log \in Seq(LogType) /\ Len(log) \in Nat
        /\ p \in Positions /\ dev \in [Positions -> DevType]
    <2>1. registry[i] \in FoundType
      BY DEF IInv, Shape
    <2>2. QED
      BY <2>1, Fields, SMTT(20) DEF IInv, Shape, FoundType
  <1>5. /\ lba \in Nat /\ count \in Nat /\ MAXREQS \in Nat /\ buflen \in Nat
        /\ id \in Nat /\ Sectors(count) \in Nat /\ Sectors(count) >= 1
        /\ count # 0 => Sectors(count) = count /\ count >= 1 /\ at = "poll"
        /\ count = 0 => ~refused
    BY <1>4, AtaOK DEF Sectors
  <1>6. l \in LogType
    BY <1>4, <1>5 DEF LogType
  <1>7. /\ log' \in Seq(LogType) /\ Len(log') = id /\ log'[id] = l /\ log' # <<>>
        /\ id <= MAXREQS /\ Len(log) <= id /\ id # 0
        /\ \A w \in 1..Len(log) : log'[w] = log[w]
    <2> HIDE DEF l
    <2>1. log' \in Seq(LogType) /\ Len(log') = id /\ log'[id] = l
          /\ \A w \in 1..Len(log) : log'[w] = log[w]
      BY <1>1, <1>4, <1>6
    <2>2. id <= MAXREQS /\ Len(log) <= id /\ id # 0
      BY <1>1, <1>4, <1>5
    <2>3. QED
      BY <2>1, <2>2
  <1>8. b \in Seq(Nat) /\ Len(b) = buflen /\ (op = "write" => \A k \in 1..buflen : b[k] = id)
    <2>1. b \in [1..buflen -> Nat]
      BY <1>5
    <2>2. op = "write" => \A k \in 1..buflen : b[k] = id
      OBVIOUS
    <2> HIDE DEF b
    <2>3. QED
      BY <1>5, <2>1, <2>2
  <1> HIDE DEF b
  <1>9. /\ req' \in ReqType /\ req'.op = op /\ req'.pos = p /\ req'.lba = lba
        /\ req'.count = count /\ req'.sector = 0 /\ req'.buf = b
        /\ IF refused THEN req'.at = "done" /\ req'.res = "refused"
                      ELSE req'.at = at /\ req'.res = res
    <2> HIDE DEF refused, p, at, res
    <2>1. CASE refused
      <3>1. req' = [at |-> "done", op |-> op, pos |-> p, lba |-> lba, count |-> count,
                    sector |-> 0, buf |-> b, res |-> "refused"]
        BY <1>2, <2>1, Zenon DEF NoReq
      <3>2. QED
        BY <1>4, <1>5, <1>8, <2>1, <3>1 DEF ReqType
    <2>2. CASE ~refused
      <3>1. req' = [at |-> at, op |-> op, pos |-> p, lba |-> lba, count |-> count,
                    sector |-> 0, buf |-> b, res |-> res]
        <4>1. CASE count > 0
          BY <1>3, <2>2, <4>1, Zenon DEF NoReq, at, res
        <4>2. CASE ~(count > 0) /\ op = "write"
          BY <1>3, <2>2, <4>2, Zenon DEF NoReq, at, res
        <4>3. CASE ~(count > 0) /\ op # "write"
          BY <1>3, <2>2, <4>3, Zenon DEF NoReq, at, res
        <4>4. QED
          BY <4>1, <4>2, <4>3
      <3>2. at \in {"poll", "flush", "done"} /\ res \in {"ok", "none"}
        BY DEF at, res
      <3>3. QED
        BY <1>4, <1>5, <1>8, <2>2, <3>1, <3>2 DEF ReqType
    <2>3. QED
      BY <2>1, <2>2
  <1>10. Address(d, lba) \in Nat
    BY <1>5, AtaOK DEF Address
  <1>11. /\ e \in DevType /\ e.phase = "busy" /\ e.cmd = op /\ e.addr = Address(d, lba)
         /\ e.left = Sectors(count) /\ e.storing = 0
    <2> DEFINE low == ~Uses48(d, lba)
               a == Address(d, lba)
    <2>1. low \in BOOLEAN /\ a \in Nat
      BY <1>10
    <2>2. e = [IdleDev EXCEPT !.phase = "busy", !.cmd = op, !.addr = a, !.left = Sectors(count),
                              !.lba28 = low]
      OBVIOUS
    <2> HIDE DEF low, a, e
    <2>3. QED
      BY <1>5, <2>1, <2>2, Zenon DEF DevType, IdleDev, a
  <1> HIDE DEF e, d, p, new, l, fits, refused, at, res
  <1>12. /\ dev' \in [Positions -> DevType]
         /\ \A q \in Positions : q # p => dev'[q] = dev[q]
         /\ dev'[p] = dev[p] \/ dev'[p] = e
    BY <1>2, <1>3, <1>4, <1>11
  <1>13. Shape'
    <2>1. trusted' \in BOOLEAN /\ selected' \in [{0, 1} -> Positions]
      BY <1>2, <1>3, <1>4, Zenon DEF Shape, Channel
    <2>2. QED
      BY <1>1, <1>7, <1>9, <1>12, <2>1 DEF IInv, Shape
  <1>14. Drives'
    <2>1. SUFFICES ASSUME NEW q \in Positions
                   PROVE  /\ \A s \in 0..(layout[q].sectors - 1) : disk[q][s] <= id
                          /\ dev'[q].storing <= id
                          /\ dev'[q].storing # 0 => dev'[q].phase = "busy"
                          /\ dev'[q].phase \in {"busy", "drq"} => dev'[q].left >= 1
                          /\ dev'[q].phase = "drq" \/ dev'[q].storing # 0 =>
                               dev'[q].addr < layout[q].sectors
      BY <1>1, <1>7 DEF Drives
    <2>2. \A s \in 0..(layout[q].sectors - 1) : disk[q][s] <= id
      <3>1. \A s \in 0..(layout[q].sectors - 1) : disk[q][s] \in Nat /\ disk[q][s] <= Len(log)
        BY <1>4, Zenon DEF Shape, Drives
      <3>2. QED
        BY <1>4, <3>1
    <2>3. CASE dev'[q] = dev[q]
      <3>1. dev[q].storing \in Nat /\ dev[q].storing <= Len(log)
        BY <1>4, Fields DEF Drives
      <3>2. dev[q].storing <= id
        BY <1>4, <3>1
      <3>3. QED
        BY <1>4, <2>2, <2>3, <3>2 DEF Drives
    <2>4. CASE dev'[q] = e
      BY <1>5, <1>11, <2>2, <2>4, SMTT(20)
    <2>5. QED
      BY <1>12, <2>3, <2>4
  <1>15. Active'
    <2>1. ~refused => count <= buflen
      BY <1>5 DEF refused
    <2>2. ~refused => selected'[Channel(p)] = p
      BY <1>3, <1>4 DEF Shape, Channel
    <2>3. trusted' => count >= 1
      BY <1>3, <1>5
    <2>4. /\ at = "poll" => 0 < count
          /\ at = "flush" => op = "write" /\ count = 0
          /\ at \in {"poll", "flush", "done"}
      BY <1>5 DEF at
    <2>5. QED
      BY <1>1, <1>5, <1>7, <1>8, <1>9, <2>1, <2>2, <2>3, <2>4 DEF Active, l
  <1>16. trusted' => trusted
    BY <1>2, <1>3, Zenon
  <1>17. OwnSectors'
    <2>1. SUFFICES ASSUME trusted, NEW q \in Positions, NEW s \in DOMAIN disk[q],
                          disk[q][s] # 0
                   PROVE  Owned(q, s, disk[q][s])'
      BY <1>1, <1>16, Zenon DEF OwnSectors, Owned
    <2>2. disk[q][s] \in 1..Len(log)
      <3>1. s \in 0..(layout[q].sectors - 1) /\ disk[q][s] \in Nat
        BY <1>4, <2>1, Zenon DEF Shape
      <3>2. disk[q][s] <= Len(log)
        BY <1>4, <3>1 DEF Drives
      <3>3. QED
        BY <1>4, <2>1, <3>1, <3>2
    <2>3. Owned(q, s, disk[q][s])
      BY <1>4, <2>1, OwnSectorsAre
    <2>4. log'[disk[q][s]] = log[disk[q][s]]
      BY <1>7, <2>2
    <2>5. QED
      BY <1>1, <2>3, <2>4 DEF Owned
  <1>18. ASSUME trusted' PROVE InStep' /\ OnlyOne' /\ Progress'
    <2>1. \A q \in Positions : dev[q].phase \notin {"busy", "drq"} /\ dev[q].storing = 0
      <3>1. OnlyOne /\ Drives
        BY <1>16, <1>18 DEF IInv
      <3>2. QED
        BY <1>1, <3>1 DEF OnlyOne, Drives
    <2>2. CASE refused
      <3>1. dev' = dev
        BY <1>2, <2>2
      <3>2. QED
        BY <1>4, <1>9, <2>1, <2>2, <3>1 DEF InStep, OnlyOne, Progress
    <2>3. CASE ~refused
      <3>1. fits /\ dev'[p] = e /\ at = "poll" /\ Sectors(count) = count
        <4>1. fits /\ dev'[p] = e /\ count # 0
          BY <1>3, <1>4, <1>18, <2>3, Zenon
        <4>2. QED
          BY <1>5, <4>1
      <3>2. e.addr = lba
        BY <1>5, <1>11, <3>1, AddressFits DEF fits
      <3>3. lba + 0 = lba /\ count - 0 = count
        BY <1>5
      <3>4. InStep'
        BY <1>9, <1>11, <2>3, <3>1, <3>2, <3>3 DEF InStep, Stored
      <3>5. OnlyOne'
        BY <1>9, <1>12, <2>1, <2>3, <3>1 DEF OnlyOne
      <3>6. Progress'
        BY <1>9, <2>3, <3>1 DEF Progress, Filled
      <3>7. QED
        BY <3>4, <3>5, <3>6
    <2>4. QED
      BY <2>2, <2>3
  <1>19. QED
    BY <1>1, <1>13, <1>14, <1>15, <1>17, <1>18, AfterScan

-----------------------------------------------------------------------------
(* Theorems                                                                *)

\* The invariant holds in every reachable state.
THEOREM AtaInvariant == AtaSpec => []IInv
  <1>1. IInv /\ [AtaNext]_ataVars => IInv'
    <2>1. SUFFICES ASSUME IInv, [AtaNext]_ataVars PROVE IInv'
      OBVIOUS
    <2>2. ASSUME NEW op \in {"read", "write"}, NEW i \in DOMAIN registry,
                 NEW lba \in 0..MAXLBA, NEW count \in 0..(MAXCOUNT + 1),
                 NEW buflen \in {1, MAXCOUNT + 1}, Issue(op, i, lba, count, buflen)
          PROVE  IInv'
      BY <2>1, <2>2, IssuePreserves
    <2>3. ASSUME NEW p \in Positions, DevReady(p) \/ DevStore(p) \/ DevFail(p)
          PROVE  IInv'
      BY <2>1, <2>3, ReadyPreserves, StorePreserves, FailPreserves
    <2>4. CASE UNCHANGED ataVars
      <3>1. UNCHANGED <<layout, scan, registry, selected, dev, disk, req, log, trusted>>
        BY <2>4, SMTT(20) DEF ataVars
      <3>2. Shape' /\ Drives' /\ Active' /\ OwnSectors'
        BY <2>1, <3>1, SMTT(20) DEF IInv, Shape, Drives, Active, OwnSectors
      <3>3. trusted' => InStep' /\ OnlyOne' /\ Progress'
        BY <2>1, <3>1 DEF IInv, InStep, OnlyOne, Progress, Filled, Stored, Written
      <3>4. QED
        BY <2>1, <3>1, <3>2, <3>3, AfterScan
    <2>5. QED
      BY <2>1, <2>2, <2>3, <2>4, ScanPreserves, EndsPreserve, ReadPreserves,
         WritePreserves, WrongPreserves, FlushPreserves, ReturnPreserves
      DEF AtaNext
  <1>2. QED
    BY <1>1, InitEstablishes, PTL DEF AtaSpec

\* No transfer of the driver ever leaves the buffer, the count or the disk.
THEOREM TypeCorrect == AtaSpec => []AtaTypeOK
  <1>1. IInv => AtaTypeOK
    <2>1. SUFFICES ASSUME IInv PROVE AtaTypeOK
      OBVIOUS
    <2>2. Shape /\ Drives /\ Len(log) \in Nat /\ MAXREQS \in Nat
      BY <2>1, Fields, AtaOK DEF IInv
    <2>3. ASSUME NEW p \in Positions
          PROVE  /\ dev[p].phase \in {"idle", "busy", "drq", "err"}
                 /\ dev[p].left \in Nat /\ dev[p].addr \in Nat
                 /\ DOMAIN disk[p] = 0..(layout[p].sectors - 1)
                 /\ \A s \in DOMAIN disk[p] : disk[p][s] \in 0..MAXREQS
      <3>1. disk[p] \in [0..(layout[p].sectors - 1) -> Nat] /\ Len(log) <= MAXREQS
        BY <2>2 DEF Shape
      <3>2. ASSUME NEW s \in 0..(layout[p].sectors - 1) PROVE disk[p][s] \in 0..MAXREQS
        <4>1. disk[p][s] \in Nat /\ disk[p][s] <= Len(log)
          BY <2>2, <3>1, Zenon DEF Drives
        <4>2. QED
          BY <2>2, <3>1, <4>1
      <3>3. QED
        BY <2>2, <3>1, <3>2, Fields, SMTT(20)
    <2>4. /\ req.sector \in 0..req.count
          /\ req.res \in {"none", "ok", "error", "timeout", "refused"}
      BY <2>1, <2>2, Fields DEF IInv, Active, Shape, ReqType
    <2>5. \A i \in DOMAIN registry : registry[i].pos \in Positions
      <3>1. ASSUME NEW i \in DOMAIN registry PROVE registry[i] \in FoundType
        BY <2>2 DEF Shape
      <3>2. QED
        BY <3>1 DEF FoundType
    <2>6. QED
      BY <2>2, <2>3, <2>4, <2>5 DEF AtaTypeOK, Shape
  <1>2. QED
    BY <1>1, AtaInvariant, PTL

\* storage::init registers exactly the ATA disks, in order, whatever is attached.
THEOREM RegistryCorrect == AtaSpec => []RegistryExact
  <1>1. IInv => RegistryExact
    BY DEF IInv
  <1>2. QED
    BY <1>1, AtaInvariant, PTL

\* No write ever reaches a sector it was not asked to write, on disks of any
\* size and for any place of the 28-bit limit.
THEOREM OwnSectorsCorrect == AtaSpec => []OwnSectors
  <1>1. IInv => OwnSectors
    BY DEF IInv
  <1>2. QED
    BY <1>1, AtaInvariant, PTL

\* A request that returns Ok has transferred every sector, up to the one store
\* whose failure nothing looks at.
THEOREM OkCorrect == AtaSpec => []OkIsDone
  <1>1. IInv => OkIsDone
    <2>1. SUFFICES ASSUME IInv PROVE OkIsDone
      OBVIOUS
    <2>2. ReadExact
      BY <2>1 DEF ReadExact, IInv, Progress, Filled
    <2>3. WriteStored
      <3>1. SUFFICES ASSUME trusted, req.at = "done", req.op = "write", req.res = "ok",
                            NEW k \in 0..(req.count - 1)
                     PROVE  \/ disk[req.pos][req.lba + k] = Len(log)
                            \/ k = req.count - 1 /\ dev[req.pos].faulted
        BY DEF WriteStored
      <3>2. Written /\ req.lba \in Nat /\ req.count \in Nat
        BY <2>1, <3>1, Fields DEF IInv, Progress
      <3>3. CASE k = req.count - 1
        <4>1. req.lba + k = req.lba + req.count - 1
          BY <3>2, <3>3
        <4>2. QED
          BY <3>2, <3>3, <4>1 DEF Written
      <3>4. CASE k # req.count - 1
        <4>1. k \in 0..((req.count - 1) - 1)
          BY <3>2, <3>4
        <4>2. QED
          BY <3>2, <4>1 DEF Written, Stored
      <3>5. QED
        BY <3>3, <3>4
    <2>4. QED
      BY <2>2, <2>3 DEF OkIsDone
  <1>2. QED
    BY <1>1, AtaInvariant, PTL
=============================================================================
