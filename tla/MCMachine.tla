------------------------------ MODULE MCMachine ------------------------------
(***************************************************************************)
(* Three parts of the machine in one run: the frame allocator, the locks   *)
(* and the ATA driver.  They share no variable, so a step of one never     *)
(* matters to another: a behaviour has steps of one.                       *)
(*                                                                         *)
(* Threads are interchangeable.  Disks with and without 48-bit addresses   *)
(* stand among other drives.                                               *)
(***************************************************************************)
EXTENDS FrameAllocator, Sync, Ata, TLC

VARIABLE part

ThreadSymmetry == Permutations(Threads)

MCLayouts == {
    <<Drive("ata48", 4), Drive("ata28", 2), Drive("none", 0), Drive("stuck", 0)>>,
    <<Drive("atapi", 0), Drive("none", 0), Drive("ata28", 2), Drive("ata48", 4)>>,
    <<Drive("stuck", 0), Drive("none", 0), Drive("none", 0), Drive("none", 0)>> }

\* The parts that take no step start in one of their initial states.
MachineInit ==
    /\ part \in {"frames", "locks", "ata"}
    /\ FramesInit /\ (part # "frames" => allocated = Pages /\ total_pages = 0)
    /\ Init /\ (part # "locks" => prim = "mutex")
    /\ AtaInit /\ (part # "ata" => layout = CHOOSE l \in Layouts : TRUE)

MachineNext ==
    \/ part = "frames" /\ FramesNext /\ UNCHANGED <<part, vars, ataVars>>
    \/ part = "locks" /\ Next /\ UNCHANGED <<part, frameVars, ataVars>>
    \/ part = "ata" /\ AtaNext /\ UNCHANGED <<part, frameVars, vars>>

MachineSpec == MachineInit /\ [][MachineNext]_<<part, frameVars, vars, ataVars>>
=============================================================================
