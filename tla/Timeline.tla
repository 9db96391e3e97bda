------------------------------- MODULE Timeline -------------------------------
(***************************************************************************)
(* What undo and redo promise: a tape of states with a position.  Editing  *)
(* drops what lies ahead and adds a state, possibly forgetting the oldest; *)
(* undo and redo move along the tape and change nothing on it.             *)
(***************************************************************************)
EXTENDS Naturals, Sequences

CONSTANTS
    LIMIT,      \* states kept besides the current one
    BATCH       \* edits that one step may make
VARIABLES tape, pos

Init == Len(tape) = 1 /\ pos = 1

\* n edits add n states to those up to the position; of all these the latest
\* LIMIT + 1 stay.
Edit ==
    \E n \in 1..BATCH :
        LET drop == IF pos + n > LIMIT + 1 THEN pos + n - (LIMIT + 1) ELSE 0
        IN /\ Len(tape') = pos + n - drop
           /\ \A i \in 1..Len(tape') : i + drop <= pos => tape'[i] = tape[i + drop]
           /\ pos' = Len(tape')

Back == pos > 1 /\ pos' = pos - 1 /\ tape' = tape
Forth == pos < Len(tape) /\ pos' = pos + 1 /\ tape' = tape

Next == Edit \/ Back \/ Forth

Spec == Init /\ [][Next]_<<tape, pos>>
=============================================================================
