------------------------------ MODULE UndoLine ------------------------------
(***************************************************************************)
(* What the undo history of the designer promises, apart from how          *)
(* canvasHistoryStore keeps it: the versions of the drawing lie on one     *)
(* line and the user looks at one of them.  Undo and redo only move along  *)
(* the line; nothing on it is lost, repeated or reordered by them.         *)
(***************************************************************************)
EXTENDS Naturals, Sequences

CONSTANT Depth       \* how many versions before the present one are kept

VARIABLES versions,  \* the line
          at         \* the version on the screen, an index of versions

lineVars == <<versions, at>>

LineInit == at = 1 /\ Len(versions) = 1

(* The line is `line' except for its i-th version, which is on the screen. *)
Showing(line, i) == /\ at' = i
                    /\ Len(versions') = Len(line)
                    /\ \A j \in 1..Len(line) : j # i => versions'[j] = line[j]

(* The present version changes in place.                                   *)
Amend == Showing(versions, at)

(* A change begins k copies further on (a node is deleted together with    *)
(* its edges: k = 2): what was undone is given up, and the oldest versions *)
(* fall off a full line.                                                   *)
Fork(k) == LET kept == SubSeq(versions, 1, at) \o [i \in 1..k |-> versions[at]]
               drop == IF at + k > Depth + 1 THEN at + k - (Depth + 1) ELSE 0
           IN Showing(SubSeq(kept, drop + 1, at + k), at + k - drop)

Back == at > 1 /\ at' = at - 1 /\ UNCHANGED versions

Forth == at < Len(versions) /\ at' = at + 1 /\ UNCHANGED versions

(* Saving, or opening a definition, forgets all but the present version.   *)
Forget == at' = 1 /\ Len(versions') = 1

LineNext == Amend \/ (\E k \in {1, 2} : Fork(k)) \/ Back \/ Forth \/ Forget

LineSpec == LineInit /\ [][LineNext]_lineVars
=============================================================================
