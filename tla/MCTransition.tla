---------------------------- MODULE MCTransition ----------------------------
(***************************************************************************)
(* Definition graphs for Transition.  All pass validateGraph.              *)
(***************************************************************************)
EXTENDS Transition, TLC

\* Behind a first choice three graphs.  One of blocks (P1): three branches, with
\* tasks and a second split behind them, a choice with a merge, and two tasks with
\* an END of their own; then a service, a sub-process.  One of shapes that
\* validateGraph lets pass (P): a loop through two tasks, a timer, a one-in one-out
\* parallel gateway, a choice that may match no edge, and a task (G2) before a
\* split whose first target is a split and whose second is a choice.  And one (P5) in
\* which a service (V2) and a sync_inline service (V3) wait while a task beside them
\* leads to a split, so that V2 asks again.
GraphsOut ==
  "S" :> <<"W">> @@ "W" :> <<"P1", "P", "P5">> @@
  "P1" :> <<"A", "X", "F">> @@
  "A" :> <<"P2">> @@ "P2" :> <<"C", "D">> @@ "C" :> <<"J2">> @@ "D" :> <<"J2">> @@
  "J2" :> <<"J1">> @@
  "X" :> <<"B", "M">> @@ "B" :> <<"M">> @@ "M" :> <<"J1">> @@
  "F" :> <<"G">> @@ "G" :> <<"E2">> @@ "E2" :> <<>> @@
  "J1" :> <<"V">> @@ "V" :> <<"U">> @@ "U" :> <<"E">> @@ "E" :> <<>> @@
  "P" :> <<"L", "Q", "R", "G2">> @@
  "L" :> <<"K">> @@ "K" :> <<"Y">> @@ "Y" :> <<"N", "E3">> @@ "N" :> <<"L">> @@ "E3" :> <<>> @@
  "Q" :> <<"T">> @@ "R" :> <<"O">> @@ "O" :> <<"T", "E4">> @@ "T" :> <<"E4">> @@ "E4" :> <<>> @@
  "G2" :> <<"P3">> @@ "P3" :> <<"P4", "Z">> @@ "P4" :> <<"H", "I">> @@
  "H" :> <<"E4">> @@ "I" :> <<"E4">> @@ "Z" :> <<"E4">> @@
  "P5" :> <<"V2", "B2", "V3">> @@ "B2" :> <<"P6">> @@ "P6" :> <<"C2", "E5">> @@
  "C2" :> <<"J3">> @@ "V2" :> <<"J3">> @@ "V3" :> <<"J3">> @@ "J3" :> <<"E5">> @@ "E5" :> <<>>
GraphsNode == DOMAIN GraphsOut
GraphsKind == [n \in GraphsNode |->
  CASE n = "S" -> "START" [] n \in {"E", "E2", "E3", "E4", "E5"} -> "END"
    [] n \in {"A", "B", "C", "D", "F", "G", "K", "N", "G2", "H", "I", "B2", "C2"} -> "HUMAN_TASK"
    [] n \in {"W", "X", "M", "L", "Y", "O", "Z"} -> "EXCLUSIVE_GATEWAY"
    [] n \in {"V", "R", "V2", "V3"} -> "SERVICE_TASK" [] n = "U" -> "SUB_PROCESS" [] n = "T" -> "TIMER"
    [] OTHER -> "PARALLEL_GATEWAY"]
GraphsDefault == {"W", "X", "M", "L", "Y", "Z"}
GraphsSyncInline == {"V3"}

\* A task that is done again until a choice lets it pass.
ReworkOut == "S" :> <<"A">> @@ "A" :> <<"X">> @@ "X" :> <<"A", "E">> @@ "E" :> <<>>
ReworkNode == DOMAIN ReworkOut
ReworkKind == [n \in ReworkNode |->
  CASE n = "S" -> "START" [] n = "E" -> "END" [] n = "A" -> "HUMAN_TASK"
    [] OTHER -> "EXCLUSIVE_GATEWAY"]
ReworkDefault == {"X"}

\* The graph of blocks by itself: what the theorems on block graphs ask for holds of
\* it.  A home is a set of branch ends: C, D, the choice and F.
BlockNode == {"S", "P1", "A", "P2", "C", "D", "J2", "X", "B", "M", "J1", "V", "U", "E", "F", "G", "E2"}
BlockOut == [n \in BlockNode |-> IF n = "S" THEN <<"P1">> ELSE GraphsOut[n]]
BlockKind == [n \in BlockNode |-> GraphsKind[n]]
BlockHomes == [n \in BlockNode |->
  CASE n \in {"S", "P1"} -> {{1, 2, 3, 4}}
    [] n \in {"A", "P2"} -> {{1, 2}} [] n = "C" -> {{1}} [] n = "D" -> {{2}} [] n = "J2" -> {{1}, {2}}
    [] n \in {"X", "B", "M"} -> {{3}} [] n \in {"F", "G", "E2"} -> {{4}}
    [] n = "J1" -> {{1, 2}, {3}} [] n \in {"V", "U", "E"} -> {{1, 2, 3}}]
BlockSettled == BlockNode \ {"S", "P1", "P2"}
BlockAfter == [n \in BlockNode |->
  CASE n = "A" -> {"P2", "C", "D"} [] n \in {"C", "D"} -> {"J2", "J1", "V"}
    [] n = "B" -> {"M", "J1", "V"} [] n = "F" -> {"G"} [] n = "G" -> {"E2"} [] OTHER -> {}]

Block == INSTANCE Blocks WITH Node <- BlockNode, Out <- BlockOut, Kind <- BlockKind,
                              Default <- {"X", "M"}, SyncInline <- {}, Start <- "S"

ASSUME BlockAssumption ==
  /\ Block!GraphAssumption
  /\ Block!Divides(BlockHomes) /\ Block!Settles(BlockSettled)
  /\ ~ Block!ComesBack(BlockAfter) /\ Block!AsksOnce(BlockHomes)

=============================================================================
