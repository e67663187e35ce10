---------------------------- MODULE OrderingProofs ----------------------------
(***************************************************************************)
(* The order guard is evaluated on a cursor that cannot move while the     *)
(* execute guard is held, and a row lock keeps a claimed row PENDING until *)
(* the transaction that holds it ends.  Those two facts make the prefix    *)
(* property inductive, for any number of consumers and correlations, any   *)
(* hash function and any set of lost completions.                          *)
(***************************************************************************)
EXTENDS Ordering, TLAPS

\* A claimed row is claimed once, is PENDING and is not being swept.
ClaimsHold ==
  \A k \in Consumer :
    pc[k] # "idle" =>
      /\ claim[k] \in Row
      /\ status[claim[k][1]][claim[k][2]] = "PENDING"
      /\ ~ (sweep.corr = claim[k][1] /\ claim[k][2] \in sweep.held)
      /\ \A j \in Consumer : j # k /\ pc[j] # "idle" => claim[j] # claim[k]

\* No two consumers are past the execute guard with one hash key.
OneInsideCorrelation ==
  \A j, k \in Consumer :
    j # k /\ pc[j] \in PastGuard /\ pc[k] \in PastGuard
      => Hash[claim[j][1]] # Hash[claim[k][1]]

\* What passed the order guard is still next.
OrderHolds ==
  \A k \in Consumer : pc[k] \in {"ordered", "marked", "advanced"} => IsNext(k)

\* The sweeper holds PENDING rows of the correlation in its hand.
SweepHolds ==
  /\ sweep.pc \in {"listed", "update"} => sweep.corr \in Correlation
  /\ sweep.pc # "update" => sweep.held = {}
  /\ \A s \in sweep.held : status[sweep.corr][s] = "PENDING"

IInv ==
  /\ TypeOK
  /\ ClaimsHold
  /\ OneInsideCorrelation
  /\ OrderHolds
  /\ SweepHolds
  /\ AppliedPrefix

LEMMA RowParts ==
  \A r \in Row : r[1] \in Correlation /\ r[2] \in Seq1 /\ r = <<r[1], r[2]>>
BY DEF Row

LEMMA Initially == Init => IInv
<1>. SUFFICES ASSUME Init PROVE IInv
  OBVIOUS
<1>. USE OrderingAssumption DEF Init, Row, Seq1, NoCursor, NoRow, Idle, AppliedSeq, PastGuard
<1>1. TypeOK
  BY DEF TypeOK, Statuses
<1>2. ClaimsHold /\ OneInsideCorrelation /\ OrderHolds
  BY DEF ClaimsHold, OneInsideCorrelation, OrderHolds
<1>3. SweepHolds
  BY DEF SweepHolds
<1>4. AppliedPrefix
  <2>1. \A c \in Correlation : AppliedSeq(c) = 0
    OBVIOUS
  <2>. QED BY <2>1 DEF AppliedPrefix
<1>. QED BY <1>1, <1>2, <1>3, <1>4 DEF IInv

-----------------------------------------------------------------------------
(* The steps, grouped by what they may disturb.                            *)

\* Rows arrive and age; nothing a consumer or the sweeper relies on moves.
LEMMA EnvironmentStep ==
  ASSUME IInv, NEW c \in Correlation, NEW s \in Seq1, RecordCompletion(c, s) \/ Age(c, s)
  PROVE  IInv'
<1>. USE OrderingAssumption
       DEF IInv, TypeOK, Row, Seq1, NoCursor, NoRow, PastGuard, Statuses, AppliedSeq, IsNext
<1>1. CASE RecordCompletion(c, s)
  <2>. USE <1>1 DEF RecordCompletion, consumerVars, sweepVars
  <2>1. TypeOK'
    OBVIOUS
  <2>2. \A d \in Correlation, t \in Seq1 :
          status[d][t] # "ABSENT" => status'[d][t] = status[d][t]
    OBVIOUS
  <2>3. \A d \in Correlation, t \in Seq1 :
          status[d][t] = "ABSENT" => status'[d][t] \in {"ABSENT", "PENDING"}
    OBVIOUS
  <2>4. ClaimsHold'
    BY <2>2 DEF ClaimsHold
  <2>5. OneInsideCorrelation' /\ OrderHolds'
    BY DEF OneInsideCorrelation, OrderHolds
  <2>6. SweepHolds'
    BY <2>2 DEF SweepHolds
  <2>7. AppliedPrefix'
    BY <2>2, <2>3 DEF AppliedPrefix
  <2>. QED BY <2>1, <2>4, <2>5, <2>6, <2>7
<1>2. CASE Age(c, s)
  <2>1. UNCHANGED <<status, cursor, log, pc, claim, sweep, swept, dlq>> /\ aged' \subseteq Row
    BY <1>2 DEF Age, consumerVars, sweepVars
  <2>2. TypeOK'
    BY <2>1
  <2>. QED
    BY <2>1, <2>2 DEF ClaimsHold, OneInsideCorrelation, OrderHolds, SweepHolds, AppliedPrefix
<1>. QED BY <1>1, <1>2

\* A rolled-back transaction leaves the tables alone and frees its row.
LEMMA RollbackStep ==
  ASSUME IInv, NEW k \in Consumer, Rollback(k)
  PROVE  IInv'
BY OrderingAssumption
   DEF Rollback, IInv, TypeOK, Row, Seq1, NoCursor, NoRow, PastGuard, AppliedSeq, IsNext, sweepVars,
       ClaimsHold, OneInsideCorrelation, OrderHolds, SweepHolds, AppliedPrefix

LEMMA ClaimStep ==
  ASSUME IInv, NEW k \in Consumer, NEW r \in Row, Claim(k, r)
  PROVE  IInv'
<1>. USE OrderingAssumption
       DEF Claim, IInv, TypeOK, Seq1, NoCursor, NoRow, PastGuard, AppliedSeq, IsNext, sweepVars
<1>1. TypeOK'
  OBVIOUS
<1>2. status[r[1]][r[2]] = "PENDING" /\ ~ RowLocked(r[1], r[2]) /\ r = <<r[1], r[2]>>
  BY DEF Claimable, Row
<1>3. \A j \in Consumer : pc[j] # "idle" => claim[j] # r
  BY <1>2 DEF RowLocked
<1>4. ClaimsHold'
  BY <1>2, <1>3 DEF ClaimsHold, RowLocked
<1>5. OneInsideCorrelation' /\ OrderHolds' /\ SweepHolds' /\ AppliedPrefix'
  BY DEF OneInsideCorrelation, OrderHolds, SweepHolds, AppliedPrefix
<1>. QED BY <1>1, <1>4, <1>5

\* Inside the transaction only pc moves; the guards are what it may pass.
LEMMA InsideStep ==
  ASSUME IInv, NEW k \in Consumer,
         GuardAcquired(k) \/ InOrder(k) \/ MarkApplied(k) \/ (AdvanceCursor(k) /\ IsNext(k))
  PROVE  IInv'
<1>. USE OrderingAssumption
       DEF IInv, TypeOK, Row, Seq1, NoCursor, NoRow, PastGuard, AppliedSeq, IsNext, sweepVars,
           Step, GuardAcquired, InOrder, MarkApplied, AdvanceCursor
<1>1. UNCHANGED <<status, aged, cursor, log, claim, sweep, swept, dlq>> /\ pc[k] # "idle"
  OBVIOUS
<1>2. TypeOK'
  OBVIOUS
<1>3. ClaimsHold' /\ SweepHolds' /\ AppliedPrefix'
  BY DEF ClaimsHold, SweepHolds, AppliedPrefix
<1>4. OneInsideCorrelation'
  BY DEF OneInsideCorrelation, GuardHeld
<1>5. OrderHolds'
  BY DEF OrderHolds
<1>. QED BY <1>2, <1>3, <1>4, <1>5

LEMMA SuccessorBound ==
  \A a \in Nat, t \in Nat : t <= a + 1 <=> t = a + 1 \/ t <= a
OBVIOUS

\* Commit: the claimed row is the cursor's successor, so the prefix grows by
\* one; the other consumers inside a guard are in other correlations.
LEMMA CommitStep ==
  ASSUME IInv, NEW k \in Consumer, Commit(k)
  PROVE  IInv'
<1>. USE OrderingAssumption
       DEF IInv, TypeOK, Seq1, NoCursor, NoRow, PastGuard, sweepVars
<1>0. PICK c \in Correlation, s \in Seq1 : claim[k] = <<c, s>>
  <2>1. claim[k] \in Row
    BY DEF Commit, ClaimsHold
  <2>. QED BY <2>1, RowParts
<1>1. /\ pc[k] = "advanced" /\ c \in Correlation /\ s \in Seq1 /\ claim[k] = <<c, s>>
      /\ status[c][s] = "PENDING" /\ s = AppliedSeq(c) + 1
      /\ ~ (sweep.corr = c /\ s \in sweep.held)
  BY <1>0 DEF Commit, ClaimsHold, OrderHolds, IsNext
<1>2. /\ status' = [status EXCEPT ![c][s] = "APPLIED"]
      /\ cursor' = [cursor EXCEPT ![c] = s]
      /\ pc' = [pc EXCEPT ![k] = "idle"]
      /\ claim' = [claim EXCEPT ![k] = NoRow]
      /\ UNCHANGED <<aged, sweep, swept, dlq>>
  BY <1>0 DEF Commit
<1>3. log' = [log EXCEPT ![c] = Append(log[c], s)]
  <2>1. log[c] = [i \in 1 .. AppliedSeq(c) |-> i]
    BY <1>1 DEF AppliedPrefix
  <2>2. AppliedSeq(c) \in Nat
    BY <1>1 DEF AppliedSeq
  <2>3. ~ \E i \in DOMAIN log[c] : log[c][i] = s
    BY <1>1, <2>1, <2>2
  <2>. QED BY <1>0, <2>3 DEF Commit, LogWith
<1>4. /\ AppliedSeq(c)' = s
      /\ \A d \in Correlation \ {c} : AppliedSeq(d)' = AppliedSeq(d)
  BY <1>1, <1>2 DEF AppliedSeq
<1>5. TypeOK'
  BY <1>1, <1>2, <1>3 DEF Statuses
<1>6. ClaimsHold'
  <2>. SUFFICES ASSUME NEW j \in Consumer, pc'[j] # "idle"
                PROVE  /\ claim'[j] \in Row
                       /\ status'[claim'[j][1]][claim'[j][2]] = "PENDING"
                       /\ ~ (sweep'.corr = claim'[j][1] /\ claim'[j][2] \in sweep'.held)
                       /\ \A i \in Consumer : i # j /\ pc'[i] # "idle" => claim'[i] # claim'[j]
    BY DEF ClaimsHold
  <2>1. j # k /\ pc[j] # "idle" /\ claim'[j] = claim[j] /\ claim[j] \in Row /\ claim[j] # claim[k]
    BY <1>1, <1>2 DEF ClaimsHold
  <2>2. claim[j][1] # c \/ claim[j][2] # s
    BY <1>1, <2>1 DEF Row
  <2>3. status'[claim[j][1]][claim[j][2]] = status[claim[j][1]][claim[j][2]]
    BY <1>1, <1>2, <2>1, <2>2 DEF Row
  <2>. QED BY <1>2, <2>1, <2>3 DEF ClaimsHold
<1>7. OneInsideCorrelation'
  BY <1>2 DEF OneInsideCorrelation
<1>8. OrderHolds'
  <2>. SUFFICES ASSUME NEW j \in Consumer, pc'[j] \in {"ordered", "marked", "advanced"}
                PROVE  IsNext(j)'
    BY DEF OrderHolds
  <2>1. j # k /\ pc[j] \in {"ordered", "marked", "advanced"} /\ claim'[j] = claim[j]
    BY <1>1, <1>2
  <2>2. claim[j] \in Row /\ claim[j][1] # c
    <3>1. claim[j] \in Row
      BY <2>1 DEF ClaimsHold
    <3>2. Hash[claim[j][1]] # Hash[claim[k][1]]
      BY <1>1, <2>1 DEF OneInsideCorrelation
    <3>3. claim[k][1] = c
      BY <1>0
    <3>. QED BY <3>1, <3>2, <3>3
  <2>. QED BY <1>4, <2>1, <2>2 DEF OrderHolds, IsNext, Row
<1>9. SweepHolds'
  BY <1>1, <1>2 DEF SweepHolds
<1>10. AppliedPrefix'
  <2>. SUFFICES ASSUME NEW d \in Correlation
                PROVE  /\ log'[d] = [i \in 1 .. AppliedSeq(d)' |-> i]
                       /\ \A t \in Seq1 : status'[d][t] = "APPLIED" <=> t <= AppliedSeq(d)'
    BY DEF AppliedPrefix
  <2>0. AppliedSeq(c) \in Nat
    BY <1>1 DEF AppliedSeq
  <2>1. CASE d = c
    <3>1. log'[c] = Append([i \in 1 .. AppliedSeq(c) |-> i], s)
      BY <1>1, <1>3 DEF AppliedPrefix
    <3>2. log'[c] = [i \in 1 .. s |-> i]
      BY <1>1, <2>0, <3>1
    <3>3. \A t \in Seq1 : status'[c][t] = IF t = s THEN "APPLIED" ELSE status[c][t]
      BY <1>1, <1>2
    <3>4. \A t \in Seq1 : status[c][t] = "APPLIED" <=> t <= AppliedSeq(c)
      BY DEF AppliedPrefix
    <3>5. \A t \in Seq1 : status'[c][t] = "APPLIED" <=> t <= s
      <4>1. \A t \in Seq1 : t \in Nat /\ (t <= s <=> t = s \/ t <= AppliedSeq(c))
        BY <1>1, <2>0, SuccessorBound
      <4>. QED BY <1>1, <2>0, <3>3, <3>4, <4>1
    <3>. QED BY <1>4, <2>1, <3>2, <3>5
  <2>2. CASE d # c
    BY <1>1, <1>2, <1>3, <1>4, <2>2 DEF AppliedPrefix
  <2>. QED BY <2>1, <2>2
<1>. QED BY <1>5, <1>6, <1>7, <1>8, <1>9, <1>10

\* The sweeper locks only rows no consumer holds and buries what it locked.
LEMMA SweepStep ==
  ASSUME IInv, SweeperStep \/ SweepFails
  PROVE  IInv'
<1>. USE OrderingAssumption
       DEF IInv, TypeOK, Row, Seq1, NoCursor, NoRow, PastGuard, AppliedSeq, IsNext, consumerVars,
           Idle, PendingSeqs
<1>1. ASSUME /\ UNCHANGED <<status, aged, cursor, log, pc, claim>>
             /\ TypeOK'
             /\ sweep'.held = {}
             /\ sweep'.pc \in {"listed", "update"} => sweep'.corr \in Correlation
      PROVE  IInv'
  BY <1>1 DEF ClaimsHold, OneInsideCorrelation, OrderHolds, AppliedPrefix, SweepHolds
<1>a. CASE SweepSelect
  BY <1>1, <1>a DEF SweepSelect
<1>b. ASSUME NEW c \in Correlation, SweepList(c) PROVE IInv'
  BY <1>1, <1>b DEF SweepList, SweepHolds
<1>c. CASE SweepBegin
  BY <1>1, <1>c DEF SweepBegin, SweepHolds
<1>d. CASE SweepReturn
  BY <1>1, <1>d DEF SweepReturn
<1>e. CASE SweepFails
  BY <1>1, <1>e DEF SweepFails
<1>2. ASSUME NEW s \in Seq1, SweepLock(s) PROVE IInv'
  <2>. USE <1>2 DEF SweepLock
  <2>1. TypeOK'
    OBVIOUS
  <2>2. UNCHANGED <<status, cursor, log, pc, claim>> /\ sweep'.corr = sweep.corr
          /\ sweep'.pc = sweep.pc /\ sweep'.held \subseteq sweep.held \cup {s}
    OBVIOUS
  <2>3. s \in sweep'.held => status[sweep.corr][s] = "PENDING" \/ s \in sweep.held
    OBVIOUS
  <2>4. \A k \in Consumer :
          pc[k] # "idle" => ~ (sweep.corr = claim[k][1] /\ s = claim[k][2])
    <3>1. \A k \in Consumer : pc[k] # "idle" => claim[k] \in Row /\ claim[k] # <<sweep.corr, s>>
      BY DEF RowLocked, ClaimsHold
    <3>2. ASSUME NEW k \in Consumer, pc[k] # "idle", sweep.corr = claim[k][1], s = claim[k][2]
          PROVE  FALSE
      <4>1. claim[k] = <<claim[k][1], claim[k][2]>>
        BY <3>1, <3>2, RowParts
      <4>. QED BY <3>1, <3>2, <4>1
    <3>. QED BY <3>2
  <2>5. SweepHolds'
    BY <2>2, <2>3 DEF SweepHolds
  <2>6. ClaimsHold'
    BY <2>2, <2>4 DEF ClaimsHold
  <2>7. OneInsideCorrelation' /\ OrderHolds' /\ AppliedPrefix'
    BY <2>2 DEF OneInsideCorrelation, OrderHolds, AppliedPrefix
  <2>. QED BY <2>1, <2>5, <2>6, <2>7
<1>3. CASE SweepCommit
  <2>. USE <1>3 DEF SweepCommit
  <2>1. sweep.corr \in Correlation
    BY DEF SweepHolds
  <2>2. TypeOK'
    <3>1. [s \in Seq1 |-> IF s \in sweep.held THEN "DEAD" ELSE status[sweep.corr][s]]
             \in [Seq1 -> Statuses]
      BY <2>1 DEF Statuses
    <3>2. status' \in [Correlation -> [Seq1 -> Statuses]]
      BY <2>1, <3>1
    <3>3. swept' \subseteq [corr : Correlation, seqs : SUBSET Seq1]
      BY <2>1
    <3>. QED BY <3>2, <3>3
  <2>3. \A c \in Correlation, t \in Seq1 :
          \/ status'[c][t] = status[c][t]
          \/ c = sweep.corr /\ t \in sweep.held /\ status[c][t] = "PENDING" /\ status'[c][t] = "DEAD"
    BY <2>1 DEF SweepHolds
  <2>4. ClaimsHold'
    BY <2>3 DEF ClaimsHold
  <2>5. SweepHolds'
    BY DEF SweepHolds
  <2>6. AppliedPrefix'
    BY <2>3 DEF AppliedPrefix
  <2>7. OneInsideCorrelation' /\ OrderHolds'
    BY DEF OneInsideCorrelation, OrderHolds
  <2>. QED BY <2>2, <2>4, <2>5, <2>6, <2>7
<1>. QED BY <1>a, <1>b, <1>c, <1>d, <1>e, <1>2, <1>3 DEF SweeperStep

LEMMA StutterStep ==
  ASSUME IInv, UNCHANGED vars
  PROVE  IInv'
BY DEF vars, IInv, TypeOK, ClaimsHold, OneInsideCorrelation, OrderHolds, SweepHolds, AppliedPrefix,
       AppliedSeq, IsNext

\* The strengthened invariant is inductive.
LEMMA Inductive == IInv /\ [Next]_vars => IInv'
<1>. SUFFICES ASSUME IInv, [Next]_vars PROVE IInv'
  OBVIOUS
<1>1. ASSUME NEW k \in Consumer, ConsumerStep(k) PROVE IInv'
  <2>1. CASE AdvanceCursor(k)
    BY <2>1, InsideStep, RollbackStep DEF AdvanceCursor
  <2>. QED
    BY <1>1, <2>1, ClaimStep, RollbackStep, InsideStep, CommitStep
       DEF ConsumerStep, GuardBusy, OutOfOrder
<1>. QED
  BY <1>1, EnvironmentStep, RollbackStep, SweepStep, StutterStep DEF Next, ConsumerFails

\* Every reachable state is well typed.
THEOREM TypeCorrect == Spec => []TypeOK
<1>1. IInv => TypeOK
  BY DEF IInv
<1>. QED BY <1>1, Initially, Inductive, PTL DEF Spec

\* consumer.zig, applyCompletion: the engine observes exactly completions
\* 1..applied_seq of each correlation, in order and once each.
THEOREM AppliesInSequence == Spec => []AppliedPrefix
<1>1. IInv => AppliedPrefix
  BY DEF IInv
<1>. QED BY <1>1, Initially, Inductive, PTL DEF Spec

-----------------------------------------------------------------------------
(* The list a sweep reads before its transaction, and what is reported.    *)

Settled == {"APPLIED", "DEAD"}

\* What the sweep in hand has listed existed when it was read, and within the
\* transaction whatever of it is still PENDING is locked or will be.
ListHolds ==
  sweep.pc \in {"listed", "update"} =>
    /\ sweep.corr \in Correlation
    /\ \A s \in sweep.listed :
         /\ status[sweep.corr][s] \in {"PENDING"} \cup Settled
         /\ sweep.pc = "update" /\ status[sweep.corr][s] = "PENDING"
              => s \in sweep.snap \cup sweep.held

ReportInv == ListHolds /\ ReportedIsSettled

\* A completion is never back to ABSENT, and what is settled stays as it is.
LEMMA StatusForward ==
  ASSUME IInv, [Next]_vars, NEW c \in Correlation, NEW s \in Seq1
  PROVE  /\ status[c][s] \in Settled => status'[c][s] = status[c][s]
         /\ status[c][s] = "PENDING" => status'[c][s] \in {"PENDING"} \cup Settled
<1>. USE DEF Settled
<1>0. status \in [Correlation -> [Seq1 -> Statuses]] /\ ClaimsHold /\ SweepHolds
  BY DEF IInv, TypeOK
<1>1. ASSUME NEW d \in Correlation, NEW t \in Seq1, RecordCompletion(d, t) \/ Age(d, t)
      PROVE  status[c][s] # "ABSENT" => status'[c][s] = status[c][s]
  <2>1. CASE RecordCompletion(d, t)
    BY <1>0, <2>1 DEF RecordCompletion
  <2>2. CASE Age(d, t)
    BY <2>2 DEF Age
  <2>. QED BY <1>1, <2>1, <2>2
<1>2. ASSUME NEW k \in Consumer, ConsumerStep(k) \/ ConsumerFails(k)
      PROVE  \/ status'[c][s] = status[c][s]
             \/ status[c][s] = "PENDING" /\ status'[c][s] = "APPLIED"
  <2>1. CASE Commit(k)
    <3>1. PICK d \in Correlation, t \in Seq1 : claim[k] = <<d, t>>
      BY <1>0, <2>1, RowParts DEF Commit, ClaimsHold
    <3>2. status[d][t] = "PENDING"
      BY <1>0, <2>1, <3>1 DEF Commit, ClaimsHold
    <3>3. status' = [status EXCEPT ![d][t] = "APPLIED"]
      BY <2>1, <3>1 DEF Commit
    <3>. QED BY <1>0, <3>2, <3>3
  <2>2. CASE ~ Commit(k)
    BY <1>2, <2>2
       DEF ConsumerStep, ConsumerFails, Claim, GuardAcquired, GuardBusy, InOrder, OutOfOrder,
           MarkApplied, AdvanceCursor, Step, Rollback
  <2>. QED BY <2>1, <2>2
<1>3. ASSUME SweeperStep \/ SweepFails
      PROVE  \/ status'[c][s] = status[c][s]
             \/ status[c][s] = "PENDING" /\ status'[c][s] = "DEAD"
  <2>1. CASE SweepCommit
    <3>1. sweep.corr \in Correlation /\ \A t \in sweep.held : status[sweep.corr][t] = "PENDING"
      BY <1>0, <2>1 DEF SweepCommit, SweepHolds
    <3>. QED BY <1>0, <2>1, <3>1 DEF SweepCommit
  <2>2. CASE ~ SweepCommit
    BY <1>3, <2>2
       DEF SweeperStep, SweepFails, SweepSelect, SweepList, SweepBegin, SweepLock, SweepReturn
  <2>. QED BY <2>1, <2>2
<1>4. UNCHANGED vars => status' = status
  BY DEF vars
<1>5. status[c][s] # "ABSENT" =>
        \/ status'[c][s] = status[c][s]
        \/ status[c][s] = "PENDING" /\ status'[c][s] \in {"APPLIED", "DEAD"}
  BY <1>1, <1>2, <1>3, <1>4 DEF Next
<1>. QED BY <1>5

\* A step that leaves the sweep and its lists alone keeps what was reported.
LEMMA ReportKept ==
  ASSUME IInv, ReportInv, [Next]_vars, UNCHANGED sweepVars
  PROVE  ReportInv'
<1>1. sweep.listed \subseteq Seq1 /\ swept \cup dlq \subseteq [corr : Correlation, seqs : SUBSET Seq1]
  BY DEF IInv, TypeOK
<1>2. ListHolds'
  BY <1>1, StatusForward DEF ReportInv, ListHolds, Settled, sweepVars
<1>3. ReportedIsSettled'
  BY <1>1, StatusForward DEF ReportInv, ReportedIsSettled, Settled, sweepVars
<1>. QED BY <1>2, <1>3 DEF ReportInv

LEMMA ReportSwept ==
  ASSUME IInv, ReportInv, SweeperStep \/ SweepFails
  PROVE  ReportInv'
<1>. USE DEF ReportInv, ListHolds, ReportedIsSettled, Settled, Idle
<1>0. /\ sweep.listed \subseteq Seq1 /\ status \in [Correlation -> [Seq1 -> Statuses]]
      /\ swept \cup dlq \subseteq [corr : Correlation, seqs : SUBSET Seq1]
      /\ sweep \in [pc : {"idle", "next", "listed", "update"}, todo : SUBSET Correlation,
                    corr : Correlation \cup {0}, listed : SUBSET Seq1,
                    snap : SUBSET Seq1, held : SUBSET Seq1]
  BY DEF IInv, TypeOK
<1>1. CASE SweepSelect
  BY <1>0, <1>1 DEF SweepSelect
<1>2. ASSUME NEW c \in Correlation, SweepList(c) PROVE ReportInv'
  BY <1>0, <1>2 DEF SweepList, PendingSeqs
<1>3. CASE SweepBegin
  BY <1>0, <1>3 DEF SweepBegin, PendingSeqs
<1>4. ASSUME NEW s \in Seq1, SweepLock(s) PROVE ReportInv'
  BY <1>0, <1>4 DEF SweepLock
<1>5. CASE SweepCommit
  <2>. USE <1>5 DEF SweepCommit
  <2>1. ListHolds'
    OBVIOUS
  <2>2. \A c \in Correlation, t \in Seq1 :
          status'[c][t] = IF c = sweep.corr /\ t \in sweep.held THEN "DEAD" ELSE status[c][t]
    BY <1>0
  <2>3. \A t \in sweep.listed : status'[sweep.corr][t] \in Settled
    BY <1>0, <2>2
  <2>4. \A e \in swept \cup dlq : \A t \in e.seqs : status'[e.corr][t] \in Settled
    BY <1>0, <2>2
  <2>5. ASSUME NEW e \in swept' \cup dlq', NEW t \in e.seqs
        PROVE  status'[e.corr][t] \in Settled
    <3>1. CASE e \in swept \cup dlq
      BY <2>4, <2>5, <3>1
    <3>2. CASE e \notin swept \cup dlq
      <4>1. e.corr = sweep.corr /\ e.seqs = sweep.listed
        BY <2>5, <3>2
      <4>. QED BY <2>3, <2>5, <4>1
    <3>. QED BY <3>1, <3>2
  <2>6. ReportedIsSettled'
    BY <2>5
  <2>. QED BY <2>1, <2>6
<1>6. CASE SweepReturn
  BY <1>0, <1>6 DEF SweepReturn
<1>7. CASE SweepFails
  BY <1>0, <1>7 DEF SweepFails
<1>. QED BY <1>1, <1>2, <1>3, <1>4, <1>5, <1>6, <1>7 DEF SweeperStep

\* sweeper.zig, sweepStalledCorrelations: a completion a dead-letter entry names
\* is never applied after the entry was collected.
THEOREM ReportsAreFinal == Spec => []ReportedIsSettled
<1>1. Init => ReportInv
  BY DEF Init, Idle, ReportInv, ListHolds, ReportedIsSettled
<1>2. IInv /\ ReportInv /\ [Next]_vars => ReportInv'
  <2>. SUFFICES ASSUME IInv, ReportInv, [Next]_vars PROVE ReportInv'
    OBVIOUS
  <2>1. UNCHANGED sweepVars \/ SweeperStep \/ SweepFails
    BY DEF Next, vars, sweepVars, RecordCompletion, Age, ConsumerStep, ConsumerFails, Claim,
           GuardAcquired, GuardBusy, InOrder, OutOfOrder, MarkApplied, AdvanceCursor, Commit,
           Step, Rollback
  <2>. QED BY <2>1, ReportKept, ReportSwept
<1>3. ReportInv => ReportedIsSettled
  BY DEF ReportInv
<1>. QED BY <1>1, <1>2, <1>3, Initially, Inductive, PTL DEF Spec

-----------------------------------------------------------------------------
(* Refinement: commits are applications, sweeps are burials, the rest      *)
(* stutters.                                                               *)

LEMMA InitRefines == Init => Promise!AbsInit
BY OrderingAssumption DEF Init, Promise!AbsInit, Promise!Seq1, Seq1, AppliedSeq, NoCursor

LEMMA StepRefines == IInv /\ [Next]_vars => [Promise!AbsNext]_(Promise!absVars)
<1>. SUFFICES ASSUME IInv, [Next]_vars PROVE [Promise!AbsNext]_(Promise!absVars)
  OBVIOUS
<1>. DEFINE Stutters == status' = status /\ cursor' = cursor
<1>1. Stutters => UNCHANGED Promise!absVars
  BY DEF Promise!absVars, AppliedSeq
<1>2. ASSUME NEW c \in Correlation, NEW s \in Seq1, RecordCompletion(c, s)
      PROVE  [Promise!AbsNext]_(Promise!absVars)
  <2>1. CASE status[c][s] = "ABSENT"
    <3>1. Promise!Arrive(c, s)
      BY <1>2, <2>1 DEF RecordCompletion, Promise!Arrive, AppliedSeq
    <3>. QED BY <3>1 DEF Promise!AbsNext, Promise!Seq1, Seq1
  <2>2. CASE status[c][s] # "ABSENT"
    BY <1>1, <1>2, <2>2 DEF RecordCompletion
  <2>. QED BY <2>1, <2>2
<1>3. ASSUME NEW k \in Consumer, Commit(k)
      PROVE  [Promise!AbsNext]_(Promise!absVars)
  <2>0. PICK c \in Correlation, s \in Seq1 : claim[k] = <<c, s>>
    BY <1>3 DEF Commit, IInv, ClaimsHold, Row
  <2>1. /\ pc[k] = "advanced" /\ c \in Correlation /\ s \in Seq1
        /\ status[c][s] = "PENDING" /\ s = AppliedSeq(c) + 1
    BY <1>3, <2>0 DEF Commit, IInv, ClaimsHold, OrderHolds, IsNext
  <2>2. [d \in Correlation |-> AppliedSeq(d)]'
          = [[d \in Correlation |-> AppliedSeq(d)] EXCEPT ![c] = s]
    <3>1. cursor' = [cursor EXCEPT ![c] = s] /\ cursor \in [Correlation -> 0 .. MaxSeq + 1]
            /\ s # NoCursor
      BY <1>3, <2>0, <2>1, OrderingAssumption DEF Commit, IInv, TypeOK, NoCursor, Seq1
    <3>2. \A d \in Correlation : AppliedSeq(d)' = IF d = c THEN s ELSE AppliedSeq(d)
      BY <3>1 DEF AppliedSeq
    <3>. QED BY <2>1, <3>2
  <2>3. Promise!Apply(c, s)
    BY <1>3, <2>0, <2>1, <2>2 DEF Commit, Promise!Apply
  <2>. QED BY <2>1, <2>3 DEF Promise!AbsNext, Promise!Seq1, Seq1
<1>4. ASSUME SweepCommit PROVE [Promise!AbsNext]_(Promise!absVars)
  <2>1. sweep.corr \in Correlation /\ sweep.held \subseteq Seq1
    BY <1>4 DEF SweepCommit, IInv, SweepHolds, TypeOK
  <2>2. Promise!Bury(sweep.corr, sweep.held)
    BY <1>4, <2>1 DEF SweepCommit, Promise!Bury, Promise!Seq1, Seq1, IInv, SweepHolds, AppliedSeq
  <2>. QED BY <2>1, <2>2 DEF Promise!AbsNext, Promise!Seq1, Seq1
<1>5. ASSUME NEW k \in Consumer, ConsumerStep(k) \/ ConsumerFails(k)
      PROVE  Stutters \/ Commit(k)
  BY <1>5 DEF ConsumerStep, ConsumerFails, Claim, GuardAcquired, GuardBusy, InOrder, OutOfOrder,
              MarkApplied, AdvanceCursor, Step, Rollback
<1>6. ASSUME SweeperStep \/ SweepFails PROVE Stutters \/ SweepCommit
  BY <1>6 DEF SweeperStep, SweepFails, SweepSelect, SweepList, SweepBegin, SweepLock, SweepReturn
<1>7. ASSUME NEW c \in Correlation, NEW s \in Seq1, Age(c, s) PROVE Stutters
  BY <1>7 DEF Age
<1>8. UNCHANGED vars => Stutters
  BY DEF vars
<1>. QED BY <1>1, <1>2, <1>3, <1>4, <1>5, <1>6, <1>7, <1>8 DEF Next

\* Consumers, locks, failures and sweeps implement in-order application.
THEOREM Refinement == Spec => InOrderApplication
<1>. QED
  BY InitRefines, StepRefines, Initially, Inductive, PTL
     DEF Spec, InOrderApplication, Promise!AbsSpec
=============================================================================
