------------------------------- MODULE Ordering -------------------------------
(***************************************************************************)
(* Correlated effect re-entry (src/src/ordering): N consumers claim, guard *)
(* and apply the rows of plat_effect_completion; a sweeper dead-letters    *)
(* the correlations whose next completion never came.                      *)
(*                                                                         *)
(* Every consumer cycle is one database transaction: its writes are        *)
(* visible to nobody before Commit, and Rollback (a deferral, a failed     *)
(* query, the death of the process) drops them with both locks.  Row locks *)
(* are those of FOR UPDATE SKIP LOCKED, the execute guard is the           *)
(* transaction-scoped advisory lock on Hash[correlation].                  *)
(***************************************************************************)
EXTENDS Naturals, Sequences

CONSTANTS
  Consumer,      \* the BPM consumers
  Correlation,   \* correlation ids; their text order is the order of numbers
  MaxSeq,        \* bound: the highest sequence number emitted
  Hash,          \* Hash[c] = hashtext(c), the key of the advisory lock
  Lost,          \* rows <<c, s>> whose effect never completes: a gap
  Faulty,        \* the consumers that may fail in the middle of a cycle
  SweeperFails   \* may a sweep stop half-way?

Seq1 == 1 .. MaxSeq
Row == Correlation \X Seq1
NoRow == <<0, 0>>
NoCursor == MaxSeq + 1     \* the correlation has no plat_correlation_cursor row

ASSUME OrderingAssumption ==
  /\ Correlation \subseteq Nat \ {0}
  /\ MaxSeq \in Nat \ {0}
  /\ Lost \subseteq Row
  /\ Faulty \subseteq Consumer
  /\ SweeperFails \in BOOLEAN

VARIABLES
  status,   \* plat_effect_completion.status, "ABSENT" when there is no row
  aged,     \* rows older than gap_timeout_seconds
  cursor,   \* plat_correlation_cursor.applied_seq, committed
  log,      \* EXECUTION_EFFECT_APPLIED events of a correlation, committed
  pc,       \* where each consumer is in runOneCycle
  claim,    \* the row each consumer holds FOR UPDATE
  sweep,    \* the sweeper: pc, correlations to do, the one in hand, its rows
  swept,    \* [corr, seqs] collected by the running sweep, not yet returned
  dlq       \* [corr, seqs] returned to the caller for the dead-letter queue

consumerVars == <<pc, claim>>
sweepVars == <<sweep, swept, dlq>>
vars == <<status, aged, cursor, log, pc, claim, sweep, swept, dlq>>

Statuses == {"ABSENT", "PENDING", "APPLIED", "DEAD"}
PastGuard == {"guarded", "ordered", "marked", "advanced"}
Idle == [pc |-> "idle", todo |-> {}, corr |-> 0, listed |-> {}, snap |-> {}, held |-> {}]

AppliedSeq(c) == IF cursor[c] = NoCursor THEN 0 ELSE cursor[c]
PendingSeqs(c) == {s \in Seq1 : status[c][s] = "PENDING"}

Init ==
  /\ status = [c \in Correlation |-> [s \in Seq1 |-> "ABSENT"]]
  /\ aged = {}
  /\ cursor = [c \in Correlation |-> NoCursor]
  /\ log = [c \in Correlation |-> <<>>]
  /\ pc = [k \in Consumer |-> "idle"]
  /\ claim = [k \in Consumer |-> NoRow]
  /\ sweep = Idle
  /\ swept = {}
  /\ dlq = {}

-----------------------------------------------------------------------------
(* The effects worker and the clock.                                       *)

\* recordCompletion: a repeated insert is absorbed by ON CONFLICT DO NOTHING.
RecordCompletion(c, s) ==
  /\ <<c, s>> \notin Lost
  /\ status' = IF status[c][s] = "ABSENT"
                 THEN [status EXCEPT ![c][s] = "PENDING"]
                 ELSE status
  /\ UNCHANGED <<aged, cursor, log, consumerVars, sweepVars>>

Age(c, s) ==
  /\ status[c][s] = "PENDING"
  /\ <<c, s>> \notin aged
  /\ aged' = aged \cup {<<c, s>>}
  /\ UNCHANGED <<status, cursor, log, consumerVars, sweepVars>>

-----------------------------------------------------------------------------
(* A consumer's cycle.                                                     *)

RowLocked(c, s) ==
  \/ \E k \in Consumer : pc[k] # "idle" /\ claim[k] = <<c, s>>
  \/ sweep.corr = c /\ s \in sweep.held

Claimable == {r \in Row : status[r[1]][r[2]] = "PENDING" /\ ~ RowLocked(r[1], r[2])}

PrecedesDescending(q, r) == q[1] < r[1] \/ (q[1] = r[1] /\ q[2] >= r[2])
Precedes(q, r) == q[1] < r[1] \/ (q[1] = r[1] /\ q[2] <= r[2])

Claim(k, r) ==
  /\ pc[k] = "idle"
  /\ r \in Claimable
  /\ \A q \in Claimable : Precedes(r, q)
  /\ pc' = [pc EXCEPT ![k] = "claimed"]
  /\ claim' = [claim EXCEPT ![k] = r]
  /\ UNCHANGED <<status, aged, cursor, log, sweepVars>>

Rollback(k) ==
  /\ pc' = [pc EXCEPT ![k] = "idle"]
  /\ claim' = [claim EXCEPT ![k] = NoRow]
  /\ UNCHANGED <<status, aged, cursor, log, sweepVars>>

GuardHeld(k) ==
  \E j \in Consumer \ {k} :
    pc[j] \in PastGuard /\ Hash[claim[j][1]] = Hash[claim[k][1]]

Step(k, from, to) ==
  /\ pc[k] = from
  /\ pc' = [pc EXCEPT ![k] = to]
  /\ UNCHANGED <<status, aged, cursor, log, claim, sweepVars>>

GuardAcquired(k) == Step(k, "claimed", "guarded") /\ ~ GuardHeld(k)
GuardBusy(k) == pc[k] = "claimed" /\ GuardHeld(k) /\ Rollback(k)

\* readOrInitCursor and the order guard.  The row it inserts at 0 for a new
\* correlation is part of the transaction: a deferral drops it again.
IsNewer(k) == claim[k][2] > AppliedSeq(claim[k][1])
IsNext(k) == claim[k][2] = AppliedSeq(claim[k][1]) + 1
InOrder(k) == Step(k, "guarded", "ordered") /\ IsNext(k)
OutOfOrder(k) == pc[k] = "guarded" /\ ~ IsNext(k) /\ Rollback(k)

MarkApplied(k) == Step(k, "ordered", "marked")

\* UPDATE plat_correlation_cursor ... WHERE applied_seq = seq - 1; no row
\* updated means the race is lost (the execute guard makes that impossible).
AdvanceCursor(k) ==
  /\ pc[k] = "marked"
  /\ IF IsNext(k) THEN Step(k, "marked", "advanced") ELSE Rollback(k)

\* appendEffectApplied: a key already in plat_event_idempotency appends nothing.
LogWith(c, s) ==
  IF \E i \in DOMAIN log[c] : log[c][i] = s
    THEN log ELSE [log EXCEPT ![c] = Append(log[c], s)]

Commit(k) ==
  LET c == claim[k][1]
      s == claim[k][2]
  IN /\ pc[k] = "advanced"
     /\ status' = [status EXCEPT ![c][s] = "APPLIED"]
     /\ cursor' = [cursor EXCEPT ![c] = s]
     /\ log' = LogWith(c, s)
     /\ pc' = [pc EXCEPT ![k] = "idle"]
     /\ claim' = [claim EXCEPT ![k] = NoRow]
     /\ UNCHANGED <<aged, sweepVars>>

ConsumerFails(k) == k \in Faulty /\ pc[k] # "idle" /\ Rollback(k)

ConsumerStep(k) ==
  \/ \E r \in Row : Claim(k, r)
  \/ GuardAcquired(k) \/ GuardBusy(k)
  \/ InOrder(k) \/ OutOfOrder(k)
  \/ MarkApplied(k)
  \/ AdvanceCursor(k)
  \/ Commit(k)

-----------------------------------------------------------------------------
(* The gap sweeper.                                                        *)

\* The lowest PENDING row is old and ahead of the cursor.  The inner join
\* drops a correlation that has no cursor row.
Stalled(c) ==
  /\ cursor[c] # NoCursor
  /\ \E s \in PendingSeqs(c) :
       /\ \A t \in PendingSeqs(c) : s <= t
       /\ s > cursor[c] + 1
       /\ <<c, s>> \in aged

SweepSelect ==
  /\ sweep.pc = "idle"
  /\ \E c \in Correlation : Stalled(c)
  /\ sweep' = [Idle EXCEPT !.pc = "next", !.todo = {c \in Correlation : Stalled(c)}]
  /\ UNCHANGED <<status, aged, cursor, log, consumerVars, swept, dlq>>

\* The sequence numbers the dead-letter entry will name, read before BEGIN.
SweepList(c) ==
  /\ sweep.pc = "next"
  /\ c \in sweep.todo
  /\ sweep' = [sweep EXCEPT !.pc = "listed", !.todo = @ \ {c}, !.corr = c,
                            !.listed = PendingSeqs(c)]
  /\ UNCHANGED <<status, aged, cursor, log, consumerVars, swept, dlq>>

\* BEGIN; the UPDATE takes its snapshot of the correlation's PENDING rows ...
SweepBegin ==
  /\ sweep.pc = "listed"
  /\ sweep' = [sweep EXCEPT !.pc = "update", !.snap = PendingSeqs(sweep.corr)]
  /\ UNCHANGED <<status, aged, cursor, log, consumerVars, swept, dlq>>

\* ... and locks them one by one, waiting for a consumer that holds one; the
\* WHERE clause is evaluated again on the row it gets.
SweepLockUnchecked(s) ==
  /\ sweep.pc = "update"
  /\ s \in sweep.snap
  /\ ~ RowLocked(sweep.corr, s)
  /\ sweep' = [sweep EXCEPT !.snap = @ \ {s}, !.held = @ \cup {s}]
  /\ UNCHANGED <<status, aged, cursor, log, consumerVars, swept, dlq>>
SweepLockOrSkip(s) ==
  /\ sweep.pc = "update"
  /\ s \in sweep.snap
  /\ sweep' = [sweep EXCEPT !.snap = @ \ {s},
                            !.held = IF status[sweep.corr][s] = "PENDING" /\ ~ RowLocked(sweep.corr, s)
                                       THEN @ \cup {s} ELSE @]
  /\ UNCHANGED <<status, aged, cursor, log, consumerVars, swept, dlq>>
SweepLock(s) ==
  /\ sweep.pc = "update"
  /\ s \in sweep.snap
  /\ ~ RowLocked(sweep.corr, s)
  /\ sweep' = [sweep EXCEPT !.snap = @ \ {s},
                            !.held = IF status[sweep.corr][s] = "PENDING"
                                       THEN @ \cup {s} ELSE @]
  /\ UNCHANGED <<status, aged, cursor, log, consumerVars, swept, dlq>>

SweepCommit ==
  /\ sweep.pc = "update"
  /\ sweep.snap = {}
  /\ status' = [status EXCEPT ![sweep.corr] =
                  [s \in Seq1 |-> IF s \in sweep.held THEN "DEAD" ELSE status[sweep.corr][s]]]
  /\ swept' = swept \cup {[corr |-> sweep.corr, seqs |-> sweep.listed]}
  /\ sweep' = [Idle EXCEPT !.pc = "next", !.todo = sweep.todo]
  /\ UNCHANGED <<aged, cursor, log, consumerVars, dlq>>

SweepReturn ==
  /\ sweep.pc = "next"
  /\ sweep.todo = {}
  /\ dlq' = dlq \cup swept
  /\ swept' = {}
  /\ sweep' = Idle
  /\ UNCHANGED <<status, aged, cursor, log, consumerVars>>

\* A query fails or the process dies: the open transaction and the collected
\* list are gone, the correlations already committed stay DEAD.
SweepFails ==
  /\ SweeperFails
  /\ sweep.pc # "idle"
  /\ sweep' = Idle
  /\ swept' = {}
  /\ UNCHANGED <<status, aged, cursor, log, consumerVars, dlq>>

SweeperStep ==
  \/ SweepSelect
  \/ \E c \in Correlation : SweepList(c)
  \/ SweepBegin
  \/ \E s \in Seq1 : SweepLock(s)
  \/ SweepCommit
  \/ SweepReturn

-----------------------------------------------------------------------------
Next ==
  \/ \E c \in Correlation, s \in Seq1 : RecordCompletion(c, s) \/ Age(c, s)
  \/ \E k \in Consumer : ConsumerStep(k) \/ ConsumerFails(k)
  \/ SweeperStep
  \/ SweepFails

Spec == Init /\ [][Next]_vars

\* The poll loops run for ever and the sweep runs every 60 s; a waiting UPDATE
\* gets its row sooner or later; every effect that is not lost completes and
\* every row that stays PENDING grows old.
FairSpec ==
  /\ Spec
  /\ \A k \in Consumer : WF_vars(ConsumerStep(k))
  /\ WF_vars(SweeperStep)
  /\ \A s \in Seq1 : SF_vars(SweepLock(s))
  /\ \A c \in Correlation, s \in Seq1 :
       WF_vars(status[c][s] = "ABSENT" /\ RecordCompletion(c, s)) /\ WF_vars(Age(c, s))

-----------------------------------------------------------------------------
(* Properties.                                                             *)

TypeOK ==
  /\ status \in [Correlation -> [Seq1 -> Statuses]]
  /\ aged \subseteq Row
  /\ cursor \in [Correlation -> 0 .. MaxSeq + 1]
  /\ log \in [Correlation -> Seq(Seq1)]
  /\ pc \in [Consumer -> {"idle", "claimed"} \cup PastGuard]
  /\ claim \in [Consumer -> Row \cup {NoRow}]
  /\ sweep \in [pc : {"idle", "next", "listed", "update"}, todo : SUBSET Correlation,
                corr : Correlation \cup {0}, listed : SUBSET Seq1,
                snap : SUBSET Seq1, held : SUBSET Seq1]
  /\ swept \subseteq [corr : Correlation, seqs : SUBSET Seq1]
  /\ dlq \subseteq [corr : Correlation, seqs : SUBSET Seq1]

\* The engine has seen exactly completions 1..applied_seq of a correlation, in
\* that order and once each, and exactly those rows are APPLIED: apply, event
\* and cursor cannot diverge, whatever was claimed, swept or rolled back.
AppliedPrefix ==
  \A c \in Correlation :
    /\ log[c] = [i \in 1 .. AppliedSeq(c) |-> i]
    /\ \A s \in Seq1 : status[c][s] = "APPLIED" <=> s <= AppliedSeq(c)

\* A completion named in a dead-letter entry is never applied afterwards: when
\* the entry is collected the row is buried, or a consumer has applied it since
\* the list was read.  The list is older than the transaction that buries, and
\* consumers claim, defer and apply rows of the correlation in between.
ReportedIsSettled ==
  \A e \in swept \cup dlq : \A s \in e.seqs : status[e.corr][s] \in {"APPLIED", "DEAD"}

\* When every effect completes, every row is in the end applied or dead-
\* lettered: no row is claimed and deferred for ever.
EveryRowSettles ==
  \A c \in Correlation, s \in Seq1 :
    status[c][s] = "PENDING" ~> status[c][s] \in {"APPLIED", "DEAD"}

\* Consumers, locks, crashes and sweeps together implement in-order application.
Promise == INSTANCE EffectOrder WITH state <- status,
             applied <- [c \in Correlation |-> AppliedSeq(c)]
InOrderApplication == Promise!AbsSpec
=============================================================================
