------------------------------ MODULE Scheduler ------------------------------
(***************************************************************************)
(* The timers of one instance (src/src/scheduler/scheduler.zig and         *)
(* store.zig): every node polls the timers table, claims the first due row *)
(* (FOR UPDATE SKIP LOCKED), appends TIMER_FIRED, marks the row and arms   *)
(* the next one of a recurrence, all in one transaction; a failed fire is  *)
(* counted in a second transaction and dead-lettered in a third.  Requests *)
(* that end the instance cancel its timers under the projection's lock.    *)
(*                                                                         *)
(* Timer <<s, k>> is the k-th row of series s: each rearm is a new row.    *)
(* Escalation timers and the startup lock are not modelled.                *)
(***************************************************************************)
EXTENDS Naturals, Sequences, Functions

CONSTANTS
  Series,      \* timer nodes of the instance
  Poison,      \* series whose fire fails every time
  Total,       \* repeat_total
  Limit,       \* max_timer_fire_retries
  Node,        \* polling nodes
  Canceller,   \* cancelInstance requests
  Completer,   \* completeTask requests
  MaxFaults,   \* bound on the crashes and failed statements of a behaviour
  None         \* no holder of a row lock, no claimed timer

ASSUME SchedulerAssumption ==
  /\ Poison \subseteq Series
  /\ Total \in Nat \ {0} /\ Limit \in Nat \ {0} /\ MaxFaults \in Nat
  /\ Node \cap (Canceller \cup Completer) = {} /\ Canceller \cap Completer = {}
  /\ None \notin Node \cup Canceller \cup Completer

Timer == Series \X (1 .. Total)
Request == Canceller \cup Completer

VARIABLES
  status,   \* instance_projections.status
  rows,     \* rows[t]: timers.status, "none" before the row exists
  due,      \* the timers whose time has come, in the order of fires_at
  events,   \* events[t]: TIMER_FIRED events of t
  errors,   \* errors[t]: fire_error_count, any count above Limit being one
  dlq,      \* the timers with a dead_letter_items entry
  lock,     \* who holds the projection row
  held,     \* held[t]: who holds timer row t
  pc,       \* where each node and request is
  timer,    \* timer[n]: the timer node n works on
  seen,     \* seen[r]: the rows the UPDATE timers of request r has found
  faults    \* bound: the faults so far

tables == <<status, rows, due, events, errors, dlq>>
vars == <<tables, lock, held, pc, timer, seen, faults>>

Init ==
  /\ status = "ACTIVE"
  /\ \E started \in SUBSET Series :
       rows = [t \in Timer |-> IF t[1] \in started /\ t[2] = 1 THEN "pending" ELSE "none"]
  /\ due = << >>
  /\ events = [t \in Timer |-> 0]
  /\ errors = [t \in Timer |-> 0]
  /\ dlq = {}
  /\ lock = None
  /\ held = [t \in Timer |-> None]
  /\ pc = [p \in Node \cup Request |-> "idle"]
  /\ timer = [n \in Node |-> None]
  /\ seen = [r \in Request |-> {}]
  /\ faults = 0

Goto(p, l) == pc' = [pc EXCEPT ![p] = l]
Pending == {t \in Timer : rows[t] = "pending"}

\* The end of a node's transaction.
Release(n) ==
  /\ lock' = IF lock = n THEN None ELSE lock
  /\ held' = [t \in Timer |-> IF held[t] = n THEN None ELSE held[t]]

Fault == faults < MaxFaults /\ faults' = faults + 1

\* fires_at <= NOW().
Elapse(t) ==
  /\ rows[t] = "pending"
  /\ t \notin Range(due)
  /\ due' = Append(due, t)
  /\ UNCHANGED <<status, rows, events, errors, dlq, lock, held, pc, timer, seen, faults>>

-----------------------------------------------------------------------------
(* A polling node.                                                         *)

\* The first due row that is pending and that nobody has locked.
Claimable(t) == rows[t] = "pending" /\ held[t] = None
Claim(n) ==
  /\ pc[n] = "idle"
  /\ \E i \in DOMAIN due :
       /\ Claimable(due[i])
       /\ \A j \in 1 .. i - 1 : ~ Claimable(due[j])
       /\ held' = [held EXCEPT ![due[i]] = n]
       /\ timer' = [timer EXCEPT ![n] = due[i]]
  /\ Goto(n, "claimed")
  /\ UNCHANGED <<tables, lock, seen, faults>>

\* appendTimerFiredEventInTx ends in an UPDATE of the projection, and waits for
\* its lock.
AppendEventLockless(n) ==
  /\ pc[n] = "claimed"
  /\ Goto(n, "appended")
  /\ UNCHANGED <<tables, lock, held, timer, seen, faults>>
AppendEvent(n) ==
  /\ pc[n] = "claimed"
  /\ lock = None
  /\ lock' = n
  /\ Goto(n, "appended")
  /\ UNCHANGED <<tables, held, timer, seen, faults>>

\* computeRearmDecision: the next row of the series, unless this was the last.
RearmedShort(t) == {u \in Timer : u = <<t[1], t[2] + 1>> /\ u[2] < Total}
Rearmed(t) == {u \in Timer : u = <<t[1], t[2] + 1>>}

\* A fire that fails every time: a second TIMER_FIRED event breaks the unique
\* idempotency key, a recurrence may not parse or overflow.
CannotFire(t) == events[t] > 0 \/ t[1] \in Poison

Fired(t) ==
  [u \in Timer |-> IF u = t THEN "fired" ELSE IF u \in Rearmed(t) THEN "pending" ELSE rows[u]]

\* markTimerFiredInTx, the rearm and COMMIT.
Fire(n) ==
  LET t == timer[n]
  IN /\ pc[n] = "appended"
     /\ ~ CannotFire(t)
     /\ rows' = Fired(t)
     /\ events' = [events EXCEPT ![t] = @ + 1]
     /\ Goto(n, "idle")
     /\ timer' = [timer EXCEPT ![n] = None]
     /\ Release(n)
     /\ UNCHANGED <<status, due, errors, dlq, seen, faults>>

\* The fire fails: rolled back, and handleTimerFireError.
GiveUp(n) ==
  /\ Goto(n, "count")
  /\ Release(n)
  /\ UNCHANGED <<tables, timer, seen>>

FireFails(n) ==
  /\ pc[n] = "appended" /\ CannotFire(timer[n])
  /\ GiveUp(n)
  /\ UNCHANGED faults

StatementFails(n) ==
  /\ pc[n] \in {"claimed", "appended"}
  /\ Fault
  /\ GiveUp(n)

\* Its first transaction counts the error, of a timer that is still pending.
Count(n) ==
  LET t == timer[n]
  IN /\ pc[n] = "count"
     /\ held[t] = None
     /\ errors' = [errors EXCEPT ![t] = IF rows[t] = "pending" /\ @ <= Limit THEN @ + 1 ELSE @]
     /\ Goto(n, "counted")
     /\ UNCHANGED <<status, rows, due, events, dlq, lock, held, timer, seen, faults>>

\* Outside it the count is read again.
JustExhausted(t) == errors[t] = Limit
ExhaustedEarly(t) == errors[t] + 1 >= Limit
Exhausted(t) == errors[t] >= Limit
ReadCount(n) ==
  /\ pc[n] = "counted"
  /\ IF Exhausted(timer[n])
       THEN Goto(n, "fail") /\ UNCHANGED timer
       ELSE Goto(n, "idle") /\ timer' = [timer EXCEPT ![n] = None]
  /\ UNCHANGED <<tables, lock, held, seen, faults>>

\* markTimerFailedInTx: the row, if it is still pending; the DLQ entry in any
\* case.
FailedRegardless(t) == [rows EXCEPT ![t] = "failed"]
Failed(t) == [rows EXCEPT ![t] = IF @ = "pending" THEN "failed" ELSE @]
MarkFailed(n) ==
  LET t == timer[n]
  IN /\ pc[n] = "fail"
     /\ held[t] = None
     /\ rows' = Failed(t)
     /\ errors' = [errors EXCEPT ![t] = IF rows[t] = "pending" /\ @ <= Limit THEN @ + 1 ELSE @]
     /\ dlq' = dlq \cup {t}
     /\ Goto(n, "idle")
     /\ timer' = [timer EXCEPT ![n] = None]
     /\ UNCHANGED <<status, due, events, lock, held, seen, faults>>

\* The node dies, or its error handler fails and swallows it.
NodeFails(n) ==
  /\ pc[n] # "idle"
  /\ Fault
  /\ Goto(n, "idle")
  /\ timer' = [timer EXCEPT ![n] = None]
  /\ Release(n)
  /\ UNCHANGED <<tables, seen>>

-----------------------------------------------------------------------------
(* Requests on the instance.                                               *)

\* FOR UPDATE for a cancel; NOWAIT for a completion, refused when it is busy.
LockInstance(r) ==
  /\ pc[r] = "idle"
  /\ IF lock = None /\ status = "ACTIVE"
       THEN lock' = r /\ Goto(r, "locked")
       ELSE /\ r \in Completer \/ lock = None
            /\ Goto(r, "done")
            /\ UNCHANGED lock
  /\ UNCHANGED <<tables, held, timer, seen, faults>>

\* A completion whose token enters a TIMER node.
StartTimer(r, s) ==
  /\ r \in Completer /\ pc[r] = "locked"
  /\ rows[<<s, 1>>] = "none"
  /\ rows' = [rows EXCEPT ![<<s, 1>>] = "pending"]
  /\ Goto(r, "done")
  /\ lock' = None
  /\ UNCHANGED <<status, due, events, errors, dlq, held, timer, seen, faults>>

\* A cancel, or the completion that ends the instance: UPDATE timers finds the
\* pending rows ...
FindTimers(r) ==
  /\ pc[r] = "locked"
  /\ seen' = [seen EXCEPT ![r] = Pending]
  /\ Goto(r, "waiting")
  /\ UNCHANGED <<tables, lock, held, timer, faults>>

ClosedRegardless(found) == [t \in Timer |-> IF t \in found THEN "cancelled" ELSE rows[t]]
Closed(found) ==
  [t \in Timer |-> IF t \in found /\ rows[t] = "pending" THEN "cancelled" ELSE rows[t]]

\* ... waits for those that are locked, cancels what is still pending; COMMIT.
CloseInstance(r) ==
  /\ pc[r] = "waiting"
  /\ \A t \in seen[r] : held[t] = None
  /\ status' = IF r \in Canceller THEN "CANCELLED" ELSE "COMPLETED"
  /\ rows' = Closed(seen[r])
  /\ Goto(r, "done")
  /\ lock' = None
  /\ seen' = [seen EXCEPT ![r] = {}]
  /\ UNCHANGED <<due, events, errors, dlq, held, timer, faults>>

\* Rolled back: a failed statement, a crash.
Rollback(r) ==
  /\ Goto(r, "done")
  /\ lock' = None
  /\ seen' = [seen EXCEPT ![r] = {}]
  /\ UNCHANGED <<tables, held, timer>>

RequestFails(r) ==
  /\ pc[r] \in {"locked", "waiting"}
  /\ Fault
  /\ Rollback(r)

-----------------------------------------------------------------------------
(* PostgreSQL.                                                             *)

\* The node waits for the projection the request holds, the request for the
\* timer row the node holds.
Circular(n, r) ==
  /\ pc[n] = "claimed" /\ lock = r
  /\ pc[r] = "waiting" /\ timer[n] \in seen[r]

\* The deadlock detector rolls one of them back.
AbortNode(n) ==
  /\ \E r \in Request : Circular(n, r)
  /\ GiveUp(n)
  /\ UNCHANGED faults

AbortRequest(r) ==
  /\ \E n \in Node : Circular(n, r)
  /\ Rollback(r)
  /\ UNCHANGED faults

Next ==
  \/ \E t \in Timer : Elapse(t)
  \/ \E n \in Node :
       \/ Claim(n) \/ AppendEvent(n) \/ Fire(n) \/ FireFails(n) \/ StatementFails(n)
       \/ Count(n) \/ ReadCount(n) \/ MarkFailed(n) \/ NodeFails(n) \/ AbortNode(n)
  \/ \E r \in Request :
       \/ LockInstance(r) \/ FindTimers(r) \/ CloseInstance(r) \/ RequestFails(r) \/ AbortRequest(r)
       \/ \E s \in Series : StartTimer(r, s)

Spec == Init /\ [][Next]_vars

\* Time passes, the poll thread of a node keeps running and a request that is in
\* its transaction goes on; a wait for a row lock that is freed again and again
\* ends, PostgreSQL queues those that wait.
Fairness ==
  /\ \A t \in Timer : WF_vars(Elapse(t))
  /\ \A n \in Node :
       /\ WF_vars(Claim(n)) /\ WF_vars(Fire(n)) /\ WF_vars(FireFails(n)) /\ WF_vars(ReadCount(n))
       /\ SF_vars(AppendEvent(n)) /\ SF_vars(Count(n)) /\ SF_vars(MarkFailed(n))
       /\ WF_vars(AbortNode(n))
  /\ \A r \in Request : WF_vars(FindTimers(r)) /\ WF_vars(CloseInstance(r))

FairSpec == Spec /\ Fairness

-----------------------------------------------------------------------------
(* Properties.                                                             *)

TypeOK ==
  /\ status \in {"ACTIVE", "COMPLETED", "CANCELLED"}
  /\ rows \in [Timer -> {"none", "pending", "fired", "cancelled", "failed"}]
  /\ due \in Seq(Timer)
  /\ events \in [Timer -> Nat]
  /\ errors \in [Timer -> 0 .. Limit + 1]
  /\ dlq \subseteq Timer
  /\ lock \in Node \cup Request \cup {None}
  /\ held \in [Timer -> Node \cup {None}]
  /\ pc \in [Node \cup Request ->
               {"idle", "claimed", "appended", "count", "counted", "fail", "locked", "waiting", "done"}]
  /\ timer \in [Node -> Timer \cup {None}]
  /\ seen \in [Request -> SUBSET Timer]
  /\ faults \in 0 .. MaxFaults

\* SCH-02: one TIMER_FIRED event for a fired timer, none for any other, however
\* many nodes poll and whatever one of them still has to count or dead-letter.
FiredOnce == \A t \in Timer : events[t] = IF rows[t] = "fired" THEN 1 ELSE 0

\* SCH-03: a closed instance has no pending timer, nor one that a fire in flight
\* has armed again.
ClosedHasNoPending == status # "ACTIVE" => Pending = {}

\* A recurrence goes on: behind a pending or settled row all rows have fired, and
\* after a fired one the series has its next row unless it was the last.
SeriesContinues ==
  \A t \in Timer :
    /\ t[2] > 1 /\ rows[t] # "none" => rows[<<t[1], t[2] - 1>>] = "fired"
    /\ t[2] < Total /\ rows[t] = "fired" => rows[<<t[1], t[2] + 1>>] # "none"

\* A timer is given up only after Limit failed fires of its own were counted.
RetriedFirst ==
  \A t \in Timer : (t \in dlq => errors[t] >= Limit) /\ (rows[t] = "failed" => errors[t] > Limit)

\* A timer that has settled never changes again.
SettledForGood ==
  [][\A t \in Timer : rows[t] \in {"fired", "cancelled", "failed"} => rows'[t] = rows[t]]_vars

\* Every timer is fired, cancelled or dead-lettered in the end, also one that
\* cannot fire, one behind it in the order, and one that met a deadlock.
EveryTimerSettles == []<>(Pending = {})

=============================================================================
