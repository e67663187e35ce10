--------------------------- MODULE SchedulerProofs ---------------------------
(***************************************************************************)
(* The timers of an instance, for any number of nodes, requests, series    *)
(* and repetitions.  Two locks carry the argument: a timer that a node has *)
(* claimed stays pending until the node lets go of it, and whoever writes  *)
(* pending rows holds the projection, so that what a request has found is  *)
(* still everything there is when it closes the instance.                  *)
(***************************************************************************)
EXTENDS Scheduler, TLAPS

Firing == {"claimed", "appended"}

\* A claimed timer is locked by its node and pending; a node that counts or
\* dead-letters an error has a timer.
NodesHold ==
  \A n \in Node :
    /\ pc[n] \in Firing \cup {"count", "counted", "fail"} => timer[n] \in Timer
    /\ pc[n] \in Firing => held[timer[n]] = n /\ rows[timer[n]] = "pending"

\* Only a node that fires a timer holds it.
HeldToFire == \A t \in Timer : held[t] # None => pc[held[t]] \in Firing /\ timer[held[t]] = t

\* The projection is locked by the node whose event is appended ...
AppendedLocks == \A n \in Node : pc[n] = "appended" => lock = n

\* ... or by the request in its transaction, which has seen the instance ACTIVE
\* and, once it has looked for them, all of its pending timers.
RequestLocks ==
  \A r \in Request :
    /\ pc[r] \in {"locked", "waiting"} => lock = r /\ status = "ACTIVE"
    /\ pc[r] = "waiting" => Pending \subseteq seen[r]

\* A node that is to dead-letter a timer has read a count that is high enough.
CountRead == \A n \in Node : pc[n] = "fail" => errors[timer[n]] >= Limit

IInv ==
  /\ TypeOK
  /\ NodesHold
  /\ HeldToFire
  /\ AppendedLocks
  /\ RequestLocks
  /\ CountRead
  /\ ClosedHasNoPending
  /\ FiredOnce
  /\ SeriesContinues
  /\ RetriedFirst

\* What the rows say of each other and of the status.
RowsAgree == ClosedHasNoPending /\ FiredOnce /\ SeriesContinues /\ RetriedFirst

LEMMA Initially == Init => IInv
<1>. SUFFICES ASSUME Init PROVE IInv
  OBVIOUS
<1>1. PICK started \in SUBSET Series :
        rows = [t \in Timer |-> IF t[1] \in started /\ t[2] = 1 THEN "pending" ELSE "none"]
  BY DEF Init
<1>2. TypeOK
  BY <1>1, SchedulerAssumption DEF Init, TypeOK
<1>3. \A t \in Timer : rows[t] # "fired" /\ rows[t] # "failed" /\ (t[2] > 1 => rows[t] = "none")
  BY <1>1 DEF Timer
<1>4. ClosedHasNoPending /\ FiredOnce /\ RetriedFirst
  BY <1>3 DEF Init, ClosedHasNoPending, FiredOnce, RetriedFirst
<1>5. SeriesContinues
  BY <1>3 DEF SeriesContinues
<1>6. NodesHold /\ HeldToFire /\ AppendedLocks /\ RequestLocks /\ CountRead
  BY DEF Init, NodesHold, HeldToFire, AppendedLocks, RequestLocks, CountRead, Firing
<1>. QED BY <1>2, <1>4, <1>5, <1>6 DEF IInv

\* Statements about the tables alone survive a step that leaves the tables alone.
LEMMA TablesStand ==
  ASSUME RowsAgree, UNCHANGED <<status, rows, events, errors, dlq>>
  PROVE  RowsAgree'
BY DEF RowsAgree, ClosedHasNoPending, FiredOnce, SeriesContinues, RetriedFirst, Pending

-----------------------------------------------------------------------------
(* Steps that write no row.                                                *)

LEMMA ElapseStep ==
  ASSUME IInv, NEW t \in Timer, Elapse(t)
  PROVE  IInv'
<1>1. TypeOK'
  BY DEF IInv, TypeOK, Elapse
<1>2. RowsAgree'
  BY TablesStand DEF IInv, RowsAgree, Elapse
<1>3. NodesHold' /\ HeldToFire' /\ AppendedLocks' /\ RequestLocks' /\ CountRead'
  BY DEF IInv, Elapse, NodesHold, HeldToFire, AppendedLocks, RequestLocks, CountRead, Pending
<1>. QED BY <1>1, <1>2, <1>3 DEF IInv, RowsAgree

LEMMA ClaimStep ==
  ASSUME IInv, NEW n \in Node, Claim(n)
  PROVE  IInv'
<1>1. PICK i \in DOMAIN due :
        /\ Claimable(due[i])
        /\ held' = [held EXCEPT ![due[i]] = n]
        /\ timer' = [timer EXCEPT ![n] = due[i]]
  BY DEF Claim
<1>2. due[i] \in Timer /\ rows[due[i]] = "pending" /\ held[due[i]] = None
  BY <1>1 DEF IInv, TypeOK, Claimable
<1>3. pc[n] = "idle" /\ pc' = [pc EXCEPT ![n] = "claimed"] /\ n # None
      /\ UNCHANGED <<status, rows, due, events, errors, dlq, lock, seen, faults>>
  BY SchedulerAssumption DEF Claim, Goto, tables
<1>4. TypeOK'
  <2>1. pc' \in [Node \cup Request ->
          {"idle", "claimed", "appended", "count", "counted", "fail", "locked", "waiting", "done"}]
    BY <1>3 DEF IInv, TypeOK
  <2>2. held' \in [Timer -> Node \cup {None}] /\ timer' \in [Node -> Timer \cup {None}]
    BY <1>1, <1>2 DEF IInv, TypeOK
  <2>. QED BY <1>3, <2>1, <2>2 DEF IInv, TypeOK
<1>5. RowsAgree'
  BY <1>3, TablesStand DEF IInv, RowsAgree
<1>6. \A m \in Node : m # n => pc'[m] = pc[m] /\ timer'[m] = timer[m]
  BY <1>1, <1>3 DEF IInv, TypeOK
<1>7. pc'[n] = "claimed" /\ timer'[n] = due[i] /\ held'[due[i]] = n
  BY <1>1, <1>2, <1>3 DEF IInv, TypeOK
<1>8. \A u \in Timer : u # due[i] => held'[u] = held[u]
  BY <1>1, <1>2 DEF IInv, TypeOK
<1>9. NodesHold'
  BY <1>2, <1>3, <1>6, <1>7, <1>8, SchedulerAssumption DEF IInv, NodesHold, Firing, TypeOK
<1>10. HeldToFire'
  <2>. SUFFICES ASSUME NEW t \in Timer, held'[t] # None
                PROVE  pc'[held'[t]] \in Firing /\ timer'[held'[t]] = t
    BY DEF HeldToFire
  <2>1. CASE t = due[i]
    BY <1>7, <2>1 DEF Firing
  <2>2. CASE t # due[i]
    <3>1. held'[t] = held[t] /\ held[t] \in Node /\ pc[held[t]] \in Firing /\ timer[held[t]] = t
      BY <1>8, <2>2 DEF IInv, HeldToFire, TypeOK
    <3>2. held[t] # n
      BY <1>3, <3>1 DEF Firing
    <3>. QED BY <1>6, <3>1, <3>2
  <2>. QED BY <2>1, <2>2
<1>11. AppendedLocks' /\ CountRead'
  BY <1>3, <1>6, <1>7 DEF IInv, AppendedLocks, CountRead
<1>12. RequestLocks'
  BY <1>3, SchedulerAssumption DEF IInv, RequestLocks, Request, Pending, TypeOK
<1>. QED BY <1>4, <1>5, <1>9, <1>10, <1>11, <1>12 DEF IInv, RowsAgree

LEMMA AppendEventStep ==
  ASSUME IInv, NEW n \in Node, AppendEvent(n)
  PROVE  IInv'
<1>1. pc[n] = "claimed" /\ pc' = [pc EXCEPT ![n] = "appended"] /\ lock = None /\ lock' = n /\ n # None
      /\ UNCHANGED <<status, rows, due, events, errors, dlq, held, timer, seen, faults>>
  BY SchedulerAssumption DEF AppendEvent, Goto, tables
<1>2. TypeOK'
  BY <1>1 DEF IInv, TypeOK
<1>3. RowsAgree'
  BY <1>1, TablesStand DEF IInv, RowsAgree
<1>4. NodesHold' /\ HeldToFire' /\ CountRead'
  BY <1>1 DEF IInv, NodesHold, HeldToFire, CountRead, Firing, TypeOK
<1>5. AppendedLocks'
  BY <1>1, SchedulerAssumption DEF IInv, AppendedLocks, TypeOK
<1>6. RequestLocks'
  BY <1>1, SchedulerAssumption DEF IInv, RequestLocks, Request, TypeOK
<1>. QED BY <1>2, <1>3, <1>4, <1>5, <1>6 DEF IInv, RowsAgree

\* A node lets go of its timer: the fire is over or rolled back.
LEMMA ReleaseTypes ==
  ASSUME TypeOK, NEW n \in Node, Release(n)
  PROVE  lock' \in Node \cup Request \cup {None} /\ held' \in [Timer -> Node \cup {None}]
BY DEF TypeOK, Release

LEMMA LetGoStep ==
  ASSUME IInv, NEW n \in Node, NEW l \in {"idle", "count"}, Goto(n, l), Release(n),
         UNCHANGED <<tables, seen>>, faults' \in 0 .. MaxFaults,
         timer' = timer \/ timer' = [timer EXCEPT ![n] = None],
         l = "count" => timer' = timer /\ pc[n] \in Firing
  PROVE  IInv'
<1>1. UNCHANGED <<status, rows, due, events, errors, dlq, seen>> /\ pc' = [pc EXCEPT ![n] = l]
  BY DEF tables, Goto
<1>2. TypeOK'
  <2>1. pc' \in [Node \cup Request ->
          {"idle", "claimed", "appended", "count", "counted", "fail", "locked", "waiting", "done"}]
    BY <1>1 DEF IInv, TypeOK
  <2>2. timer' \in [Node -> Timer \cup {None}]
    BY DEF IInv, TypeOK
  <2>. QED BY <1>1, <2>1, <2>2, ReleaseTypes DEF IInv, TypeOK
<1>3. RowsAgree'
  BY <1>1, TablesStand DEF IInv, RowsAgree
<1>4. pc'[n] = l /\ \A m \in Node : m # n => pc'[m] = pc[m] /\ timer'[m] = timer[m]
  BY <1>1 DEF IInv, TypeOK
<1>5. \A t \in Timer : held'[t] = IF held[t] = n THEN None ELSE held[t]
  BY DEF Release
<1>6. n # None /\ lock' = IF lock = n THEN None ELSE lock
  BY SchedulerAssumption DEF Release
<1>7. NodesHold'
  BY <1>1, <1>4, <1>5 DEF IInv, NodesHold, Firing, TypeOK
<1>8. HeldToFire'
  BY <1>4, <1>5, <1>6 DEF IInv, HeldToFire, TypeOK
<1>9. AppendedLocks' /\ CountRead'
  BY <1>1, <1>4, <1>6 DEF IInv, AppendedLocks, CountRead
<1>10. RequestLocks'
  BY <1>1, <1>6, SchedulerAssumption DEF IInv, RequestLocks, Request, Pending, TypeOK
<1>. QED BY <1>2, <1>3, <1>7, <1>8, <1>9, <1>10 DEF IInv, RowsAgree

LEMMA FailureSteps ==
  ASSUME IInv, NEW n \in Node,
         FireFails(n) \/ StatementFails(n) \/ NodeFails(n) \/ AbortNode(n)
  PROVE  IInv'
<1>1. MaxFaults \in Nat /\ faults \in 0 .. MaxFaults
  BY SchedulerAssumption DEF IInv, TypeOK
<1>2. CASE NodeFails(n)
  <2>1. faults' \in 0 .. MaxFaults
    BY <1>1, <1>2 DEF NodeFails, Fault
  <2>. QED BY <1>2, <2>1, LetGoStep DEF NodeFails
<1>3. CASE FireFails(n) \/ StatementFails(n) \/ AbortNode(n)
  <2>1. faults' \in 0 .. MaxFaults
    BY <1>1, <1>3 DEF FireFails, StatementFails, AbortNode, Fault
  <2>2. pc[n] \in Firing /\ GiveUp(n)
    BY <1>3 DEF FireFails, StatementFails, AbortNode, Circular, Firing
  <2>. QED BY <2>1, <2>2, LetGoStep DEF GiveUp
<1>. QED BY <1>2, <1>3

\* Reading the count again moves the node only.
LEMMA ReadCountStep ==
  ASSUME IInv, NEW n \in Node, ReadCount(n)
  PROVE  IInv'
<1>1. PICK l \in {"idle", "fail"} :
        /\ pc' = [pc EXCEPT ![n] = l]
        /\ l = "fail" => timer' = timer /\ errors[timer[n]] >= Limit
        /\ timer' = timer \/ timer' = [timer EXCEPT ![n] = None]
  BY DEF ReadCount, Goto, Exhausted
<1>2. pc[n] = "counted" /\ UNCHANGED <<status, rows, due, events, errors, dlq, lock, held, seen, faults>>
  BY DEF ReadCount, tables
<1>3. TypeOK'
  <2>1. pc' \in [Node \cup Request ->
          {"idle", "claimed", "appended", "count", "counted", "fail", "locked", "waiting", "done"}]
    BY <1>1 DEF IInv, TypeOK
  <2>2. timer' \in [Node -> Timer \cup {None}]
    BY <1>1 DEF IInv, TypeOK
  <2>. QED BY <1>2, <2>1, <2>2 DEF IInv, TypeOK
<1>4. RowsAgree'
  BY <1>2, TablesStand DEF IInv, RowsAgree
<1>5. pc'[n] = l /\ \A m \in Node : m # n => pc'[m] = pc[m] /\ timer'[m] = timer[m]
  BY <1>1 DEF IInv, TypeOK
<1>6. NodesHold' /\ CountRead'
  BY <1>1, <1>2, <1>5 DEF IInv, NodesHold, CountRead, Firing
<1>7. HeldToFire'
  <2>. SUFFICES ASSUME NEW t \in Timer, held[t] # None
                PROVE  pc'[held[t]] \in Firing /\ timer'[held[t]] = t
    BY <1>2 DEF HeldToFire
  <2>1. held[t] \in Node /\ pc[held[t]] \in Firing /\ timer[held[t]] = t
    BY DEF IInv, HeldToFire, TypeOK
  <2>2. held[t] # n
    BY <1>2, <2>1 DEF Firing
  <2>. QED BY <1>5, <2>1, <2>2
<1>8. AppendedLocks'
  BY <1>2, <1>5 DEF IInv, AppendedLocks
<1>9. RequestLocks'
  BY <1>1, <1>2, SchedulerAssumption DEF IInv, RequestLocks, Request, Pending, TypeOK
<1>. QED BY <1>3, <1>4, <1>6, <1>7, <1>8, <1>9 DEF IInv, RowsAgree

\* The count of a timer only grows, up to one above the limit.
LEMMA CountStep ==
  ASSUME IInv, NEW n \in Node, Count(n)
  PROVE  IInv'
<1>1. pc[n] = "count" /\ timer[n] \in Timer /\ pc' = [pc EXCEPT ![n] = "counted"]
      /\ UNCHANGED <<status, rows, due, events, dlq, lock, held, timer, seen, faults>>
  BY DEF Count, Goto, IInv, NodesHold
<1>2. errors' = [errors EXCEPT ![timer[n]] =
                   IF rows[timer[n]] = "pending" /\ @ <= Limit THEN @ + 1 ELSE @]
  BY DEF Count
<1>3. errors' \in [Timer -> 0 .. Limit + 1] /\ \A t \in Timer : errors'[t] >= errors[t]
  BY <1>1, <1>2, SchedulerAssumption DEF IInv, TypeOK
<1>4. TypeOK'
  BY <1>1, <1>3 DEF IInv, TypeOK
<1>5. RetriedFirst'
  BY <1>1, <1>3, SchedulerAssumption DEF IInv, RetriedFirst, TypeOK
<1>6. ClosedHasNoPending' /\ FiredOnce' /\ SeriesContinues'
  BY <1>1 DEF IInv, ClosedHasNoPending, FiredOnce, SeriesContinues, Pending
<1>7. pc'[n] = "counted" /\ \A m \in Node : m # n => pc'[m] = pc[m]
  BY <1>1 DEF IInv, TypeOK
<1>8. NodesHold'
  BY <1>1, <1>7 DEF IInv, NodesHold, Firing
<1>9. HeldToFire'
  BY <1>1, <1>7 DEF IInv, HeldToFire, Firing, TypeOK
<1>10. AppendedLocks'
  BY <1>1, <1>7 DEF IInv, AppendedLocks
<1>11. CountRead'
  BY <1>1, <1>3, <1>7, SchedulerAssumption DEF IInv, CountRead, NodesHold, TypeOK
<1>12. RequestLocks'
  BY <1>1, SchedulerAssumption DEF IInv, RequestLocks, Request, Pending, TypeOK
<1>. QED BY <1>4, <1>5, <1>6, <1>8, <1>9, <1>10, <1>11, <1>12 DEF IInv

\* A request locks the projection, looks for the timers, or is rolled back.
LEMMA RequestStep ==
  ASSUME IInv, NEW r \in Request,
         LockInstance(r) \/ FindTimers(r) \/ RequestFails(r) \/ AbortRequest(r)
  PROVE  IInv'
<1>1. UNCHANGED <<status, rows, due, events, errors, dlq, held, timer>>
  BY DEF LockInstance, FindTimers, RequestFails, AbortRequest, Rollback, tables
<1>2. MaxFaults \in Nat /\ r \notin Node /\ r # None
  BY SchedulerAssumption DEF Request
<1>3. PICK l \in {"locked", "waiting", "done"} : pc' = [pc EXCEPT ![r] = l]
  BY DEF LockInstance, FindTimers, RequestFails, AbortRequest, Rollback, Goto
<1>4. \A n \in Node : pc'[n] = pc[n]
  BY <1>2, <1>3 DEF IInv, TypeOK
<1>5. pc'[r] = l /\ \A q \in Request : q # r => pc'[q] = pc[q]
  BY <1>3 DEF IInv, TypeOK
<1>6. CASE LockInstance(r) \/ FindTimers(r)
  <2>1. TypeOK'
    <3>1. pc' \in [Node \cup Request ->
            {"idle", "claimed", "appended", "count", "counted", "fail", "locked", "waiting", "done"}]
      BY <1>3 DEF IInv, TypeOK
    <3>2. lock' \in Node \cup Request \cup {None} /\ faults' = faults
      BY <1>6 DEF LockInstance, FindTimers, IInv, TypeOK
    <3>3. seen' \in [Request -> SUBSET Timer]
      BY <1>6 DEF LockInstance, FindTimers, IInv, TypeOK, Pending
    <3>. QED BY <1>1, <3>1, <3>2, <3>3 DEF IInv, TypeOK
  <2>2. AppendedLocks'
    BY <1>2, <1>4, <1>6, SchedulerAssumption DEF IInv, AppendedLocks, LockInstance, FindTimers
  <2>3. RequestLocks'
    <3>1. CASE LockInstance(r)
      BY <1>1, <1>2, <1>5, <3>1, SchedulerAssumption
         DEF LockInstance, IInv, RequestLocks, Pending, Goto, TypeOK, Request
    <3>2. CASE FindTimers(r)
      BY <1>1, <1>5, <3>2 DEF FindTimers, IInv, RequestLocks, Pending, TypeOK
    <3>. QED BY <1>6, <3>1, <3>2
  <2>. QED BY <1>1, <1>4, <2>1, <2>2, <2>3, TablesStand
           DEF IInv, RowsAgree, NodesHold, HeldToFire, CountRead, Firing, TypeOK
<1>7. CASE RequestFails(r) \/ AbortRequest(r)
  <2>1. Rollback(r) /\ lock = r /\ faults' \in 0 .. MaxFaults
    BY <1>2, <1>7 DEF RequestFails, AbortRequest, Circular, Fault, IInv, RequestLocks, TypeOK
  <2>2. TypeOK'
    BY <1>1, <1>3, <2>1 DEF Rollback, IInv, TypeOK
  <2>3. AppendedLocks'
    BY <1>2, <1>4, <2>1 DEF IInv, AppendedLocks
  <2>4. RequestLocks'
    BY <1>1, <1>5, <2>1 DEF IInv, RequestLocks, Rollback, Goto, Pending, TypeOK
  <2>. QED BY <1>1, <1>4, <2>2, <2>3, <2>4, TablesStand
           DEF IInv, RowsAgree, NodesHold, HeldToFire, CountRead, Firing, TypeOK
<1>. QED BY <1>6, <1>7

-----------------------------------------------------------------------------
(* The four steps that write rows.                                         *)

LEMMA TimerParts ==
  ASSUME NEW t \in Timer
  PROVE  /\ t[1] \in Series /\ t[2] \in 1 .. Total /\ t = <<t[1], t[2]>>
         /\ t[2] > 1 => <<t[1], t[2] - 1>> \in Timer
         /\ t[2] < Total => <<t[1], t[2] + 1>> \in Timer
BY SchedulerAssumption DEF Timer

\* What a fire arms again is the next row of the series, which did not exist.
LEMMA RearmedIsNew ==
  ASSUME IInv, NEW t \in Timer, NEW u \in Rearmed(t), rows[t] = "pending"
  PROVE  u \in Timer /\ u = <<t[1], t[2] + 1>> /\ u # t /\ rows[u] = "none"
<1>1. u \in Timer /\ u = <<t[1], t[2] + 1>>
  BY DEF Rearmed
<1>2. t[1] \in Series /\ t[2] \in 1 .. Total /\ t = <<t[1], t[2]>>
  BY TimerParts
<1>3. u[1] = t[1] /\ u[2] = t[2] + 1
  BY <1>1
<1>4. u[2] > 1 /\ u # t /\ <<u[1], u[2] - 1>> = t
  BY <1>2, <1>3, SchedulerAssumption
<1>5. rows[u] # "none" => rows[<<u[1], u[2] - 1>>] = "fired"
  BY <1>1, <1>4 DEF IInv, SeriesContinues
<1>. QED BY <1>1, <1>4, <1>5

LEMMA FireStep ==
  ASSUME IInv, NEW n \in Node, Fire(n)
  PROVE  IInv' /\ \A t \in Timer : rows[t] \in {"fired", "cancelled", "failed"} => rows'[t] = rows[t]
<1>. DEFINE t == timer[n]
<1>1. /\ pc[n] = "appended" /\ t \in Timer /\ held[t] = n /\ rows[t] = "pending" /\ lock = n
      /\ n # None /\ n \notin Request
  BY SchedulerAssumption DEF Fire, IInv, NodesHold, AppendedLocks, Firing, Request
<1>2. events[t] = 0 /\ status = "ACTIVE"
  BY <1>1 DEF IInv, FiredOnce, ClosedHasNoPending, Pending
<1>3. rows' = Fired(t) /\ events' = [events EXCEPT ![t] = @ + 1] /\ pc' = [pc EXCEPT ![n] = "idle"]
      /\ timer' = [timer EXCEPT ![n] = None] /\ lock' = None
      /\ UNCHANGED <<status, due, errors, dlq, seen, faults>>
  BY <1>1 DEF Fire, Goto, Release
<1>4. \A u \in Timer : held'[u] = IF held[u] = n THEN None ELSE held[u]
  BY DEF Fire, Release
<1>5. rows'[t] = "fired" /\ \A u \in Rearmed(t) : u \in Timer /\ rows[u] = "none" /\ rows'[u] = "pending"
  BY <1>1, <1>3, RearmedIsNew DEF Fired
<1>6. \A u \in Timer : u # t /\ u \notin Rearmed(t) => rows'[u] = rows[u]
  BY <1>1, <1>3 DEF Fired
<1>7. TypeOK'
  <2>1. rows' \in [Timer -> {"none", "pending", "fired", "cancelled", "failed"}]
    BY <1>3 DEF Fired, IInv, TypeOK
  <2>2. events' \in [Timer -> Nat]
    BY <1>1, <1>3 DEF IInv, TypeOK
  <2>3. held' \in [Timer -> Node \cup {None}]
    BY ReleaseTypes DEF Fire, IInv
  <2>4. timer' \in [Node -> Timer \cup {None}]
    BY <1>3 DEF IInv, TypeOK
  <2>5. pc' \in [Node \cup Request ->
          {"idle", "claimed", "appended", "count", "counted", "fail", "locked", "waiting", "done"}]
    BY <1>3 DEF IInv, TypeOK
  <2>. QED BY <1>3, <2>1, <2>2, <2>3, <2>4, <2>5 DEF IInv, TypeOK
<1>8. \A m \in Node : m # n => pc'[m] = pc[m] /\ timer'[m] = timer[m]
  BY <1>3 DEF IInv, TypeOK
<1>9. pc'[n] = "idle"
  BY <1>3 DEF IInv, TypeOK
<1>10. NodesHold'
  <2>. SUFFICES ASSUME NEW m \in Node, m # n, pc[m] \in Firing \cup {"count", "counted", "fail"}
                PROVE  timer[m] \in Timer /\ (pc[m] \in Firing => held'[timer[m]] = m /\ rows'[timer[m]] = "pending")
    BY <1>8, <1>9 DEF NodesHold, Firing
  <2>1. timer[m] \in Timer /\ (pc[m] \in Firing => held[timer[m]] = m /\ rows[timer[m]] = "pending")
    BY DEF IInv, NodesHold
  <2>2. pc[m] \in Firing => timer[m] # t /\ timer[m] \notin Rearmed(t)
    BY <1>1, <1>5, <2>1
  <2>. QED BY <1>4, <1>6, <2>1, <2>2
<1>11. HeldToFire'
  BY <1>1, <1>4, <1>8 DEF IInv, HeldToFire, TypeOK
<1>12. AppendedLocks'
  BY <1>1, <1>8, <1>9 DEF IInv, AppendedLocks
<1>13. RequestLocks'
  <2>1. \A r \in Request : pc'[r] = pc[r] /\ r # n
    BY <1>1, <1>3 DEF IInv, TypeOK
  <2>2. \A r \in Request : pc[r] \notin {"locked", "waiting"}
    BY <1>1, <2>1 DEF IInv, RequestLocks
  <2>. QED BY <2>1, <2>2 DEF RequestLocks
<1>14. CountRead' /\ RetriedFirst' /\ ClosedHasNoPending'
  <2>1. CountRead'
    BY <1>3, <1>8, <1>9 DEF IInv, CountRead
  <2>2. RetriedFirst'
    BY <1>3, <1>5, <1>6 DEF IInv, RetriedFirst
  <2>3. ClosedHasNoPending'
    BY <1>2, <1>3 DEF ClosedHasNoPending
  <2>. QED BY <2>1, <2>2, <2>3
<1>15. FiredOnce'
  <2>1. events'[t] = 1 /\ \A u \in Timer : u # t => events'[u] = events[u]
    BY <1>1, <1>2, <1>3 DEF IInv, TypeOK
  <2>2. \A u \in Rearmed(t) : u # t
    BY <1>1, <1>5
  <2>. QED BY <1>5, <1>6, <2>1, <2>2 DEF IInv, FiredOnce
<1>16. SeriesContinues'
  <2>. SUFFICES ASSUME NEW u \in Timer
                PROVE  /\ u[2] > 1 /\ rows'[u] # "none" => rows'[<<u[1], u[2] - 1>>] = "fired"
                       /\ u[2] < Total /\ rows'[u] = "fired" => rows'[<<u[1], u[2] + 1>>] # "none"
    BY DEF SeriesContinues
  <2>1. ASSUME u[2] > 1, rows'[u] # "none"
        PROVE  rows'[<<u[1], u[2] - 1>>] = "fired"
    <3>1. <<u[1], u[2] - 1>> \in Timer
      BY <2>1, TimerParts
    <3>2. CASE u \in Rearmed(t)
      <4>1. u = <<t[1], t[2] + 1>> /\ t[2] \in 1 .. Total /\ t = <<t[1], t[2]>>
        BY <1>1, <3>2, TimerParts DEF Rearmed
      <4>2. u[1] = t[1] /\ u[2] - 1 = t[2]
        BY <4>1, SchedulerAssumption
      <4>. QED BY <1>5, <4>1, <4>2
    <3>3. CASE u \notin Rearmed(t)
      <4>1. rows[u] # "none"
        BY <1>1, <1>6, <2>1, <3>3
      <4>2. rows[<<u[1], u[2] - 1>>] = "fired"
        BY <2>1, <4>1 DEF IInv, SeriesContinues
      <4>. QED BY <1>1, <1>5, <1>6, <3>1, <4>2
    <3>. QED BY <3>2, <3>3
  <2>2. ASSUME u[2] < Total, rows'[u] = "fired"
        PROVE  rows'[<<u[1], u[2] + 1>>] # "none"
    <3>1. <<u[1], u[2] + 1>> \in Timer
      BY <2>2, TimerParts
    <3>2. CASE u = t
      BY <1>5, <3>1, <3>2 DEF Rearmed
    <3>3. CASE u # t
      <4>1. rows[u] = "fired"
        BY <1>5, <1>6, <2>2, <3>3
      <4>2. rows[<<u[1], u[2] + 1>>] # "none"
        BY <2>2, <4>1 DEF IInv, SeriesContinues
      <4>. QED BY <1>5, <1>6, <3>1, <4>2
    <3>. QED BY <3>2, <3>3
  <2>. QED BY <2>1, <2>2
<1>17. \A u \in Timer : rows[u] \in {"fired", "cancelled", "failed"} => rows'[u] = rows[u]
  BY <1>1, <1>5, <1>6
<1>. QED BY <1>7, <1>10, <1>11, <1>12, <1>13, <1>14, <1>15, <1>16, <1>17 DEF IInv

\* A row that is settled without firing, or is the first of its series, changes
\* nothing for the others.
LEMMA SettleStep ==
  ASSUME IInv, UNCHANGED events,
         \A u \in Timer :
           \/ rows'[u] = rows[u]
           \/ rows[u] = "pending" /\ rows'[u] \in {"failed", "cancelled"}
           \/ u[2] = 1 /\ rows[u] = "none" /\ rows'[u] = "pending"
  PROVE  /\ FiredOnce' /\ SeriesContinues'
         /\ \A u \in Timer : rows[u] \in {"fired", "cancelled", "failed"} => rows'[u] = rows[u]
<1>1. FiredOnce'
  BY DEF IInv, FiredOnce
<1>2. SeriesContinues'
  <2>. SUFFICES ASSUME NEW u \in Timer
                PROVE  /\ u[2] > 1 /\ rows'[u] # "none" => rows'[<<u[1], u[2] - 1>>] = "fired"
                       /\ u[2] < Total /\ rows'[u] = "fired" => rows'[<<u[1], u[2] + 1>>] # "none"
    BY DEF SeriesContinues
  <2>1. ASSUME u[2] > 1, rows'[u] # "none"
        PROVE  rows'[<<u[1], u[2] - 1>>] = "fired"
    <3>1. <<u[1], u[2] - 1>> \in Timer /\ u[2] \in 1 .. Total
      BY <2>1, TimerParts
    <3>2. u[2] # 1
      BY <2>1, <3>1, SchedulerAssumption
    <3>3. rows[u] # "none"
      BY <2>1, <3>2
    <3>4. rows[<<u[1], u[2] - 1>>] = "fired"
      BY <2>1, <3>3 DEF IInv, SeriesContinues
    <3>. QED BY <3>1, <3>4
  <2>2. ASSUME u[2] < Total, rows'[u] = "fired"
        PROVE  rows'[<<u[1], u[2] + 1>>] # "none"
    <3>1. <<u[1], u[2] + 1>> \in Timer /\ rows[u] = "fired"
      BY <2>2, TimerParts
    <3>2. rows[<<u[1], u[2] + 1>>] # "none"
      BY <2>2, <3>1 DEF IInv, SeriesContinues
    <3>. QED BY <3>1, <3>2
  <2>. QED BY <2>1, <2>2
<1>. QED BY <1>1, <1>2

LEMMA MarkFailedStep ==
  ASSUME IInv, NEW n \in Node, MarkFailed(n)
  PROVE  IInv' /\ \A u \in Timer : rows[u] \in {"fired", "cancelled", "failed"} => rows'[u] = rows[u]
<1>. DEFINE t == timer[n]
<1>1. /\ pc[n] = "fail" /\ t \in Timer /\ held[t] = None /\ errors[t] >= Limit
      /\ n # None /\ n \notin Request
  BY SchedulerAssumption DEF MarkFailed, IInv, NodesHold, CountRead, Firing, Request
<1>2. rows' = [rows EXCEPT ![t] = IF @ = "pending" THEN "failed" ELSE @]
      /\ errors' = [errors EXCEPT ![t] = IF rows[t] = "pending" /\ @ <= Limit THEN @ + 1 ELSE @]
      /\ dlq' = dlq \cup {t} /\ pc' = [pc EXCEPT ![n] = "idle"] /\ timer' = [timer EXCEPT ![n] = None]
      /\ UNCHANGED <<status, due, events, lock, held, seen, faults>>
  BY DEF MarkFailed, Failed, Goto
<1>3. rows'[t] = (IF rows[t] = "pending" THEN "failed" ELSE rows[t])
      /\ \A u \in Timer : u # t => rows'[u] = rows[u]
  BY <1>1, <1>2 DEF IInv, TypeOK
<1>4. errors' \in [Timer -> 0 .. Limit + 1] /\ (\A u \in Timer : errors'[u] >= errors[u])
      /\ (rows[t] = "pending" => errors'[t] > Limit)
  BY <1>1, <1>2, SchedulerAssumption DEF IInv, TypeOK
<1>5. TypeOK'
  <2>1. rows' \in [Timer -> {"none", "pending", "fired", "cancelled", "failed"}] /\ dlq' \subseteq Timer
    BY <1>1, <1>2 DEF IInv, TypeOK
  <2>2. timer' \in [Node -> Timer \cup {None}]
    BY <1>2 DEF IInv, TypeOK
  <2>3. pc' \in [Node \cup Request ->
          {"idle", "claimed", "appended", "count", "counted", "fail", "locked", "waiting", "done"}]
    BY <1>2 DEF IInv, TypeOK
  <2>. QED BY <1>2, <1>4, <2>1, <2>2, <2>3 DEF IInv, TypeOK
<1>6. FiredOnce' /\ SeriesContinues'
      /\ \A u \in Timer : rows[u] \in {"fired", "cancelled", "failed"} => rows'[u] = rows[u]
  BY <1>2, <1>3, SettleStep
<1>7. ClosedHasNoPending'
  BY <1>2, <1>3 DEF IInv, ClosedHasNoPending, Pending
<1>8. RetriedFirst'
  <2>. SUFFICES ASSUME NEW u \in Timer
                PROVE  (u \in dlq' => errors'[u] >= Limit) /\ (rows'[u] = "failed" => errors'[u] > Limit)
    BY DEF RetriedFirst
  <2>1. errors[u] \in Nat /\ errors'[u] \in Nat /\ errors'[u] >= errors[u] /\ Limit \in Nat
    BY <1>4, SchedulerAssumption DEF IInv, TypeOK
  <2>2. u \in dlq' => errors'[u] >= Limit
    BY <1>1, <1>2, <2>1 DEF IInv, RetriedFirst
  <2>3. rows'[u] = "failed" => errors'[u] > Limit
    BY <1>3, <1>4, <2>1 DEF IInv, RetriedFirst
  <2>. QED BY <2>2, <2>3
<1>9. pc'[n] = "idle" /\ \A m \in Node : m # n => pc'[m] = pc[m] /\ timer'[m] = timer[m]
  BY <1>2 DEF IInv, TypeOK
<1>10. NodesHold'
  <2>1. \A m \in Node : pc[m] \in Firing => timer[m] # t /\ m # None
    BY <1>1, SchedulerAssumption DEF IInv, NodesHold
  <2>. QED BY <1>2, <1>3, <1>9, <2>1 DEF IInv, NodesHold, Firing
<1>11. HeldToFire'
  <2>. SUFFICES ASSUME NEW u \in Timer, held[u] # None
                PROVE  pc'[held[u]] \in Firing /\ timer'[held[u]] = u
    BY <1>2 DEF HeldToFire
  <2>1. held[u] \in Node /\ pc[held[u]] \in Firing /\ timer[held[u]] = u
    BY DEF IInv, HeldToFire, TypeOK
  <2>2. held[u] # n
    BY <1>1, <2>1 DEF Firing
  <2>. QED BY <1>9, <2>1, <2>2
<1>12. AppendedLocks'
  BY <1>2, <1>9 DEF IInv, AppendedLocks
<1>13. CountRead'
  <2>1. \A m \in Node : pc'[m] = "fail" => pc[m] = "fail" /\ timer'[m] = timer[m] /\ timer[m] \in Timer
    BY <1>9 DEF IInv, NodesHold
  <2>2. \A u \in Timer : errors[u] \in Nat /\ errors'[u] \in Nat /\ Limit \in Nat
    BY <1>4, SchedulerAssumption DEF IInv, TypeOK
  <2>. QED BY <1>4, <2>1, <2>2 DEF IInv, CountRead
<1>14. RequestLocks'
  <2>1. \A r \in Request : pc'[r] = pc[r]
    BY <1>1, <1>2 DEF IInv, TypeOK
  <2>2. Pending' \subseteq Pending
    BY <1>3 DEF Pending
  <2>. QED BY <1>2, <2>1, <2>2 DEF IInv, RequestLocks
<1>. QED BY <1>5, <1>6, <1>7, <1>8, <1>10, <1>11, <1>12, <1>13, <1>14 DEF IInv

\* A request that has the projection leaves it: no other is in its transaction,
\* and no node has an event appended.
LEMMA LeaveProjection ==
  ASSUME IInv, NEW r \in Request, lock = r, pc' = [pc EXCEPT ![r] = "done"], lock' = None
  PROVE  /\ \A n \in Node : pc'[n] = pc[n] /\ pc[n] # "appended"
         /\ \A q \in Request : pc'[q] \notin {"locked", "waiting"}
         /\ pc' \in [Node \cup Request ->
              {"idle", "claimed", "appended", "count", "counted", "fail", "locked", "waiting", "done"}]
         /\ AppendedLocks' /\ RequestLocks'
<1>1. r \notin Node
  BY SchedulerAssumption DEF Request
<1>2. \A n \in Node : pc'[n] = pc[n] /\ pc[n] # "appended"
  BY <1>1 DEF IInv, TypeOK, AppendedLocks
<1>3. \A q \in Request : pc'[q] \notin {"locked", "waiting"}
  BY DEF IInv, TypeOK, RequestLocks
<1>4. pc' \in [Node \cup Request ->
        {"idle", "claimed", "appended", "count", "counted", "fail", "locked", "waiting", "done"}]
  BY DEF IInv, TypeOK
<1>. QED BY <1>2, <1>3, <1>4 DEF AppendedLocks, RequestLocks

LEMMA StartTimerStep ==
  ASSUME IInv, NEW r \in Request, NEW s \in Series, StartTimer(r, s)
  PROVE  IInv' /\ \A u \in Timer : rows[u] \in {"fired", "cancelled", "failed"} => rows'[u] = rows[u]
<1>. DEFINE t == <<s, 1>>
<1>1. /\ rows[t] = "none" /\ lock = r /\ status = "ACTIVE" /\ t \in Timer /\ t[2] = 1
  BY SchedulerAssumption DEF StartTimer, IInv, RequestLocks, Timer
<1>2. rows' = [rows EXCEPT ![t] = "pending"] /\ pc' = [pc EXCEPT ![r] = "done"] /\ lock' = None
      /\ UNCHANGED <<status, due, events, errors, dlq, held, timer, seen, faults>>
  BY DEF StartTimer, Goto
<1>3. rows'[t] = "pending" /\ \A u \in Timer : u # t => rows'[u] = rows[u]
  BY <1>1, <1>2 DEF IInv, TypeOK
<1>4. FiredOnce' /\ SeriesContinues'
      /\ \A u \in Timer : rows[u] \in {"fired", "cancelled", "failed"} => rows'[u] = rows[u]
  BY <1>1, <1>2, <1>3, SettleStep
<1>5. ClosedHasNoPending' /\ RetriedFirst'
  BY <1>1, <1>2, <1>3 DEF IInv, ClosedHasNoPending, RetriedFirst
<1>6. rows' \in [Timer -> {"none", "pending", "fired", "cancelled", "failed"}]
  BY <1>2 DEF IInv, TypeOK
<1>7. TypeOK'
  BY <1>1, <1>2, <1>6, LeaveProjection DEF IInv, TypeOK
<1>8. \A n \in Node : pc'[n] = pc[n]
  BY <1>1, <1>2, LeaveProjection
<1>9. NodesHold'
  BY <1>1, <1>2, <1>3, <1>8 DEF IInv, NodesHold, Firing
<1>10. HeldToFire'
  <2>1. \A u \in Timer : held[u] # None => held[u] \in Node
    BY DEF IInv, TypeOK
  <2>. QED BY <1>2, <1>8, <2>1 DEF IInv, HeldToFire
<1>11. CountRead'
  BY <1>2, <1>8 DEF IInv, CountRead
<1>12. AppendedLocks' /\ RequestLocks'
  BY <1>1, <1>2, LeaveProjection
<1>. QED BY <1>4, <1>5, <1>7, <1>9, <1>10, <1>11, <1>12 DEF IInv

LEMMA CloseInstanceStep ==
  ASSUME IInv, NEW r \in Request, CloseInstance(r)
  PROVE  IInv' /\ \A u \in Timer : rows[u] \in {"fired", "cancelled", "failed"} => rows'[u] = rows[u]
<1>1. lock = r /\ Pending \subseteq seen[r] /\ \A t \in seen[r] : held[t] = None
  BY DEF CloseInstance, IInv, RequestLocks
<1>2. rows' = Closed(seen[r]) /\ pc' = [pc EXCEPT ![r] = "done"] /\ lock' = None
      /\ status' \in {"CANCELLED", "COMPLETED"} /\ seen' = [seen EXCEPT ![r] = {}]
      /\ UNCHANGED <<due, events, errors, dlq, held, timer, faults>>
  BY DEF CloseInstance, Goto
<1>3. \A u \in Timer : rows'[u] = IF rows[u] = "pending" THEN "cancelled" ELSE rows[u]
  BY <1>1, <1>2 DEF Closed, Pending
<1>4. FiredOnce' /\ SeriesContinues'
      /\ \A u \in Timer : rows[u] \in {"fired", "cancelled", "failed"} => rows'[u] = rows[u]
  BY <1>2, <1>3, SettleStep
<1>5. ClosedHasNoPending' /\ RetriedFirst'
  BY <1>2, <1>3 DEF IInv, ClosedHasNoPending, RetriedFirst, Pending
<1>6. rows' \in [Timer -> {"none", "pending", "fired", "cancelled", "failed"}]
      /\ seen' \in [Request -> SUBSET Timer]
  BY <1>2 DEF IInv, TypeOK, Closed
<1>7. TypeOK'
  BY <1>1, <1>2, <1>6, LeaveProjection DEF IInv, TypeOK
<1>8. NodesHold'
  <2>1. \A n \in Node : n # None /\ (pc[n] \in Firing => timer[n] \in Timer /\ held[timer[n]] = n
                                                         /\ rows[timer[n]] = "pending")
    BY SchedulerAssumption DEF IInv, NodesHold
  <2>2. \A n \in Node : pc[n] \notin Firing
    BY <1>1, <2>1 DEF Pending
  <2>. QED BY <1>1, <1>2, <2>2, LeaveProjection DEF IInv, NodesHold
<1>9. HeldToFire' /\ CountRead'
  <2>1. \A n \in Node : pc'[n] = pc[n]
    BY <1>1, <1>2, LeaveProjection
  <2>2. \A u \in Timer : held[u] # None => held[u] \in Node
    BY DEF IInv, TypeOK
  <2>. QED BY <1>2, <2>1, <2>2 DEF IInv, HeldToFire, CountRead
<1>10. AppendedLocks' /\ RequestLocks'
  BY <1>1, <1>2, LeaveProjection
<1>. QED BY <1>4, <1>5, <1>7, <1>8, <1>9, <1>10 DEF IInv

-----------------------------------------------------------------------------
Settled ==
  \A t \in Timer : rows[t] \in {"fired", "cancelled", "failed"} => rows'[t] = rows[t]

LEMMA Inductive == IInv /\ [Next]_vars => IInv' /\ Settled
<1>. SUFFICES ASSUME IInv, [Next]_vars PROVE IInv' /\ Settled
  OBVIOUS
<1>1. CASE UNCHANGED vars
  BY <1>1 DEF vars, tables, IInv, TypeOK, NodesHold, HeldToFire, AppendedLocks, RequestLocks, CountRead,
              ClosedHasNoPending, FiredOnce, SeriesContinues, RetriedFirst, Pending, Settled
<1>2. ASSUME NEW t \in Timer, Elapse(t)
      PROVE  IInv' /\ Settled
  BY <1>2, ElapseStep DEF Elapse, Settled
<1>3. ASSUME NEW n \in Node, Claim(n) \/ AppendEvent(n) \/ Count(n) \/ ReadCount(n)
      PROVE  IInv' /\ Settled
  <2>1. IInv'
    BY <1>3, ClaimStep, AppendEventStep, CountStep, ReadCountStep
  <2>2. UNCHANGED rows
    BY <1>3 DEF Claim, AppendEvent, Count, ReadCount, tables
  <2>. QED BY <2>1, <2>2 DEF Settled
<1>4. ASSUME NEW n \in Node, FireFails(n) \/ StatementFails(n) \/ NodeFails(n) \/ AbortNode(n)
      PROVE  IInv' /\ Settled
  <2>1. IInv'
    BY <1>4, FailureSteps
  <2>2. UNCHANGED rows
    BY <1>4 DEF FireFails, StatementFails, NodeFails, AbortNode, GiveUp, tables
  <2>. QED BY <2>1, <2>2 DEF Settled
<1>5. ASSUME NEW n \in Node, Fire(n) \/ MarkFailed(n)
      PROVE  IInv' /\ Settled
  BY <1>5, FireStep, MarkFailedStep DEF Settled
<1>6. ASSUME NEW r \in Request, LockInstance(r) \/ FindTimers(r) \/ RequestFails(r) \/ AbortRequest(r)
      PROVE  IInv' /\ Settled
  <2>1. IInv'
    BY <1>6, RequestStep
  <2>2. UNCHANGED rows
    BY <1>6 DEF LockInstance, FindTimers, RequestFails, AbortRequest, Rollback, tables
  <2>. QED BY <2>1, <2>2 DEF Settled
<1>7. ASSUME NEW r \in Request, CloseInstance(r) \/ \E s \in Series : StartTimer(r, s)
      PROVE  IInv' /\ Settled
  BY <1>7, CloseInstanceStep, StartTimerStep DEF Settled
<1>. QED BY <1>1, <1>2, <1>3, <1>4, <1>5, <1>6, <1>7 DEF Next

LEMMA Invariance == Spec => []IInv
<1>1. IInv /\ [Next]_vars => IInv'
  BY Inductive
<1>. QED BY <1>1, Initially, PTL DEF Spec

\* Every reachable state of the timers is well typed.
THEOREM TypeCorrect == Spec => []TypeOK
<1>1. IInv => TypeOK
  BY DEF IInv
<1>. QED BY <1>1, Invariance, PTL

\* scheduler.zig, processNextDueTimer: however many nodes poll, die or fail, a
\* timer has one TIMER_FIRED event if it has fired and none otherwise.
THEOREM FiresOnce == Spec => []FiredOnce
<1>1. IInv => FiredOnce
  BY DEF IInv
<1>. QED BY <1>1, Invariance, PTL

\* instance.zig, cancelInstance and the completing completeTask: no timer outlives
\* its instance, not even one that a fire in flight arms again.
THEOREM NoneOutlives == Spec => []ClosedHasNoPending
<1>1. IInv => ClosedHasNoPending
  BY DEF IInv
<1>. QED BY <1>1, Invariance, PTL

\* recurrence.zig: a recurrence neither skips a row nor stops before its last.
THEOREM SeriesUnbroken == Spec => []SeriesContinues
<1>1. IInv => SeriesContinues
  BY DEF IInv
<1>. QED BY <1>1, Invariance, PTL

\* handleTimerFireError: no timer is given up before Limit failed fires.
THEOREM GivenUpLast == Spec => []RetriedFirst
<1>1. IInv => RetriedFirst
  BY DEF IInv
<1>. QED BY <1>1, Invariance, PTL

\* A node that counts or dead-letters late, and a cancel that waited for a row
\* lock, find the row as it is and leave a settled one alone.
THEOREM SettlesOnce == Spec => SettledForGood
<1>1. IInv /\ [Next]_vars => [Settled]_vars
  BY Inductive
<1>2. [Settled]_vars <=> [\A t \in Timer : rows[t] \in {"fired", "cancelled", "failed"} => rows'[t] = rows[t]]_vars
  BY DEF Settled
<1>. QED BY <1>1, <1>2, Invariance, PTL DEF Spec, SettledForGood
=============================================================================
