------------------------------ MODULE Instance ------------------------------
(***************************************************************************)
(* Concurrent requests on one instance (src/src/engine/instance.zig):      *)
(* completeTask reads the task and the projection without a lock, locks    *)
(* the projection row (FOR UPDATE NOWAIT), checks the status again and     *)
(* writes what transition() made of the copy it read; cancelInstance and   *)
(* setInstanceError run under the same row lock.                           *)
(*                                                                         *)
(* The definition is a parallel split into branches of Length human tasks  *)
(* each, a join and an END; module Transition has the kernel in full.      *)
(***************************************************************************)
EXTENDS Naturals, FiniteSets, SequencesExt

CONSTANTS
  Branch,      \* the branches of the definition
  Length,      \* the human tasks of a branch
  Completer,   \* concurrent completeTask requests
  Canceller,   \* concurrent cancelInstance requests
  None         \* no holder of the row lock

ASSUME InstanceAssumption ==
  /\ Branch # {} /\ IsFiniteSet(Branch)
  /\ Length \in Nat \ {0}
  /\ Completer \cap Canceller = {} /\ None \notin Completer \cup Canceller

Task == Branch \X (1 .. Length)
Join == Length + 1

VARIABLES
  status,   \* instance_projections.status
  at,       \* at[b]: node of branch b's token, Join when parked on the join, 0 when gone
  variables,    \* instance_projections.variables: the tasks whose output is in them
  tasks,    \* tasks[t]: status of the task row, "NONE" before it is created
  log,      \* the types of the instance's events
  lock,     \* who holds the lock on the projection row
  pc,       \* where each request is
  copy,     \* what a completeTask request has read
  stale     \* history: a commit overwrote a projection newer than its copy

rows == <<status, at, variables, tasks, log>>
vars == <<rows, lock, pc, copy, stale>>

Request == Completer \cup Canceller
NoCopy == [task |-> None, at |-> [b \in Branch |-> 0], vars |-> {}]

Init ==
  /\ status = "ACTIVE"
  /\ at = [b \in Branch |-> 1]
  /\ variables = {}
  /\ tasks = [t \in Task |-> IF t[2] = 1 THEN "PENDING" ELSE "NONE"]
  /\ log = <<"instance_started">>
  /\ lock = None
  /\ pc = [r \in Request |-> "idle"]
  /\ copy = [c \in Completer |-> NoCopy]
  /\ stale = FALSE

Goto(r, l) == pc' = [pc EXCEPT ![r] = l]

\* End of the request: its transaction, if any, is over and its copy is freed.
Leave(r) ==
  /\ Goto(r, "idle")
  /\ lock' = IF lock = r THEN None ELSE lock
  /\ copy' = IF r \in Completer THEN [copy EXCEPT ![r] = NoCopy] ELSE copy

-----------------------------------------------------------------------------
(* completeTask.                                                           *)

\* Steps a, b: a task that is not PENDING is refused (TaskAlreadyTerminated).
ReadTask(c, t) ==
  /\ pc[c] = "idle"
  /\ tasks[t] = "PENDING"
  /\ Goto(c, "task")
  /\ copy' = [copy EXCEPT ![c].task = t]
  /\ UNCHANGED <<rows, lock, stale>>

\* Steps c, c2: read without a lock; refused unless ACTIVE.
ReadProjection(c) ==
  /\ pc[c] = "task"
  /\ IF status = "ACTIVE"
       THEN /\ Goto(c, "read")
            /\ copy' = [copy EXCEPT ![c] = [task |-> @.task, at |-> at, vars |-> variables]]
            /\ UNCHANGED lock
       ELSE Leave(c)
  /\ UNCHANGED <<rows, stale>>

\* Step f: FOR UPDATE NOWAIT (busy: ConcurrentModification), then the status.
AnyStatus == TRUE
ActiveOnly == status = "ACTIVE"
Lock(c) ==
  /\ pc[c] = "read"
  /\ IF lock = None /\ ActiveOnly
       THEN lock' = c /\ Goto(c, "locked") /\ UNCHANGED copy
       ELSE Leave(c)
  /\ UNCHANGED <<rows, stale>>

\* transition(): the token leaves the task; the last arrival at the join ends
\* the instance.
Advanced(from, t) == [from EXCEPT ![t[1]] = @ + 1]
AnyJoined(to) == \E b \in Branch : to[b] = Join
AllJoined(to) == \A b \in Branch : to[b] = Join

\* mergeVariables: the output of the task over the variables that were read.
OutputOnly(old, t) == {t}
Merged(old, t) == old \cup {t}

\* A task completed twice would be found here, not at the read.
Created(t) == tasks[t] # "NONE"
StillPending(t) == tasks[t] = "PENDING"

Complete(c) ==
  LET t == copy[c].task
      to == Advanced(copy[c].at, t)
      next == <<t[1], t[2] + 1>>
  IN /\ pc[c] = "locked"
     /\ copy[c].at[t[1]] = t[2]                   \* else InvalidState
     /\ StillPending(t)
     /\ status' = IF AllJoined(to) THEN "COMPLETED" ELSE "ACTIVE"
     /\ at' = IF AllJoined(to) THEN [b \in Branch |-> 0] ELSE to
     /\ variables' = Merged(copy[c].vars, t)
     /\ tasks' = [u \in Task |-> IF u = t THEN "COMPLETED"
                                 ELSE IF u = next THEN "PENDING" ELSE tasks[u]]
     /\ log' = Append(log, "task_completed")
     /\ stale' = (stale \/ copy[c].at # at \/ copy[c].vars # variables)
     /\ Leave(c)

\* The token is not on the task in the copy, the row is no longer PENDING, a
\* statement fails or the process dies: rolled back.
Abandon(r) ==
  /\ pc[r] # "idle"
  /\ Leave(r)
  /\ UNCHANGED <<rows, stale>>

\* SchemaViolation, NoMatchingEdge, a failed transform: rolled back first ...
Violation(c) ==
  /\ pc[c] = "locked"
  /\ Goto(c, "failed")
  /\ lock' = None
  /\ UNCHANGED <<rows, copy, stale>>

\* ... and then setInstanceError, a transaction of its own.
SetInstanceError(c) ==
  /\ pc[c] = "failed"
  /\ lock = None
  /\ IF status = "ACTIVE"
       THEN /\ status' = "ERROR"
            /\ log' = Append(log, "EXECUTION_ERROR")
       ELSE UNCHANGED <<status, log>>
  /\ Leave(c)
  /\ UNCHANGED <<at, variables, tasks, stale>>

-----------------------------------------------------------------------------
(* cancelInstance.                                                         *)

LockToCancel(x) ==
  /\ pc[x] = "idle"
  /\ lock = None
  /\ status \in {"ACTIVE", "ERROR"}
  /\ lock' = x
  /\ Goto(x, "cancel")
  /\ UNCHANGED <<rows, copy, stale>>

CancelledOnToken == [t \in Task |-> IF at[t[1]] = t[2] THEN "CANCELLED" ELSE tasks[t]]
Cancelled == [t \in Task |-> IF tasks[t] = "PENDING" THEN "CANCELLED" ELSE tasks[t]]

Cancel(x) ==
  /\ pc[x] = "cancel"
  /\ status' = "CANCELLED"
  /\ at' = [b \in Branch |-> 0]
  /\ tasks' = Cancelled
  /\ log' = Append(log, "INSTANCE_CANCELLED")
  /\ Leave(x)
  /\ UNCHANGED <<variables, stale>>

Next ==
  \/ \E c \in Completer :
       \/ \E t \in Task : ReadTask(c, t)
       \/ ReadProjection(c) \/ Lock(c) \/ Complete(c) \/ Violation(c) \/ SetInstanceError(c)
  \/ \E x \in Canceller : LockToCancel(x) \/ Cancel(x)
  \/ \E r \in Request : Abandon(r)

Spec == Init /\ [][Next]_vars

-----------------------------------------------------------------------------
(* Properties.                                                             *)

Position == 0 .. Join
TypeOK ==
  /\ status \in {"ACTIVE", "ERROR", "COMPLETED", "CANCELLED"}
  /\ at \in [Branch -> Position]
  /\ variables \subseteq Task
  /\ tasks \in [Task -> {"NONE", "PENDING", "COMPLETED", "CANCELLED"}]
  /\ log \in Seq({"instance_started", "task_completed", "EXECUTION_ERROR", "INSTANCE_CANCELLED"})
  /\ lock \in Request \cup {None}
  /\ pc \in [Request -> {"idle", "task", "read", "locked", "failed", "cancel"}]
  /\ copy \in [Completer -> [task : Task \cup {None}, at : [Branch -> Position], vars : SUBSET Task]]
  /\ stale \in BOOLEAN

\* EE-08: COMPLETED and CANCELLED are final, and ERROR is left only by a cancel,
\* although completeTask writes a status it worked out from an older copy.
TerminalIsFinal ==
  [][/\ status \in {"COMPLETED", "CANCELLED"} => UNCHANGED rows
     /\ status = "ERROR" => status' \in {"ERROR", "CANCELLED"}]_vars

\* A token is never ahead of its branch: every task behind it is COMPLETED,
\* whoever wrote the projection last.
TokensTrailTasks ==
  \A t \in Task : t[2] < at[t[1]] => tasks[t] = "COMPLETED"

\* COMPLETED means that every task of the definition was completed.
CompletedMeansDone == status = "COMPLETED" => \A t \in Task : tasks[t] = "COMPLETED"

\* EE-08: a cancelled instance has no PENDING task left, also when a task was
\* being completed at the same time.
NothingOpenAfterCancel == status = "CANCELLED" => \A t \in Task : tasks[t] # "PENDING"

Occurrences(e) == Cardinality({i \in DOMAIN log : log[i] = e})

OpenTasks == {t \in Task : tasks[t] = "PENDING"}
TokenTasks == {t \in Task : at[t[1]] = t[2]}
DoneTasks == {t \in Task : tasks[t] = "COMPLETED"}

\* The event log and the rows agree: one task_completed event per COMPLETED
\* task, one INSTANCE_CANCELLED event exactly for a cancelled instance.
LogMatchesRows ==
  /\ Occurrences("task_completed") = Cardinality(DoneTasks)
  /\ Occurrences("INSTANCE_CANCELLED") = (IF status = "CANCELLED" THEN 1 ELSE 0)

\* A commit over a projection newer than its copy is the only way to lose an
\* update: until one happens the tokens stand on exactly the PENDING tasks and
\* the variables hold the output of exactly the COMPLETED ones.
LossNeedsStaleCopy ==
  ~ stale /\ status \in {"ACTIVE", "ERROR"} => TokenTasks = OpenTasks /\ variables = DoneTasks

=============================================================================
