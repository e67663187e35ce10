--------------------------- MODULE InstanceProofs ---------------------------
(***************************************************************************)
(* What the row lock does guarantee, for any number of requests, branches  *)
(* and tasks.  A copy may be old, but tasks never lose the status          *)
(* COMPLETED, so a copy, like the projection, is never ahead of the tasks; *)
(* and the status is checked again under the lock, so what is written is   *)
(* written over an ACTIVE instance.                                        *)
(*   What the kernel they call guarantees, for any graph: an ACTIVE        *)
(* instance holds a token, a task row has its token, and ids are distinct; *)
(* and, each under a named condition on the calls made, rows match tokens, *)
(* branches have one token, waits have asked, completion leaves nothing.   *)
(*   For graphs of blocks (module Blocks) those conditions are proved, and *)
(* with them all that TLC checks of the persisted tokens: each token has a *)
(* home apart from the others', and a call enters only nodes with a token. *)
(***************************************************************************)
EXTENDS Instance, Blocks, FiniteSetTheorems, WellFoundedInduction, TLAPS

\* A task is created when the one before it completes, never before.
TasksInOrder ==
  \A t \in Task : t[2] > 1 /\ tasks[t] # "NONE" => tasks[<<t[1], t[2] - 1>>] = "COMPLETED"

\* Who is past the lock holds it, on an instance it has found open.
LockCovers ==
  /\ \A c \in Completer : pc[c] = "locked" => lock = c /\ status = "ACTIVE"
  /\ \A x \in Canceller : pc[x] = "cancel" => lock = x /\ status \in {"ACTIVE", "ERROR"}

CopiesTrailTasks ==
  \A c \in Completer :
    pc[c] \in {"read", "locked"} =>
      \A t \in Task : t[2] < copy[c].at[t[1]] => tasks[t] = "COMPLETED"

CopiesNameTasks == \A c \in Completer : pc[c] \in {"task", "read", "locked"} => copy[c].task \in Task

IInv ==
  /\ TypeOK
  /\ TasksInOrder
  /\ LockCovers
  /\ CopiesTrailTasks
  /\ CopiesNameTasks
  /\ TokensTrailTasks
  /\ CompletedMeansDone
  /\ NothingOpenAfterCancel

LEMMA TaskParts ==
  ASSUME NEW t \in Task
  PROVE  t[1] \in Branch /\ t[2] \in 1 .. Length /\ t = <<t[1], t[2]>>
BY DEF Task

LEMMA TaskAt ==
  ASSUME NEW b \in Branch, NEW i \in 1 .. Length
  PROVE  <<b, i>> \in Task /\ <<b, i>>[1] = b /\ <<b, i>>[2] = i
BY DEF Task

LEMMA Predecessor ==
  ASSUME NEW t \in Task, t[2] > 1
  PROVE  <<t[1], t[2] - 1>> \in Task
<1>1. t[1] \in Branch /\ t[2] \in 1 .. Length
  BY TaskParts
<1>2. t[2] - 1 \in 1 .. Length
  BY <1>1, InstanceAssumption
<1>. QED BY <1>1, <1>2, TaskAt

\* What the end of a request does to the request's own variables.
LEMMA LeaveTypes ==
  ASSUME TypeOK, NEW r \in Request, Leave(r)
  PROVE  /\ lock' \in Request \cup {None}
         /\ pc' \in [Request -> {"idle", "task", "read", "locked", "failed", "cancel"}]
         /\ copy' \in [Completer -> [task : Task \cup {None}, at : [Branch -> Position],
                                    vars : SUBSET Task]]
<1>1. NoCopy \in [task : Task \cup {None}, at : [Branch -> Position], vars : SUBSET Task]
  BY InstanceAssumption DEF NoCopy, Position, Join
<1>. QED BY <1>1 DEF TypeOK, Leave, Goto

LEMMA Initially == Init => IInv
<1>. SUFFICES ASSUME Init PROVE IInv
  OBVIOUS
<1>. USE InstanceAssumption DEF Init
<1>1. TypeOK
  <2>1. log \in Seq({"instance_started", "task_completed", "EXECUTION_ERROR", "INSTANCE_CANCELLED"})
    OBVIOUS
  <2>2. NoCopy \in [task : Task \cup {None}, at : [Branch -> Position], vars : SUBSET Task]
    BY DEF NoCopy, Position, Join
  <2>3. at \in [Branch -> Position]
    BY DEF Position, Join
  <2>. QED BY <2>1, <2>2, <2>3 DEF TypeOK
<1>2. TasksInOrder
  <2>. SUFFICES ASSUME NEW t \in Task, t[2] > 1 PROVE tasks[t] = "NONE"
    BY DEF TasksInOrder
  <2>1. t[2] # 1
    BY TaskParts
  <2>. QED BY <2>1
<1>3. TokensTrailTasks
  BY TaskParts DEF TokensTrailTasks
<1>. QED BY <1>1, <1>2, <1>3
       DEF IInv, LockCovers, CopiesTrailTasks, CopiesNameTasks, CompletedMeansDone,
           NothingOpenAfterCancel, Request

-----------------------------------------------------------------------------
\* Steps that leave the rows alone, and whose requests only lose what they had.
LEMMA LeaveStep ==
  ASSUME IInv, NEW r \in Request, Leave(r), UNCHANGED <<rows, stale>>
  PROVE  IInv'
<1>. USE InstanceAssumption DEF Leave, Goto, rows, IInv, Request
<1>1. TypeOK'
  BY DEF TypeOK, NoCopy, Position, Join
<1>2. TasksInOrder' /\ TokensTrailTasks' /\ CompletedMeansDone' /\ NothingOpenAfterCancel'
  BY DEF TasksInOrder, TokensTrailTasks, CompletedMeansDone, NothingOpenAfterCancel
<1>3. \A s \in Request : s # r => pc'[s] = pc[s] /\ (lock = s => lock' = s)
  BY DEF TypeOK
<1>4. pc'[r] = "idle"
  BY DEF TypeOK
<1>5. \A c \in Completer : c # r => copy'[c] = copy[c]
  BY DEF TypeOK
<1>6. LockCovers'
  BY <1>3, <1>4 DEF LockCovers
<1>7. CopiesTrailTasks' /\ CopiesNameTasks'
  BY <1>3, <1>4, <1>5 DEF CopiesTrailTasks, CopiesNameTasks
<1>. QED BY <1>1, <1>2, <1>6, <1>7

LEMMA ReadTaskStep ==
  ASSUME IInv, NEW c \in Completer, NEW t \in Task, ReadTask(c, t)
  PROVE  IInv'
<1>. USE InstanceAssumption DEF ReadTask, Goto, rows, IInv, Request
<1>1. TypeOK'
  BY DEF TypeOK
<1>2. TasksInOrder' /\ TokensTrailTasks' /\ CompletedMeansDone' /\ NothingOpenAfterCancel'
  BY DEF TasksInOrder, TokensTrailTasks, CompletedMeansDone, NothingOpenAfterCancel
<1>3. LockCovers'
  BY DEF LockCovers, TypeOK
<1>4. CopiesTrailTasks' /\ CopiesNameTasks'
  BY DEF CopiesTrailTasks, CopiesNameTasks, TypeOK
<1>. QED BY <1>1, <1>2, <1>3, <1>4

LEMMA ReadProjectionStep ==
  ASSUME IInv, NEW c \in Completer, ReadProjection(c)
  PROVE  IInv'
<1>. USE InstanceAssumption DEF ReadProjection, Goto, rows, IInv, Request
<1>1. CASE status # "ACTIVE"
  BY <1>1, LeaveStep
<1>2. CASE status = "ACTIVE"
  <2>. USE <1>2
  <2>1. TypeOK'
    <3>1. pc' \in [Request -> {"idle", "task", "read", "locked", "failed", "cancel"}]
      BY DEF TypeOK
    <3>2. [task |-> copy[c].task, at |-> at, vars |-> variables]
             \in [task : Task \cup {None}, at : [Branch -> Position], vars : SUBSET Task]
      BY DEF TypeOK
    <3>3. copy' = [copy EXCEPT ![c] = [task |-> copy[c].task, at |-> at, vars |-> variables]]
      OBVIOUS
    <3>4. copy' \in [Completer -> [task : Task \cup {None}, at : [Branch -> Position],
                                 vars : SUBSET Task]]
      BY <3>2, <3>3 DEF TypeOK
    <3>. QED BY <3>1, <3>4 DEF TypeOK
  <2>2. TasksInOrder' /\ TokensTrailTasks' /\ CompletedMeansDone' /\ NothingOpenAfterCancel'
    BY DEF TasksInOrder, TokensTrailTasks, CompletedMeansDone, NothingOpenAfterCancel
  <2>3. LockCovers'
    BY DEF LockCovers, TypeOK
  <2>4. copy'[c].at = at /\ copy'[c].task = copy[c].task
        /\ \A d \in Completer : d # c => copy'[d] = copy[d] /\ pc'[d] = pc[d]
    BY DEF TypeOK
  <2>5. CopiesTrailTasks'
    BY <2>4 DEF CopiesTrailTasks, TokensTrailTasks
  <2>6. CopiesNameTasks'
    BY <2>4 DEF CopiesNameTasks
  <2>. QED BY <2>1, <2>2, <2>3, <2>5, <2>6
<1>. QED BY <1>1, <1>2

\* The lock is taken, or given up, with the status in sight.
LEMMA LockStep ==
  ASSUME IInv, NEW c \in Completer, Lock(c)
  PROVE  IInv'
<1>. USE InstanceAssumption DEF Lock, Goto, rows, IInv, Request
<1>1. CASE ~ (lock = None /\ ActiveOnly)
  BY <1>1, LeaveStep
<1>2. CASE lock = None /\ ActiveOnly
  <2>. USE <1>2
  <2>1. TypeOK'
    BY DEF TypeOK
  <2>2. TasksInOrder' /\ TokensTrailTasks' /\ CompletedMeansDone' /\ NothingOpenAfterCancel'
    BY DEF TasksInOrder, TokensTrailTasks, CompletedMeansDone, NothingOpenAfterCancel
  <2>3. LockCovers'
    BY DEF LockCovers, TypeOK, ActiveOnly
  <2>4. CopiesTrailTasks' /\ CopiesNameTasks'
    BY DEF CopiesTrailTasks, CopiesNameTasks, TypeOK
  <2>. QED BY <2>1, <2>2, <2>3, <2>4
<1>. QED BY <1>1, <1>2

LEMMA LockToCancelStep ==
  ASSUME IInv, NEW x \in Canceller, LockToCancel(x)
  PROVE  IInv'
<1>. USE InstanceAssumption DEF LockToCancel, Goto, rows, IInv, Request
<1>1. TypeOK'
  BY DEF TypeOK
<1>2. TasksInOrder' /\ TokensTrailTasks' /\ CompletedMeansDone' /\ NothingOpenAfterCancel'
  BY DEF TasksInOrder, TokensTrailTasks, CompletedMeansDone, NothingOpenAfterCancel
<1>3. LockCovers' /\ CopiesTrailTasks' /\ CopiesNameTasks'
  BY DEF LockCovers, CopiesTrailTasks, CopiesNameTasks, TypeOK
<1>. QED BY <1>1, <1>2, <1>3

LEMMA ViolationStep ==
  ASSUME IInv, NEW c \in Completer, Violation(c)
  PROVE  IInv'
<1>. USE InstanceAssumption DEF Violation, Goto, rows, IInv, Request
<1>1. TypeOK'
  BY DEF TypeOK
<1>2. TasksInOrder' /\ TokensTrailTasks' /\ CompletedMeansDone' /\ NothingOpenAfterCancel'
  BY DEF TasksInOrder, TokensTrailTasks, CompletedMeansDone, NothingOpenAfterCancel
<1>3. LockCovers' /\ CopiesTrailTasks' /\ CopiesNameTasks'
  BY DEF LockCovers, CopiesTrailTasks, CopiesNameTasks, TypeOK
<1>. QED BY <1>1, <1>2, <1>3

-----------------------------------------------------------------------------
(* The three steps that write.                                             *)

\* What a writer leaves to the others: it held the lock, so none of them does,
\* and no task stops being COMPLETED.
LEMMA OthersUndisturbed ==
  ASSUME IInv, NEW r \in Request, Leave(r),
         lock \in {None, r},
         \A t \in Task : tasks[t] = "COMPLETED" => tasks'[t] = "COMPLETED"
  PROVE  LockCovers' /\ CopiesTrailTasks' /\ CopiesNameTasks'
<1>. USE InstanceAssumption DEF Leave, Goto, IInv, Request
<1>1. pc'[r] = "idle" /\ \A s \in Request : s # r => pc'[s] = pc[s]
  BY DEF TypeOK
<1>2. \A c \in Completer : c # r => copy'[c] = copy[c]
  BY DEF TypeOK
<1>3. (\A c \in Completer : pc'[c] # "locked") /\ (\A x \in Canceller : pc'[x] # "cancel")
  BY <1>1 DEF LockCovers
<1>4. LockCovers'
  BY <1>3 DEF LockCovers
<1>5. CopiesTrailTasks' /\ CopiesNameTasks'
  BY <1>1, <1>2 DEF CopiesTrailTasks, CopiesNameTasks
<1>. QED BY <1>4, <1>5

LEMMA CompleteStep ==
  ASSUME IInv, NEW c \in Completer, Complete(c)
  PROVE  IInv'
<1>. DEFINE t == copy[c].task
            to == Advanced(copy[c].at, t)
            next == <<t[1], t[2] + 1>>
<1>1. /\ pc[c] = "locked" /\ lock = c /\ status = "ACTIVE"
      /\ copy[c].at[t[1]] = t[2] /\ tasks[t] = "PENDING"
      /\ t \in Task /\ c \in Request
  BY DEF Complete, StillPending, IInv, LockCovers, CopiesNameTasks, Request
<1>2. /\ status' = IF AllJoined(to) THEN "COMPLETED" ELSE "ACTIVE"
      /\ at' = IF AllJoined(to) THEN [b \in Branch |-> 0] ELSE to
      /\ tasks' = [u \in Task |-> IF u = t THEN "COMPLETED"
                                  ELSE IF u = next THEN "PENDING" ELSE tasks[u]]
      /\ Leave(c)
  BY DEF Complete
<1>3. /\ t[1] \in Branch /\ t[2] \in 1 .. Length /\ t = <<t[1], t[2]>>
      /\ copy[c].at \in [Branch -> Position] /\ copy[c].vars \subseteq Task
  BY <1>1, TaskParts DEF IInv, TypeOK
<1>4. /\ to \in [Branch -> Position]
      /\ to[t[1]] = t[2] + 1
      /\ \A b \in Branch : b # t[1] => to[b] = copy[c].at[b]
  BY <1>1, <1>3, InstanceAssumption DEF Advanced, Position, Join
\* The task that is created had not been: its predecessor was still PENDING.
<1>5. next \in Task => tasks[next] = "NONE"
  <2>. SUFFICES ASSUME next \in Task PROVE tasks[next] = "NONE"
    OBVIOUS
  <2>1. next[2] > 1 /\ <<next[1], next[2] - 1>> = t
    BY <1>3
  <2>. QED BY <1>1, <2>1 DEF IInv, TasksInOrder
<1>6. next # t
  BY <1>3
<1>7. tasks' \in [Task -> {"NONE", "PENDING", "COMPLETED", "CANCELLED"}]
  BY <1>2 DEF IInv, TypeOK
<1>8. /\ tasks'[t] = "COMPLETED"
      /\ \A u \in Task : tasks[u] = "COMPLETED" => tasks'[u] = "COMPLETED"
      /\ \A u \in Task : u # t /\ u # next => tasks'[u] = tasks[u]
  BY <1>1, <1>2, <1>5 DEF IInv, TypeOK
<1>9. TypeOK'
  <2>1. at' \in [Branch -> Position]
    BY <1>2, <1>4, InstanceAssumption DEF Position, Join
  <2>2. variables' \subseteq Task
    BY <1>1, <1>3 DEF Complete, Merged
  <2>3. log' \in Seq({"instance_started", "task_completed", "EXECUTION_ERROR", "INSTANCE_CANCELLED"})
    BY DEF Complete, IInv, TypeOK
  <2>4. stale' \in BOOLEAN
    BY DEF Complete, IInv, TypeOK
  <2>. QED BY <1>1, <1>2, <1>7, <2>1, <2>2, <2>3, <2>4, LeaveTypes DEF IInv, TypeOK
<1>10. TasksInOrder'
  <2>. SUFFICES ASSUME NEW u \in Task, u[2] > 1, tasks'[u] # "NONE"
                PROVE  tasks'[<<u[1], u[2] - 1>>] = "COMPLETED"
    BY DEF TasksInOrder
  <2>1. <<u[1], u[2] - 1>> \in Task
    BY Predecessor
  <2>2. CASE u = next
    BY <2>2, <1>3, <1>8
  <2>3. CASE u # next
    <3>1. tasks[u] # "NONE"
      BY <2>3, <1>1, <1>8
    <3>. QED BY <3>1, <2>1, <1>8 DEF IInv, TasksInOrder
  <2>. QED BY <2>2, <2>3
\* The token that moves leaves a task that is now COMPLETED; the others stand
\* where the copy had them, and a copy is never ahead of the tasks.
<1>11. \A u \in Task : u[2] < to[u[1]] => tasks'[u] = "COMPLETED"
  <2>. SUFFICES ASSUME NEW u \in Task, u[2] < to[u[1]] PROVE tasks'[u] = "COMPLETED"
    OBVIOUS
  <2>1. u[1] \in Branch /\ u[2] \in 1 .. Length /\ u = <<u[1], u[2]>>
    BY TaskParts
  <2>2. CASE u = t
    BY <2>2, <1>8
  <2>3. CASE u # t
    <3>1. u[2] < copy[c].at[u[1]]
      BY <2>1, <2>3, <1>1, <1>3, <1>4
    <3>. QED BY <3>1, <1>1, <1>8 DEF IInv, CopiesTrailTasks
  <2>. QED BY <2>2, <2>3
<1>12. TokensTrailTasks'
  <2>1. CASE AllJoined(to)
    BY <2>1, <1>2, TaskParts DEF TokensTrailTasks
  <2>2. CASE ~ AllJoined(to)
    BY <2>2, <1>2, <1>11 DEF TokensTrailTasks
  <2>. QED BY <2>1, <2>2
<1>13. CompletedMeansDone'
  <2>1. CASE AllJoined(to)
    <3>1. \A u \in Task : u[2] < to[u[1]]
      BY <2>1, TaskParts, InstanceAssumption DEF AllJoined, Join
    <3>. QED BY <3>1, <1>11 DEF CompletedMeansDone
  <2>2. CASE ~ AllJoined(to)
    BY <2>2, <1>2 DEF CompletedMeansDone
  <2>. QED BY <2>1, <2>2
<1>14. NothingOpenAfterCancel'
  BY <1>2 DEF NothingOpenAfterCancel
<1>15. LockCovers' /\ CopiesTrailTasks' /\ CopiesNameTasks'
  BY <1>1, <1>2, <1>8, OthersUndisturbed
<1>. QED BY <1>9, <1>10, <1>12, <1>13, <1>14, <1>15 DEF IInv

LEMMA SetInstanceErrorStep ==
  ASSUME IInv, NEW c \in Completer, SetInstanceError(c)
  PROVE  IInv'
<1>1. c \in Request /\ Leave(c) /\ lock \in {None, c} /\ UNCHANGED <<at, variables, tasks, stale>>
  BY DEF SetInstanceError, Request
<1>2. TypeOK'
  <2>1. log' \in Seq({"instance_started", "task_completed", "EXECUTION_ERROR", "INSTANCE_CANCELLED"})
    <3>1. log' = Append(log, "EXECUTION_ERROR") \/ log' = log
      BY DEF SetInstanceError
    <3>. QED BY <3>1 DEF IInv, TypeOK
  <2>2. status' \in {"ACTIVE", "ERROR", "COMPLETED", "CANCELLED"}
    BY DEF SetInstanceError, IInv, TypeOK
  <2>. QED BY <1>1, <2>1, <2>2, LeaveTypes DEF IInv, TypeOK
<1>3. TasksInOrder' /\ TokensTrailTasks'
  BY <1>1 DEF IInv, TasksInOrder, TokensTrailTasks
<1>4. CompletedMeansDone' /\ NothingOpenAfterCancel'
  BY <1>1 DEF SetInstanceError, IInv, CompletedMeansDone, NothingOpenAfterCancel
<1>5. LockCovers' /\ CopiesTrailTasks' /\ CopiesNameTasks'
  BY <1>1, OthersUndisturbed
<1>. QED BY <1>2, <1>3, <1>4, <1>5 DEF IInv

LEMMA CancelStep ==
  ASSUME IInv, NEW x \in Canceller, Cancel(x)
  PROVE  IInv'
<1>1. /\ x \in Request /\ Leave(x) /\ lock = x
      /\ status' = "CANCELLED"
      /\ at' = [b \in Branch |-> 0]
      /\ tasks' = [t \in Task |-> IF tasks[t] = "PENDING" THEN "CANCELLED" ELSE tasks[t]]
  BY DEF Cancel, Cancelled, IInv, LockCovers, Request
<1>2. \A t \in Task : /\ tasks[t] = "COMPLETED" => tasks'[t] = "COMPLETED"
                      /\ tasks'[t] # "PENDING"
                      /\ tasks'[t] # "NONE" => tasks[t] # "NONE"
  BY <1>1 DEF IInv, TypeOK
<1>3. TypeOK'
  <2>1. log' \in Seq({"instance_started", "task_completed", "EXECUTION_ERROR", "INSTANCE_CANCELLED"})
    BY DEF Cancel, IInv, TypeOK
  <2>2. at' \in [Branch -> Position]
    BY <1>1, InstanceAssumption DEF Position, Join
  <2>3. tasks' \in [Task -> {"NONE", "PENDING", "COMPLETED", "CANCELLED"}]
    BY <1>1 DEF IInv, TypeOK
  <2>4. UNCHANGED <<variables, stale>>
    BY DEF Cancel
  <2>. QED BY <1>1, <2>1, <2>2, <2>3, <2>4, LeaveTypes DEF IInv, TypeOK
<1>4. TasksInOrder'
  <2>. SUFFICES ASSUME NEW t \in Task, t[2] > 1, tasks'[t] # "NONE"
                PROVE  tasks'[<<t[1], t[2] - 1>>] = "COMPLETED"
    BY DEF TasksInOrder
  <2>1. <<t[1], t[2] - 1>> \in Task
    BY Predecessor
  <2>. QED BY <2>1, <1>2 DEF IInv, TasksInOrder
<1>5. TokensTrailTasks'
  BY <1>1, TaskParts DEF TokensTrailTasks
<1>6. CompletedMeansDone' /\ NothingOpenAfterCancel'
  BY <1>1, <1>2 DEF CompletedMeansDone, NothingOpenAfterCancel
<1>7. LockCovers' /\ CopiesTrailTasks' /\ CopiesNameTasks'
  BY <1>1, <1>2, OthersUndisturbed
<1>. QED BY <1>3, <1>4, <1>5, <1>6, <1>7 DEF IInv

-----------------------------------------------------------------------------
LEMMA Inductive == IInv /\ [Next]_vars => IInv'
<1>. SUFFICES ASSUME IInv, [Next]_vars PROVE IInv'
  OBVIOUS
<1>1. CASE UNCHANGED vars
  BY <1>1 DEF vars, rows, IInv, TypeOK, TasksInOrder, LockCovers, CopiesTrailTasks, CopiesNameTasks,
              TokensTrailTasks, CompletedMeansDone, NothingOpenAfterCancel
<1>2. ASSUME NEW c \in Completer,
             \/ \E t \in Task : ReadTask(c, t)
             \/ ReadProjection(c) \/ Lock(c) \/ Complete(c) \/ Violation(c) \/ SetInstanceError(c)
      PROVE  IInv'
  BY <1>2, ReadTaskStep, ReadProjectionStep, LockStep, CompleteStep, ViolationStep, SetInstanceErrorStep
<1>3. ASSUME NEW x \in Canceller, LockToCancel(x) \/ Cancel(x)
      PROVE  IInv'
  BY <1>3, LockToCancelStep, CancelStep
<1>4. ASSUME NEW r \in Request, Abandon(r)
      PROVE  IInv'
  BY <1>4, LeaveStep DEF Abandon
<1>. QED BY <1>1, <1>2, <1>3, <1>4 DEF Next

LEMMA Invariance == Spec => []IInv
BY Initially, Inductive, PTL DEF Spec

\* Every variable keeps its type, whatever the requests interleave.
THEOREM TypeCorrect == Spec => []TypeOK
<1>1. IInv => TypeOK
  BY DEF IInv
<1>. QED BY <1>1, Invariance, PTL

\* However old the copy a commit is made of, no token passes a task that has not
\* been completed.
THEOREM NoTokenAhead == Spec => []TokensTrailTasks
<1>1. IInv => TokensTrailTasks
  BY DEF IInv
<1>. QED BY <1>1, Invariance, PTL

\* An instance becomes COMPLETED only after all of its tasks have.
THEOREM CompletedIsDone == Spec => []CompletedMeansDone
<1>1. IInv => CompletedMeansDone
  BY DEF IInv
<1>. QED BY <1>1, Invariance, PTL

\* A cancel leaves no task open, however it races with completions.
THEOREM CancelClosesTasks == Spec => []NothingOpenAfterCancel
<1>1. IInv => NothingOpenAfterCancel
  BY DEF IInv
<1>. QED BY <1>1, Invariance, PTL

Final ==
  /\ status \in {"COMPLETED", "CANCELLED"} => UNCHANGED rows
  /\ status = "ERROR" => status' \in {"ERROR", "CANCELLED"}

LEMMA StepOnClosed ==
  ASSUME IInv, [Next]_vars
  PROVE  Final
<1>. USE DEF Final
<1>0. CASE UNCHANGED vars
  BY <1>0 DEF vars, rows
<1>1. ASSUME NEW c \in Completer, Complete(c) PROVE Final
  BY <1>1 DEF Complete, IInv, LockCovers
<1>2. ASSUME NEW c \in Completer, SetInstanceError(c) PROVE Final
  BY <1>2 DEF SetInstanceError, rows
<1>3. ASSUME NEW x \in Canceller, Cancel(x) PROVE Final
  BY <1>3 DEF Cancel, IInv, LockCovers
<1>4. ASSUME UNCHANGED rows PROVE Final
  BY <1>4 DEF rows
<1>. QED BY <1>0, <1>1, <1>2, <1>3, <1>4
         DEF Next, ReadTask, ReadProjection, Lock, Violation, LockToCancel, Abandon

\* A closed instance is never written again: who would write it holds the lock
\* and has found it open.
THEOREM ClosedForGood == Spec => TerminalIsFinal
<1>1. IInv /\ [Next]_vars =>
        [/\ status \in {"COMPLETED", "CANCELLED"} => UNCHANGED rows
         /\ status = "ERROR" => status' \in {"ERROR", "CANCELLED"}]_vars
  BY StepOnClosed DEF Final
<1>. QED BY <1>1, Invariance, PTL DEF Spec, TerminalIsFinal

-----------------------------------------------------------------------------
(* The event log counts the rows, and an update is lost by a stale copy     *)
(* alone.  Both are invariants on top of IInv.                             *)

\* Appending an event adds one occurrence of it and of nothing else.
LEMMA AppendOccurrences ==
  ASSUME TypeOK, NEW f, log' = Append(log, f), NEW e,
         IsFiniteSet({i \in DOMAIN log : log[i] = e})
  PROVE  /\ IsFiniteSet({i \in DOMAIN log' : log'[i] = e})
         /\ Occurrences(e)' = Occurrences(e) + (IF f = e THEN 1 ELSE 0)
<1>. DEFINE P == {i \in DOMAIN log : log[i] = e}
            Q == {i \in DOMAIN log' : log'[i] = e}
            n == Len(log) + 1
<1>1. /\ Len(log) \in Nat /\ DOMAIN log = 1 .. Len(log) /\ DOMAIN log' = 1 .. n
      /\ \A i \in 1 .. Len(log) : log'[i] = log[i]
      /\ log'[n] = f
  BY DEF TypeOK
<1>2. n \notin P
  BY <1>1
<1>3. f = e => Q = P \cup {n}
  BY <1>1
<1>4. f # e => Q = P
  BY <1>1
<1>5. Occurrences(e) = Cardinality(P) /\ Occurrences(e)' = Cardinality(Q)
  BY DEF Occurrences
<1>6. IsFiniteSet(P)
  OBVIOUS
<1>. HIDE DEF P, Q, n
<1>7. /\ Cardinality(P) \in Nat
      /\ IsFiniteSet(P \cup {n}) /\ Cardinality(P \cup {n}) = Cardinality(P) + 1
  BY <1>2, <1>6, FS_AddElement, FS_CardinalityType
<1>8. IsFiniteSet(Q) /\ Occurrences(e)' = Occurrences(e) + (IF f = e THEN 1 ELSE 0)
  <2>1. CASE f = e
    BY <2>1, <1>3, <1>5, <1>7
  <2>2. CASE f # e
    BY <2>2, <1>4, <1>5, <1>6, <1>7
  <2>. QED BY <2>1, <2>2
<1>. QED BY <1>8 DEF Q

LEMMA OccurrencesFinite ==
  ASSUME TypeOK, NEW e
  PROVE  IsFiniteSet({i \in DOMAIN log : log[i] = e})
<1>1. DOMAIN log = 1 .. Len(log) /\ Len(log) \in Nat
  BY DEF TypeOK
<1>2. IsFiniteSet(1 .. Len(log))
  BY <1>1, FS_Interval
<1>. QED BY <1>1, <1>2, FS_Subset

LEMMA TasksFinite == IsFiniteSet(Task)
<1>1. IsFiniteSet(1 .. Length)
  BY InstanceAssumption, FS_Interval
<1>. QED BY <1>1, InstanceAssumption, FS_Product DEF Task

\* The one commit of a completion: where it puts the token and the tasks when
\* its copy was the projection as it stands.
LEMMA CompleteRows ==
  ASSUME IInv, NEW c \in Completer, Complete(c)
  PROVE  LET t == copy[c].task
             next == <<t[1], t[2] + 1>>
         IN /\ t \in Task /\ tasks[t] = "PENDING" /\ copy[c].at[t[1]] = t[2]
            /\ status = "ACTIVE" /\ status' \in {"ACTIVE", "COMPLETED"}
            /\ next \in Task => tasks[next] = "NONE"
            /\ next # t
            /\ tasks'[t] = "COMPLETED"
            /\ next \in Task => tasks'[next] = "PENDING"
            /\ \A u \in Task : u # t /\ u # next => tasks'[u] = tasks[u]
<1>. DEFINE t == copy[c].task
            next == <<t[1], t[2] + 1>>
<1>1. /\ pc[c] = "locked" /\ status = "ACTIVE" /\ copy[c].at[t[1]] = t[2]
      /\ tasks[t] = "PENDING" /\ t \in Task
  BY DEF Complete, StillPending, IInv, LockCovers, CopiesNameTasks
<1>2. t[1] \in Branch /\ t[2] \in 1 .. Length /\ t = <<t[1], t[2]>>
  BY <1>1, TaskParts
<1>3. next # t
  BY <1>2
<1>4. next \in Task => tasks[next] = "NONE"
  <2>. SUFFICES ASSUME next \in Task PROVE tasks[next] = "NONE"
    OBVIOUS
  <2>1. next[2] > 1 /\ <<next[1], next[2] - 1>> = t
    BY <1>2
  <2>. QED BY <1>1, <2>1 DEF IInv, TasksInOrder
<1>5. tasks' = [u \in Task |-> IF u = t THEN "COMPLETED"
                               ELSE IF u = next THEN "PENDING" ELSE tasks[u]]
      /\ status' \in {"ACTIVE", "COMPLETED"}
  BY DEF Complete
<1>. QED BY <1>1, <1>3, <1>4, <1>5

LEMMA CompleteCounts ==
  ASSUME IInv, LogMatchesRows, NEW c \in Completer, Complete(c)
  PROVE  LogMatchesRows'
<1>. DEFINE t == copy[c].task
            next == <<t[1], t[2] + 1>>
<1>1. DoneTasks' = DoneTasks \cup {t} /\ t \notin DoneTasks
  BY CompleteRows DEF DoneTasks
<1>2. IsFiniteSet(DoneTasks)
  BY TasksFinite, FS_Subset DEF DoneTasks
<1>3. Cardinality(DoneTasks)' = Cardinality(DoneTasks) + 1
  BY <1>1, <1>2, FS_AddElement
<1>4. TypeOK /\ log' = Append(log, "task_completed")
  BY DEF IInv, Complete
<1>5. /\ Occurrences("task_completed")' = Occurrences("task_completed") + 1
      /\ Occurrences("INSTANCE_CANCELLED")' = Occurrences("INSTANCE_CANCELLED") + 0
  BY <1>4, OccurrencesFinite, AppendOccurrences
<1>6. status # "CANCELLED" /\ status' # "CANCELLED"
  BY CompleteRows
<1>. QED BY <1>3, <1>5, <1>6 DEF LogMatchesRows

LEMMA CancelCounts ==
  ASSUME IInv, LogMatchesRows, NEW x \in Canceller, Cancel(x)
  PROVE  LogMatchesRows'
<1>1. DoneTasks' = DoneTasks
  BY DEF DoneTasks, Cancel, Cancelled
<1>2. TypeOK /\ log' = Append(log, "INSTANCE_CANCELLED")
  BY DEF IInv, Cancel
<1>3. /\ Occurrences("task_completed")' = Occurrences("task_completed") + 0
      /\ Occurrences("INSTANCE_CANCELLED")' = Occurrences("INSTANCE_CANCELLED") + 1
  BY <1>2, OccurrencesFinite, AppendOccurrences
<1>4. status \in {"ACTIVE", "ERROR"} /\ status' = "CANCELLED"
  BY DEF Cancel, IInv, LockCovers
<1>5. Cardinality(DoneTasks) \in Nat
  BY TasksFinite, FS_Subset, FS_CardinalityType DEF DoneTasks
<1>. QED BY <1>1, <1>3, <1>4, <1>5 DEF LogMatchesRows

LEMMA SetInstanceErrorCounts ==
  ASSUME IInv, LogMatchesRows, NEW c \in Completer, SetInstanceError(c)
  PROVE  LogMatchesRows'
<1>1. DoneTasks' = DoneTasks
  BY DEF DoneTasks, SetInstanceError
<1>2. CASE UNCHANGED <<status, log>>
  BY <1>1, <1>2 DEF LogMatchesRows, Occurrences
<1>3. CASE status = "ACTIVE" /\ status' = "ERROR" /\ log' = Append(log, "EXECUTION_ERROR")
  <2>1. /\ Occurrences("task_completed")' = Occurrences("task_completed") + 0
        /\ Occurrences("INSTANCE_CANCELLED")' = Occurrences("INSTANCE_CANCELLED") + 0
    BY <1>3, OccurrencesFinite, AppendOccurrences DEF IInv
  <2>2. Cardinality(DoneTasks) \in Nat
    BY TasksFinite, FS_Subset, FS_CardinalityType DEF DoneTasks
  <2>. QED BY <1>1, <1>3, <2>1, <2>2 DEF LogMatchesRows
<1>. QED BY <1>2, <1>3 DEF SetInstanceError

LEMMA CompleteLosesNothing ==
  ASSUME IInv, LossNeedsStaleCopy, NEW c \in Completer, Complete(c)
  PROVE  LossNeedsStaleCopy'
<1>. DEFINE t == copy[c].task
            to == Advanced(copy[c].at, t)
            next == <<t[1], t[2] + 1>>
<1>. SUFFICES ASSUME ~ stale', status' \in {"ACTIVE", "ERROR"}
              PROVE  TokenTasks' = OpenTasks' /\ variables' = DoneTasks'
  BY DEF LossNeedsStaleCopy
<1>1. /\ copy[c].at = at /\ copy[c].vars = variables /\ ~ stale
      /\ at' = [at EXCEPT ![t[1]] = @ + 1]
      /\ variables' = variables \cup {t}
  BY DEF Complete, Merged, Advanced, IInv, TypeOK
<1>2. TokenTasks = OpenTasks /\ variables = DoneTasks
  BY <1>1, CompleteRows DEF LossNeedsStaleCopy
<1>3. /\ t \in Task /\ t[1] \in Branch /\ t[2] \in 1 .. Length /\ t = <<t[1], t[2]>>
      /\ at[t[1]] = t[2] /\ at \in [Branch -> Position]
  BY <1>1, CompleteRows, TaskParts DEF IInv, TypeOK
<1>4. at'[t[1]] = t[2] + 1 /\ \A b \in Branch : b # t[1] => at'[b] = at[b]
  BY <1>1, <1>3
<1>5. variables' = DoneTasks'
  BY <1>1, <1>2, <1>3, CompleteRows DEF DoneTasks
<1>6. ASSUME NEW u \in Task PROVE at'[u[1]] = u[2] <=> tasks'[u] = "PENDING"
  <2>1. u[1] \in Branch /\ u[2] \in 1 .. Length /\ u = <<u[1], u[2]>>
    BY TaskParts
  <2>2. at[u[1]] = u[2] <=> tasks[u] = "PENDING"
    BY <1>2 DEF TokenTasks, OpenTasks
  <2>3. CASE u = t
    BY <2>3, <1>3, <1>4, CompleteRows
  <2>4. CASE u = next
    BY <2>1, <2>4, <1>3, <1>4, CompleteRows
  <2>5. CASE u # t /\ u # next /\ u[1] = t[1]
    <3>1. u[2] # t[2] /\ u[2] # t[2] + 1
      BY <2>1, <2>5, <1>3
    <3>. QED BY <3>1, <2>2, <2>5, <1>3, <1>4, CompleteRows
  <2>6. CASE u[1] # t[1]
    <3>1. u # t /\ u # next
      BY <2>6
    <3>. QED BY <3>1, <2>1, <2>2, <2>6, <1>4, CompleteRows
  <2>. QED BY <2>3, <2>4, <2>5, <2>6
<1>. QED BY <1>5, <1>6 DEF TokenTasks, OpenTasks

LEMMA RowsFollow ==
  ASSUME IInv, LogMatchesRows, LossNeedsStaleCopy, [Next]_vars
  PROVE  LogMatchesRows' /\ LossNeedsStaleCopy'
<1>1. ASSUME UNCHANGED <<rows, stale>> PROVE LogMatchesRows' /\ LossNeedsStaleCopy'
  BY <1>1 DEF rows, LogMatchesRows, Occurrences, LossNeedsStaleCopy, TokenTasks, OpenTasks, DoneTasks
<1>2. CASE UNCHANGED vars
  BY <1>1, <1>2 DEF vars
<1>3. ASSUME NEW c \in Completer, Complete(c) PROVE LogMatchesRows' /\ LossNeedsStaleCopy'
  BY <1>3, CompleteCounts, CompleteLosesNothing
<1>4. ASSUME NEW c \in Completer, SetInstanceError(c) PROVE LogMatchesRows' /\ LossNeedsStaleCopy'
  <2>1. LossNeedsStaleCopy'
    BY <1>4 DEF SetInstanceError, LossNeedsStaleCopy, TokenTasks, OpenTasks, DoneTasks
  <2>. QED BY <2>1, <1>4, SetInstanceErrorCounts
<1>5. ASSUME NEW x \in Canceller, Cancel(x) PROVE LogMatchesRows' /\ LossNeedsStaleCopy'
  <2>1. LossNeedsStaleCopy'
    BY <1>5 DEF Cancel, LossNeedsStaleCopy
  <2>. QED BY <2>1, <1>5, CancelCounts
<1>. QED BY <1>1, <1>2, <1>3, <1>4, <1>5
         DEF Next, ReadTask, ReadProjection, Lock, Violation, LockToCancel, Abandon

LEMMA RowsAtFirst == Init => LogMatchesRows /\ LossNeedsStaleCopy
<1>. SUFFICES ASSUME Init PROVE LogMatchesRows /\ LossNeedsStaleCopy
  OBVIOUS
<1>1. DoneTasks = {} /\ variables = {}
  BY DEF Init, DoneTasks
<1>2. \A e \in {"task_completed", "INSTANCE_CANCELLED"} : {i \in DOMAIN log : log[i] = e} = {}
  BY DEF Init
<1>3. LogMatchesRows
  BY <1>1, <1>2, FS_EmptySet DEF LogMatchesRows, Occurrences, Init
<1>4. TokenTasks = OpenTasks
  <2>1. \A t \in Task : t[1] \in Branch /\ t[2] \in 1 .. Length
    BY TaskParts
  <2>. QED BY <2>1, InstanceAssumption DEF Init, TokenTasks, OpenTasks
<1>. QED BY <1>1, <1>3, <1>4 DEF LossNeedsStaleCopy

LEMMA RowsInvariance == Spec => [](LogMatchesRows /\ LossNeedsStaleCopy)
<1>1. IInv /\ LogMatchesRows /\ LossNeedsStaleCopy /\ [Next]_vars
        => LogMatchesRows' /\ LossNeedsStaleCopy'
  BY RowsFollow
<1>. QED BY <1>1, RowsAtFirst, Invariance, PTL DEF Spec

\* The event log tells the rows: as many task_completed events as COMPLETED
\* tasks, and a cancel event for a cancelled instance only.
THEOREM LogCountsRows == Spec => []LogMatchesRows
BY RowsInvariance, PTL

\* As long as no commit is made from an outdated copy, nothing is lost: the
\* tokens stand on the PENDING tasks and the output of every COMPLETED one is kept.
THEOREM OnlyStaleCopiesLose == Spec => []LossNeedsStaleCopy
BY RowsInvariance, PTL

-----------------------------------------------------------------------------
(* The kernel the requests call, for any graph.  transition() works on a   *)
(* copy, so what is known of the persisted state must be known of the copy *)
(* too while a call is under way.                                          *)

\* While nodes are being entered a call is under way, on a copy of this shape.
Calling ==
  /\ agenda # <<>> => call # "idle"
  /\ run = [status |-> run.status, tokens |-> run.tokens, counter |-> run.counter,
            pending |-> run.pending, made |-> run.made]
RunHasToken == call # "idle" /\ run.status = "ACTIVE" => run.tokens # {}

KernelInv ==
  /\ Calling
  /\ ActiveHasToken
  /\ RunHasToken

LEMMA KernelInitially == KernelInit => KernelInv
BY DEF KernelInit, KernelInv, Calling, ActiveHasToken, RunHasToken

\* A token that advances is replaced, never lost.
LEMMA AdvanceKeepsOne ==
  ASSUME NEW tokens, NEW t, NEW n
  PROVE  Advance(tokens, t, n) # {}
BY DEF Advance

-----------------------------------------------------------------------------
(* One lemma for the events: each starts a call on a copy that has a token *)
(* or is not ACTIVE.                                                       *)

LEMMA BeginStep ==
  ASSUME KernelInv, NEW kind, NEW tokens, NEW pending, NEW st, NEW entered,
         kind # "idle",
         st = "ACTIVE" => tokens # {},
         Begin(kind, tokens, pending, st, entered)
  PROVE  KernelInv'
<1>1. inst' = inst /\ run'.tokens = tokens /\ run'.status = st /\ call' # "idle"
  BY DEF Begin
<1>2. Calling'
  BY <1>1 DEF Begin, Calling
<1>. QED BY <1>1, <1>2 DEF KernelInv, ActiveHasToken, RunHasToken

LEMMA EventStep ==
  ASSUME KernelInv,
         \/ InstanceStarted
         \/ \E n \in Node : TaskCompleted(n) \/ ServiceCompleted(n)
                            \/ SubProcessCompleted(n) \/ EffectFailed(n)
  PROVE  KernelInv'
<1>1. CASE InstanceStarted
  BY <1>1, BeginStep DEF InstanceStarted
<1>2. ASSUME NEW kind, kind # "idle", NEW n, NEW pending, NEW candidates,
             Continue(kind, n, pending, candidates)
      PROVE  KernelInv'
  <2>. DEFINE next == Out[n][1]
  <2>1. Begin(kind, Advance(inst.tokens, First(candidates), next), pending, inst.status, <<next>>)
    BY <1>2 DEF Continue
  <2>2. Advance(inst.tokens, First(candidates), next) # {}
    BY AdvanceKeepsOne
  <2>. QED BY <1>2, <2>1, <2>2, BeginStep
<1>3. ASSUME NEW n \in Node, TaskCompleted(n) \/ ServiceCompleted(n) \/ SubProcessCompleted(n)
      PROVE  KernelInv'
  <2>1. n # "idle"
    BY GraphAssumption
  <2>. QED BY <1>2, <1>3, <2>1 DEF TaskCompleted, ServiceCompleted, SubProcessCompleted
<1>4. ASSUME NEW n \in Node, EffectFailed(n)
      PROVE  KernelInv'
  BY <1>4, BeginStep DEF EffectFailed
<1>. QED BY <1>1, <1>3, <1>4

-----------------------------------------------------------------------------
(* One step per kind of node.                                              *)

LEMMA ParkStep ==
  ASSUME KernelInv, NEW n \in Node,
         \/ EnterHumanTask(n) \/ EnterTimer(n) \/ EnterSubProcess(n) \/ EnterServiceTask(n)
         \/ EnterJoinParks(n) \/ EnterOther(n)
  PROVE  KernelInv'
<1>1. agenda # <<>> /\ UNCHANGED <<inst, call>>
  BY DEF EnterHumanTask, EnterTimer, EnterSubProcess, EnterServiceTask, EnterJoinParks,
         EnterOther, Entering, Intend, Park
<1>2. CASE EnterHumanTask(n) \/ EnterJoinParks(n) \/ EnterOther(n) \/ UNCHANGED run
  BY <1>1, <1>2 DEF EnterHumanTask, EnterJoinParks, EnterOther, KernelInv, Calling, ActiveHasToken, RunHasToken
<1>3. ASSUME NEW wanted, Intend(n, wanted)
      PROVE  KernelInv'
  <2>. DEFINE t == First(On(run.tokens, n))
              tokens == (run.tokens \ {t}) \cup {[t EXCEPT !.intents = @ + 1]}
  <2>1. tokens # {}
    OBVIOUS
  <2>2. run' = [run EXCEPT !.tokens = tokens] \/ run' = run
    BY <1>3 DEF Intend
  <2>. HIDE DEF tokens
  <2>. QED BY <1>1, <2>1, <2>2 DEF KernelInv, Calling, ActiveHasToken, RunHasToken
<1>. QED BY <1>2, <1>3 DEF EnterTimer, EnterSubProcess, EnterServiceTask

\* Only a token that stands elsewhere than on an END keeps the instance ACTIVE.
LEMMA EndStep ==
  ASSUME KernelInv, NEW n \in Node, EnterEnd(n)
  PROVE  KernelInv'
BY DEF EnterEnd, Entering, Park, KernelInv, Calling, ActiveHasToken, RunHasToken

LEMMA ExclusiveStep ==
  ASSUME KernelInv, NEW n \in Node, EnterExclusive(n)
  PROVE  KernelInv'
<1>1. PICK i \in DOMAIN Out[n] :
        run' = [run EXCEPT !.tokens = Advance(@, First(On(@, n)), Out[n][i])]
  BY DEF EnterExclusive
<1>2. Advance(run.tokens, First(On(run.tokens, n)), Out[n][i]) # {}
  BY AdvanceKeepsOne
<1>3. agenda # <<>> /\ UNCHANGED <<inst, call>>
  BY DEF EnterExclusive, Entering
<1>. QED BY <1>1, <1>2, <1>3 DEF KernelInv, Calling, ActiveHasToken, RunHasToken

\* A split has at least two edges, so it makes tokens; a join makes one.
LEMMA GatewayStep ==
  ASSUME KernelInv, NEW n \in Node, EnterSplit(n) \/ EnterJoinFires(n)
  PROVE  KernelInv'
<1>1. CASE EnterSplit(n)
  <2>. DEFINE fresh == {Token(run.made + i, Out[n][i], BranchId(n, i)) : i \in DOMAIN Out[n]}
              tokens == (run.tokens \ On(run.tokens, n)) \cup fresh
  <2>1. /\ run' = [run EXCEPT !.tokens = tokens, !.made = @ + Len(Out[n])]
        /\ agenda # <<>> /\ UNCHANGED <<inst, call>>
    BY <1>1 DEF EnterSplit, Entering
  <2>2. Out[n] \in Seq(Node) /\ Len(Out[n]) > 1
    BY <1>1, GraphAssumption DEF EnterSplit, IsSplit
  <2>3. 1 \in DOMAIN Out[n]
    BY <2>2
  <2>4. tokens # {}
    BY <2>3
  <2>. HIDE DEF tokens
  <2>. QED BY <2>1, <2>4 DEF KernelInv, Calling, ActiveHasToken, RunHasToken
<1>2. CASE EnterJoinFires(n)
  <2>. DEFINE here == On(run.tokens, n)
              merged == Token(run.made + 1, Out[n][1], MergedBranch(here))
  <2>1. /\ run' = [run EXCEPT !.tokens = (@ \ here) \cup {merged},
                             !.counter[n] = Cleared(n), !.made = @ + 1]
        /\ agenda # <<>> /\ UNCHANGED <<inst, call>>
    BY <1>2 DEF EnterJoinFires, Entering
  <2>. HIDE DEF here, merged
  <2>. QED BY <2>1 DEF KernelInv, Calling, ActiveHasToken, RunHasToken
<1>. QED BY <1>1, <1>2

-----------------------------------------------------------------------------
\* A committed call hands its tokens over; a failed one changes the status at
\* most, and to ERROR.
LEMMA ReturnStep ==
  ASSUME KernelInv, Persist \/ TokenMissing \/ NoMatchingEdge
  PROVE  KernelInv'
<1>1. CASE Persist
  BY <1>1 DEF Persist, KernelInv, Calling, ActiveHasToken, RunHasToken
<1>2. ASSUME NEW st \in {inst.status, "ERROR"}, Return(st)
      PROVE  KernelInv'
  BY <1>2 DEF Return, KernelInv, Calling, ActiveHasToken, RunHasToken
<1>. QED BY <1>1, <1>2 DEF TokenMissing, NoMatchingEdge

LEMMA KernelInductive == KernelInv /\ [KernelNext]_kernelVars => KernelInv'
<1>. SUFFICES ASSUME KernelInv, [KernelNext]_kernelVars PROVE KernelInv'
  OBVIOUS
<1>1. CASE Enter
  BY <1>1, ParkStep, EndStep, ExclusiveStep, GatewayStep DEF Enter
<1>2. CASE Persist \/ TokenMissing \/ NoMatchingEdge
  BY <1>2, ReturnStep
<1>3. CASE UNCHANGED kernelVars
  BY <1>3 DEF kernelVars, KernelInv, Calling, ActiveHasToken, RunHasToken
<1>. QED BY <1>1, <1>2, <1>3, EventStep DEF KernelNext

\* For every graph, an instance that is ACTIVE holds a token, so some event can
\* still reach it: it is never stranded by the kernel with nothing to wait for.
THEOREM NeverStranded == KernelSpec => []ActiveHasToken
<1>1. KernelInv => ActiveHasToken
  BY DEF KernelInv
<1>. QED BY KernelInitially, KernelInductive, <1>1, PTL DEF KernelSpec

-----------------------------------------------------------------------------
(* The array of tokens, for any graph: no two have one id, so that "the    *)
(* first token on the node" is one token, and the array has an order.      *)

IsToken(t) == t = [id |-> t.id, node |-> t.node, branch |-> t.branch, waiting |-> t.waiting,
                   intents |-> t.intents]

\* Tokens made so far, m in number.
TokensOk(tokens, m) ==
  /\ IsFiniteSet(tokens)
  /\ \A t \in tokens : IsToken(t) /\ t.id \in 1 .. m /\ t.node \in Node
  /\ \A t, u \in tokens : t.id = u.id => t = u

LEMMA RanksFit ==
  ASSUME NEW tokens, NEW m \in Nat, TokensOk(tokens, m), NEW t \in tokens
  PROVE  Rank(tokens, t) \in 1 .. Cardinality(tokens)
<1>. DEFINE below == {u \in tokens : u.id < t.id}
            N == Cardinality(tokens)
<1>1. IsFiniteSet(tokens) /\ N \in Nat
  BY FS_CardinalityType DEF TokensOk
<1>2. IsFiniteSet(below) /\ Cardinality(below) <= N
  BY <1>1, FS_Subset
<1>3. t \notin below
  BY DEF TokensOk
<1>4. Cardinality(below) # N
  BY <1>1, <1>3, FS_Subset
<1>5. Cardinality(below) \in Nat
  BY <1>2, FS_CardinalityType
<1>6. Rank(tokens, t) = Cardinality(below) + 1
  BY DEF Rank
<1>. HIDE DEF below, N
<1>7. Rank(tokens, t) \in 1 .. N
  BY <1>1, <1>2, <1>4, <1>5, <1>6
<1>. QED BY <1>7 DEF N

LEMMA RanksDiffer ==
  ASSUME NEW tokens, NEW m \in Nat, TokensOk(tokens, m), NEW t \in tokens, NEW u \in tokens,
         Rank(tokens, t) = Rank(tokens, u)
  PROVE  t = u
<1>. DEFINE Below(x) == {v \in tokens : v.id < x.id}
<1>1. ASSUME NEW x \in tokens, NEW y \in tokens, x.id < y.id
      PROVE  Rank(tokens, x) # Rank(tokens, y)
  <2>1. /\ Below(x) \subseteq Below(y) /\ x \in Below(y) /\ x \notin Below(x)
    BY <1>1 DEF TokensOk
  <2>2. IsFiniteSet(Below(x)) /\ IsFiniteSet(Below(y))
    BY FS_Subset DEF TokensOk
  <2>3. Cardinality(Below(x)) # Cardinality(Below(y))
    BY <2>1, <2>2, FS_Subset
  <2>4. Cardinality(Below(x)) \in Nat /\ Cardinality(Below(y)) \in Nat
    BY <2>2, FS_CardinalityType
  <2>5. Rank(tokens, x) = Cardinality(Below(x)) + 1 /\ Rank(tokens, y) = Cardinality(Below(y)) + 1
    BY DEF Rank
  <2>. HIDE DEF Below
  <2>. QED BY <2>3, <2>4, <2>5
<1>2. t # u => t.id < u.id \/ u.id < t.id
  BY DEF TokensOk
<1>. QED BY <1>1, <1>2

\* Ranks are distinct and there are as many as tokens, so each place is taken.
LEMMA PlacesTaken ==
  ASSUME NEW tokens, NEW m \in Nat, TokensOk(tokens, m), NEW i \in 1 .. Cardinality(tokens)
  PROVE  \E t \in tokens : Rank(tokens, t) = i
<1>. DEFINE N == Cardinality(tokens)
            f == [t \in tokens |-> Rank(tokens, t)]
<1>1. IsFiniteSet(tokens) /\ N \in Nat
  BY FS_CardinalityType DEF TokensOk
<1>2. f \in Injection(tokens, 1 .. N)
  <2>1. f \in [tokens -> 1 .. N]
    BY RanksFit
  <2>2. \A t, u \in tokens : f[t] = f[u] => t = u
    BY RanksDiffer
  <2>. HIDE DEF f, N
  <2>. QED BY <2>1, <2>2 DEF Injection, IsInjective
<1>3. IsFiniteSet(1 .. N) /\ Cardinality(1 .. N) = N
  BY <1>1, FS_Interval
<1>4. f \in Surjection(tokens, 1 .. N)
  BY <1>1, <1>2, <1>3, FS_Injection
<1>. QED BY <1>4 DEF Surjection

LEMMA ArrayHoldsNodes ==
  ASSUME NEW tokens, NEW m \in Nat, TokensOk(tokens, m)
  PROVE  /\ ArrayOrder(tokens) \in Seq(Node)
         /\ \A i \in DOMAIN ArrayOrder(tokens) : \E t \in tokens : ArrayOrder(tokens)[i] = t.node
<1>1. Cardinality(tokens) \in Nat
  BY FS_CardinalityType DEF TokensOk
<1>2. ASSUME NEW i \in 1 .. Cardinality(tokens)
      PROVE  (CHOOSE t \in tokens : Rank(tokens, t) = i) \in tokens
  BY PlacesTaken
<1>3. \A i \in 1 .. Cardinality(tokens) : \E t \in tokens : ArrayOrder(tokens)[i] = t.node /\ t.node \in Node
  BY <1>2 DEF ArrayOrder, TokensOk
<1>4. DOMAIN ArrayOrder(tokens) = 1 .. Cardinality(tokens)
  BY DEF ArrayOrder
<1>5. ArrayOrder(tokens) = [i \in 1 .. Cardinality(tokens) |-> ArrayOrder(tokens)[i]]
  BY DEF ArrayOrder
<1>. QED BY <1>1, <1>3, <1>4, <1>5

LEMMA NoTokenLeftOut ==
  ASSUME NEW tokens, NEW m \in Nat, TokensOk(tokens, m), NEW t \in tokens
  PROVE  \E i \in DOMAIN ArrayOrder(tokens) : ArrayOrder(tokens)[i] = t.node
<1>. DEFINE i == Rank(tokens, t)
            u == CHOOSE x \in tokens : Rank(tokens, x) = i
<1>1. i \in 1 .. Cardinality(tokens)
  BY RanksFit
<1>2. u \in tokens /\ Rank(tokens, u) = Rank(tokens, t)
  OBVIOUS
<1>. HIDE DEF u
<1>3. u = t
  BY <1>2, RanksDiffer
<1>4. DOMAIN ArrayOrder(tokens) = 1 .. Cardinality(tokens) /\ ArrayOrder(tokens)[i] = u.node
  BY <1>1 DEF ArrayOrder, u
<1>. QED BY <1>1, <1>3, <1>4

LEMMA FirstIsThere ==
  ASSUME NEW tokens, NEW m \in Nat, TokensOk(tokens, m), NEW some \in SUBSET tokens, some # {}
  PROVE  First(some) \in some
<1>1. TokensOk(some, m)
  BY FS_Subset DEF TokensOk
<1>2. Cardinality(some) \in Nat /\ Cardinality(some) # 0
  BY <1>1, FS_CardinalityType, FS_EmptySet DEF TokensOk
<1>3. PICK t \in some : Rank(some, t) = 1
  BY <1>1, <1>2, PlacesTaken
<1>4. {u \in some : u.id < t.id} = {}
  <2>1. IsFiniteSet({u \in some : u.id < t.id})
    BY <1>1, FS_Subset DEF TokensOk
  <2>2. Cardinality({u \in some : u.id < t.id}) = 0
    BY <1>3, <2>1, FS_CardinalityType DEF Rank
  <2>. QED BY <2>1, <2>2, FS_EmptySet
<1>5. \A u \in some : t.id <= u.id
  BY <1>1, <1>4 DEF TokensOk
<1>. QED BY <1>5 DEF First

\* What the kernel does to the array: drop tokens, replace one, add new ones.
LEMMA TokensDropped ==
  ASSUME NEW tokens, NEW m, TokensOk(tokens, m), NEW some \in SUBSET tokens
  PROVE  TokensOk(some, m)
BY FS_Subset DEF TokensOk

LEMMA TokenReplaced ==
  ASSUME NEW tokens, NEW m, TokensOk(tokens, m), NEW t \in tokens, NEW u,
         IsToken(u), u.id = t.id, u.node \in Node
  PROVE  TokensOk((tokens \ {t}) \cup {u}, m)
<1>1. IsFiniteSet((tokens \ {t}) \cup {u})
  BY FS_Subset, FS_AddElement DEF TokensOk
<1>2. \A v \in tokens \ {t} : v.id # u.id
  BY DEF TokensOk
<1>. QED BY <1>1, <1>2 DEF TokensOk

Fresh(m, k, nodes, branches) == {Token(m + i, nodes[i], branches[i]) : i \in 1 .. k}

LEMMA TokensAdded ==
  ASSUME NEW tokens, NEW m \in Nat, TokensOk(tokens, m), NEW k \in Nat, NEW n \in [1 .. k -> Node],
         NEW b
  PROVE  TokensOk(tokens \cup Fresh(m, k, n, b), m + k)
<1>. DEFINE fresh == {Token(m + i, n[i], b[i]) : i \in 1 .. k}
            f == [i \in 1 .. k |-> Token(m + i, n[i], b[i])]
<1>1. f \in Surjection(1 .. k, fresh)
  BY DEF Surjection
<1>2. IsFiniteSet(fresh)
  BY <1>1, FS_Interval, FS_Surjection
<1>3. IsFiniteSet(tokens \cup fresh)
  BY <1>2, FS_Union DEF TokensOk
<1>4. \A i \in 1 .. k : LET t == Token(m + i, n[i], b[i])
                        IN IsToken(t) /\ t.id = m + i /\ t.node = n[i]
  BY DEF Token, IsToken
<1>5. \A t \in tokens : t.id \in 1 .. m /\ t.id \in 1 .. (m + k)
  BY DEF TokensOk
<1>6. \A t \in fresh : \E i \in 1 .. k : t = Token(m + i, n[i], b[i])
  OBVIOUS
<1>7. \A t \in fresh : IsToken(t) /\ t.id \in (m + 1) .. (m + k) /\ t.node \in Node
  BY <1>4, <1>6
<1>8. ASSUME NEW t \in fresh, NEW u \in fresh, t.id = u.id PROVE t = u
  <2>1. PICK i \in 1 .. k : t = Token(m + i, n[i], b[i])
    BY <1>6
  <2>2. PICK j \in 1 .. k : u = Token(m + j, n[j], b[j])
    BY <1>6
  <2>3. i = j
    BY <1>4, <1>8, <2>1, <2>2
  <2>. QED BY <2>1, <2>2, <2>3
<1>. HIDE DEF fresh
<1>9. \A t \in tokens, u \in fresh : t.id # u.id
  BY <1>5, <1>7
<1>10. \A t \in tokens \cup fresh : IsToken(t) /\ t.id \in 1 .. (m + k) /\ t.node \in Node
  BY <1>5, <1>7 DEF TokensOk
<1>11. \A t, u \in tokens \cup fresh : t.id = u.id => t = u
  BY <1>8, <1>9 DEF TokensOk
<1>12. TokensOk(tokens \cup fresh, m + k)
  BY <1>3, <1>10, <1>11 DEF TokensOk
<1>. QED BY <1>12 DEF fresh, Fresh

\* Moving a token on leaves no other task node bare, and the target has a token.
LEMMA AdvanceMoves ==
  ASSUME NEW tokens, NEW m, TokensOk(tokens, m), NEW t \in tokens, NEW n \in Node
  PROVE  /\ TokensOk(Advance(tokens, t, n), m)
         /\ TaskNodes(tokens) \ {t.node} \subseteq TaskNodes(Advance(tokens, t, n))
         /\ Kind[n] = "HUMAN_TASK" => n \in TaskNodes(Advance(tokens, t, n))
<1>1. IsToken(Moved(t, n)) /\ Moved(t, n).id = t.id /\ Moved(t, n).node = n
  <2>1. /\ DOMAIN t = {"id", "node", "branch", "waiting", "intents"}
        /\ t = [x \in DOMAIN t |-> t[x]]
    BY DEF IsToken, TokensOk
  <2>2. /\ Moved(t, n) = [x \in DOMAIN t |-> Moved(t, n)[x]]
        /\ DOMAIN Moved(t, n) = DOMAIN t
        /\ Moved(t, n).id = t.id /\ Moved(t, n).node = n
    BY <2>1 DEF Moved
  <2>. QED BY <2>1, <2>2 DEF IsToken
<1>2. Advance(tokens, t, n) = (tokens \ {t}) \cup {Moved(t, n)}
  BY DEF Advance
<1>3. TokensOk(Advance(tokens, t, n), m)
  BY <1>1, <1>2, TokenReplaced
<1>. QED BY <1>1, <1>2, <1>3 DEF TaskNodes

-----------------------------------------------------------------------------
(* Tasks and tokens, for any graph.  Task rows are written from the nodes  *)
(* visited, tokens from the array; each visited task node has a token,     *)
(* because the agenda holds the node of a token and a token on a task does *)
(* not move within a call.                                                 *)

Held(nodes, tokens) ==
  /\ nodes \in Seq(Node)
  /\ \A i \in DOMAIN nodes : Kind[nodes[i]] = "HUMAN_TASK" => nodes[i] \in TaskNodes(tokens)

CopyOk ==
  /\ run.made \in Nat /\ TokensOk(run.tokens, run.made)
  /\ run.status # "NEW"
  /\ run.pending \subseteq TaskNodes(run.tokens)
  /\ inst.tasks \ {call} \subseteq TaskNodes(run.tokens)
  /\ Held(agenda, run.tokens)

TaskInv ==
  /\ inst = [status |-> inst.status, tokens |-> inst.tokens, counter |-> inst.counter,
             tasks |-> inst.tasks, made |-> inst.made]
  /\ inst.made \in Nat /\ TokensOk(inst.tokens, inst.made)
  /\ inst.tasks \subseteq TaskNodes(inst.tokens)
  /\ inst.status = "NEW" => inst.tasks = {}
  /\ Calling
  /\ call # "idle" => CopyOk

LEMMA TasksAtFirst == KernelInit => TaskInv
<1>. SUFFICES ASSUME KernelInit PROVE TaskInv
  OBVIOUS
<1>1. TokensOk({}, 0)
  BY FS_EmptySet DEF TokensOk
<1>. QED BY <1>1 DEF KernelInit, TaskInv, Calling

LEMMA HeldOne ==
  ASSUME NEW n \in Node, NEW tokens, Kind[n] = "HUMAN_TASK" => n \in TaskNodes(tokens)
  PROVE  Held(<<n>>, tokens)
<1>1. <<n>> \in Seq(Node) /\ DOMAIN <<n>> = {1} /\ <<n>>[1] = n
  OBVIOUS
<1>. QED BY <1>1 DEF Held

LEMMA HeldNone == \A tokens : Held(<<>>, tokens)
<1>1. <<>> \in Seq(Node) /\ DOMAIN <<>> = {}
  OBVIOUS
<1>. QED BY <1>1 DEF Held

LEMMA HeldBehind ==
  ASSUME NEW nodes, NEW front, NEW before, NEW tokens, Held(nodes, before), nodes # <<>>,
         TaskNodes(before) \subseteq TaskNodes(tokens), Held(front, tokens)
  PROVE  Held(front \o Tail(nodes), tokens)
<1>1. nodes \in Seq(Node) /\ front \in Seq(Node) /\ Tail(nodes) \in Seq(Node)
  BY DEF Held
<1>2. ASSUME NEW i \in DOMAIN Tail(nodes), Kind[Tail(nodes)[i]] = "HUMAN_TASK"
      PROVE  Tail(nodes)[i] \in TaskNodes(tokens)
  <2>1. i + 1 \in DOMAIN nodes /\ Tail(nodes)[i] = nodes[i + 1]
    BY <1>1
  <2>. QED BY <1>2, <2>1 DEF Held
<1>3. /\ front \o Tail(nodes) \in Seq(Node)
      /\ \A i \in DOMAIN (front \o Tail(nodes)) :
           \/ i \in DOMAIN front /\ (front \o Tail(nodes))[i] = front[i]
           \/ \E j \in DOMAIN Tail(nodes) : (front \o Tail(nodes))[i] = Tail(nodes)[j]
  <2>1. PICK back \in Seq(Node) : back = Tail(nodes)
    BY <1>1
  <2>2. /\ front \o back \in Seq(Node) /\ DOMAIN front = 1 .. Len(front) /\ DOMAIN back = 1 .. Len(back)
        /\ DOMAIN (front \o back) = 1 .. (Len(front) + Len(back))
        /\ Len(front) \in Nat /\ Len(back) \in Nat
    BY <1>1
  <2>3. \A i \in 1 .. (Len(front) + Len(back)) :
          (front \o back)[i] = IF i <= Len(front) THEN front[i] ELSE back[i - Len(front)]
    BY <1>1
  <2>4. ASSUME NEW i \in DOMAIN (front \o back)
        PROVE  \/ i \in DOMAIN front /\ (front \o back)[i] = front[i]
               \/ \E j \in DOMAIN back : (front \o back)[i] = back[j]
    <3>1. CASE i <= Len(front)
      BY <2>2, <2>3, <3>1
    <3>2. CASE ~ (i <= Len(front))
      <4>1. i - Len(front) \in DOMAIN back
        BY <2>2, <3>2
      <4>. QED BY <2>2, <2>3, <3>2, <4>1
    <3>. QED BY <3>1, <3>2
  <2>. QED BY <2>1, <2>2, <2>4
<1>. QED BY <1>2, <1>3 DEF Held

\* The events.
LEMMA BeginCopies ==
  ASSUME TaskInv, NEW kind, NEW tokens, NEW pending, NEW st, NEW entered,
         Begin(kind, tokens, pending, st, entered), kind # "idle", st # "NEW",
         TokensOk(tokens, IF kind = "start" THEN 1 ELSE inst.made),
         pending \subseteq TaskNodes(tokens),
         inst.tasks \ {kind} \subseteq TaskNodes(tokens),
         Held(entered, tokens)
  PROVE  TaskInv'
<1>1. /\ run' = [status |-> st, tokens |-> tokens, counter |-> inst.counter, pending |-> pending,
                 made |-> IF kind = "start" THEN 1 ELSE inst.made]
      /\ agenda' = entered /\ call' = kind /\ inst' = inst
  BY DEF Begin
<1>2. (IF kind = "start" THEN 1 ELSE inst.made) \in Nat
  BY DEF TaskInv
<1>3. /\ run'.status = st /\ run'.tokens = tokens /\ run'.pending = pending
      /\ run'.made = (IF kind = "start" THEN 1 ELSE inst.made)
  BY <1>1
<1>4. CopyOk'
  BY <1>1, <1>2, <1>3 DEF CopyOk
<1>5. Calling'
  BY <1>1 DEF Calling
<1>. QED BY <1>1, <1>4, <1>5 DEF TaskInv

LEMMA ContinueCopies ==
  ASSUME TaskInv, NEW kind, NEW n \in Node, NEW pending, NEW some \in SUBSET On(inst.tokens, n),
         Continue(kind, n, pending, some), kind \notin {"idle", "start"}, Kind[n] # "END",
         pending \subseteq TaskNodes(inst.tokens) \ {n},
         inst.tasks \ {kind} \subseteq TaskNodes(inst.tokens) \ {n}
  PROVE  TaskInv'
<1>. DEFINE next == Out[n][1]
            t == First(some)
            tokens == Advance(inst.tokens, t, next)
<1>1. inst.status = "ACTIVE" /\ some # {} /\ Begin(kind, tokens, pending, inst.status, <<next>>)
  BY DEF Continue
<1>2. inst.made \in Nat /\ TokensOk(inst.tokens, inst.made) /\ some \subseteq inst.tokens
  BY DEF TaskInv, On
<1>3. t \in some
  BY <1>1, <1>2, FirstIsThere
<1>4. t \in inst.tokens /\ t.node = n
  BY <1>3 DEF On
<1>5. next \in Node
  BY GraphAssumption
<1>. HIDE DEF t, next
<1>6. /\ TokensOk(tokens, inst.made)
      /\ TaskNodes(inst.tokens) \ {n} \subseteq TaskNodes(tokens)
      /\ Kind[next] = "HUMAN_TASK" => next \in TaskNodes(tokens)
  BY <1>2, <1>4, <1>5, AdvanceMoves
<1>. HIDE DEF tokens
<1>7. inst.status # "NEW" /\ (IF kind = "start" THEN 1 ELSE inst.made) = inst.made
  BY <1>1
<1>8. Held(<<next>>, tokens)
  BY <1>5, <1>6, HeldOne
<1>9. pending \subseteq TaskNodes(tokens) /\ inst.tasks \ {kind} \subseteq TaskNodes(tokens)
  BY <1>6
<1>10. TokensOk(tokens, IF kind = "start" THEN 1 ELSE inst.made)
  BY <1>6, <1>7
<1>11. Begin(kind, tokens, pending, inst.status, <<next>>) /\ kind # "idle"
  BY <1>1
<1>. QED BY <1>7, <1>8, <1>9, <1>10, <1>11, BeginCopies

LEMMA EventsCopy ==
  ASSUME TaskInv,
         \/ InstanceStarted
         \/ \E n \in Node : TaskCompleted(n) \/ ServiceCompleted(n)
                            \/ SubProcessCompleted(n) \/ EffectFailed(n)
  PROVE  TaskInv'
<1>1. CASE InstanceStarted
  <2>. DEFINE n == Out[Start][1]
              tokens == {Token(1, n, <<Start, 0>>)}
  <2>1. inst.status = "NEW" /\ Begin("start", tokens, {}, "ACTIVE", <<n>>)
    BY <1>1 DEF InstanceStarted
  <2>2. n \in Node
    BY GraphAssumption
  <2>3. inst.tasks = {}
    BY <2>1 DEF TaskInv
  <2>. HIDE DEF n
  <2>4. PICK t : t = Token(1, n, <<Start, 0>>)
    OBVIOUS
  <2>5. IsToken(t) /\ t.id = 1 /\ t.node = n
    BY <2>4 DEF IsToken, Token
  <2>6. IsFiniteSet({t})
    BY FS_Singleton
  <2>7. TokensOk({t}, 1)
    BY <2>2, <2>5, <2>6 DEF TokensOk
  <2>8. tokens = {t}
    BY <2>4
  <2>9. Kind[n] = "HUMAN_TASK" => n \in TaskNodes({t})
    BY <2>5 DEF TaskNodes
  <2>10. Held(<<n>>, tokens)
    BY <2>2, <2>8, <2>9, HeldOne
  <2>. HIDE DEF tokens
  <2>11. PICK none, entered : none = {} /\ entered = <<n>>
    OBVIOUS
  <2>12. none \subseteq TaskNodes(tokens) /\ inst.tasks \ {"start"} \subseteq TaskNodes(tokens)
    BY <2>3, <2>11
  <2>13. Held(entered, tokens)
    BY <2>10, <2>11
  <2>14. Begin("start", tokens, none, "ACTIVE", entered)
    BY <2>1, <2>11
  <2>15. TokensOk(tokens, IF "start" = "start" THEN 1 ELSE inst.made)
    BY <2>7, <2>8
  <2>. QED BY <2>12, <2>13, <2>14, <2>15, BeginCopies
<1>2. ASSUME NEW n \in Node, TaskCompleted(n) PROVE TaskInv'
  <2>1. n \in TaskNodes(inst.tokens) /\ inst.tasks \subseteq TaskNodes(inst.tokens)
    BY <1>2 DEF TaskCompleted, TaskInv
  <2>2. Kind[n] = "HUMAN_TASK" /\ n \notin {"idle", "start"}
    BY <2>1, GraphAssumption DEF TaskNodes
  <2>. QED BY <1>2, <2>1, <2>2, ContinueCopies DEF TaskCompleted
<1>3. ASSUME NEW n \in Node, ServiceCompleted(n) \/ SubProcessCompleted(n) PROVE TaskInv'
  <2>1. Kind[n] \in {"SERVICE_TASK", "SUB_PROCESS"}
    BY <1>3 DEF ServiceCompleted, SubProcessCompleted
  <2>2. n \notin TaskNodes(inst.tokens) /\ inst.tasks \subseteq TaskNodes(inst.tokens)
    BY <2>1 DEF TaskNodes, TaskInv
  <2>3. PICK some \in SUBSET On(inst.tokens, n) : Continue("other", n, TaskNodes(inst.tokens), some)
    BY <1>3 DEF ServiceCompleted, SubProcessCompleted
  <2>. QED BY <2>1, <2>2, <2>3, ContinueCopies
<1>4. ASSUME NEW n \in Node, EffectFailed(n) PROVE TaskInv'
  <2>. DEFINE tokens == inst.tokens \ On(inst.tokens, n)
  <2>1. Kind[n] = "SERVICE_TASK" /\ Begin("other", tokens, TaskNodes(inst.tokens), "ERROR", <<>>)
    BY <1>4 DEF EffectFailed
  <2>2. TokensOk(tokens, inst.made)
    BY TokensDropped DEF TaskInv
  <2>3. TaskNodes(tokens) = TaskNodes(inst.tokens)
    BY <2>1 DEF TaskNodes, On
  <2>4. inst.tasks \subseteq TaskNodes(inst.tokens)
    BY DEF TaskInv
  <2>. HIDE DEF tokens
  <2>5. TokensOk(tokens, IF "other" = "start" THEN 1 ELSE inst.made)
    BY <2>2
  <2>6. Held(<<>>, tokens)
    BY HeldNone
  <2>7. TaskNodes(inst.tokens) \subseteq TaskNodes(tokens) /\ inst.tasks \ {"other"} \subseteq TaskNodes(tokens)
    BY <2>3, <2>4
  <2>8. Begin("other", tokens, TaskNodes(inst.tokens), "ERROR", <<>>)
    BY <2>1
  <2>. QED BY <2>5, <2>6, <2>7, <2>8, BeginCopies
<1>. QED BY <1>1, <1>2, <1>3, <1>4

\* Entering a node.
LEMMA StepCopies ==
  ASSUME TaskInv, agenda # <<>>, UNCHANGED <<inst, call>>,
         NEW st, NEW tokens, NEW counter, NEW pending, NEW made \in Nat, NEW front,
         run' = [status |-> st, tokens |-> tokens, counter |-> counter, pending |-> pending,
                 made |-> made],
         st # "NEW", TokensOk(tokens, made),
         TaskNodes(run.tokens) \subseteq TaskNodes(tokens), pending \subseteq TaskNodes(tokens),
         agenda' = front \o Tail(agenda), Held(front, tokens)
  PROVE  TaskInv'
<1>1. call # "idle" /\ CopyOk
  BY DEF TaskInv, Calling
<1>2. Held(agenda', tokens)
  BY <1>1, HeldBehind DEF CopyOk
<1>3. /\ run'.status = st /\ run'.tokens = tokens /\ run'.pending = pending /\ run'.made = made
      /\ inst' = inst /\ call' = call
  OBVIOUS
<1>4. inst.tasks \ {call} \subseteq TaskNodes(tokens)
  BY <1>1 DEF CopyOk
<1>5. CopyOk'
  BY <1>2, <1>3, <1>4 DEF CopyOk
<1>6. Calling'
  BY <1>1, <1>3 DEF Calling
<1>. QED BY <1>3, <1>5, <1>6 DEF TaskInv

LEMMA ParkCopies ==
  ASSUME TaskInv, agenda # <<>>, NEW n, Park(n), NEW st, NEW tokens, NEW counter, NEW pending,
         run' = [status |-> st, tokens |-> tokens, counter |-> counter, pending |-> pending,
                 made |-> run.made],
         st # "NEW", TokensOk(tokens, run.made),
         TaskNodes(run.tokens) \subseteq TaskNodes(tokens), pending \subseteq TaskNodes(tokens)
  PROVE  TaskInv'
<1>1. CopyOk
  BY DEF TaskInv, Calling
<1>2. Tail(agenda) \in Seq(Node) /\ run.made \in Nat
  BY <1>1 DEF CopyOk, Held
<1>3. <<>> \o Tail(agenda) = Tail(agenda)
  BY <1>2
<1>4. agenda' = <<>> \o Tail(agenda) /\ UNCHANGED <<inst, call>>
  BY <1>3 DEF Park
<1>. QED BY <1>2, <1>4, HeldNone, StepCopies

LEMMA EndCopies ==
  ASSUME TaskInv, NEW n \in Node, EnterEnd(n)
  PROVE  TaskInv'
<1>. DEFINE rest == run.tokens \ On(run.tokens, n)
<1>1. agenda # <<>> /\ Kind[n] = "END" /\ Park(n)
  BY DEF EnterEnd, Entering
<1>2. Calling /\ CopyOk
  BY <1>1 DEF TaskInv, Calling
<1>3. TaskNodes(rest) = TaskNodes(run.tokens)
  BY <1>1 DEF TaskNodes, On
<1>4. CASE \E t \in rest : Kind[t.node] # "END"
  <2>1. run' = [status |-> run.status, tokens |-> rest, counter |-> run.counter,
                pending |-> run.pending, made |-> run.made]
    BY <1>2, <1>4 DEF EnterEnd, Calling
  <2>2. TokensOk(rest, run.made)
    BY <1>2, TokensDropped DEF CopyOk
  <2>. HIDE DEF rest
  <2>. QED BY <1>1, <1>2, <1>3, <2>1, <2>2, ParkCopies DEF CopyOk
<1>5. CASE ~ (\E t \in rest : Kind[t.node] # "END")
  <2>1. run' = [status |-> "COMPLETED", tokens |-> {}, counter |-> run.counter,
                pending |-> run.pending, made |-> run.made]
    BY <1>2, <1>5 DEF EnterEnd, Calling
  <2>2. TokensOk({}, run.made)
    BY FS_EmptySet DEF TokensOk
  <2>3. TaskNodes(rest) = {}
    BY <1>5 DEF TaskNodes
  <2>4. /\ TaskNodes(run.tokens) \subseteq TaskNodes({}) /\ run.pending \subseteq TaskNodes({})
    BY <1>2, <1>3, <2>3 DEF CopyOk
  <2>5. PICK none : none = {}
    OBVIOUS
  <2>6. /\ TokensOk(none, run.made)
        /\ TaskNodes(run.tokens) \subseteq TaskNodes(none) /\ run.pending \subseteq TaskNodes(none)
        /\ run' = [status |-> "COMPLETED", tokens |-> none, counter |-> run.counter,
                   pending |-> run.pending, made |-> run.made]
    BY <2>1, <2>2, <2>4, <2>5
  <2>. QED BY <1>1, <2>6, ParkCopies
<1>. QED BY <1>4, <1>5

LEMMA TaskCopies ==
  ASSUME TaskInv, NEW n \in Node, EnterHumanTask(n)
  PROVE  TaskInv'
<1>1. agenda # <<>> /\ n = Head(agenda) /\ Kind[n] = "HUMAN_TASK" /\ Park(n)
  BY DEF EnterHumanTask, Entering
<1>2. Calling /\ CopyOk
  BY <1>1 DEF TaskInv, Calling
<1>3. n \in TaskNodes(run.tokens)
  <2>1. agenda \in Seq(Node) /\ 1 \in DOMAIN agenda /\ Head(agenda) = agenda[1]
    BY <1>1, <1>2 DEF CopyOk, Held
  <2>. QED BY <1>1, <1>2, <2>1 DEF CopyOk, Held
<1>4. run' = [status |-> run.status, tokens |-> run.tokens, counter |-> run.counter,
              pending |-> run.pending \cup {n}, made |-> run.made]
  BY <1>2 DEF EnterHumanTask, Calling
<1>. QED BY <1>1, <1>2, <1>3, <1>4, ParkCopies DEF CopyOk

\* An intent is written on the token it is for.
LEMMA Asked ==
  ASSUME NEW tokens, NEW m \in Nat, TokensOk(tokens, m), NEW t \in tokens
  PROVE  LET asked == (tokens \ {t}) \cup {[t EXCEPT !.intents = @ + 1]}
         IN TokensOk(asked, m) /\ TaskNodes(asked) = TaskNodes(tokens)
<1>. DEFINE u == [t EXCEPT !.intents = @ + 1]
<1>1. /\ DOMAIN t = {"id", "node", "branch", "waiting", "intents"}
      /\ t = [x \in DOMAIN t |-> t[x]]
  BY DEF IsToken, TokensOk
<1>2. u = [x \in DOMAIN t |-> u[x]] /\ DOMAIN u = DOMAIN t /\ u.id = t.id /\ u.node = t.node
  BY <1>1
<1>3. IsToken(u)
  BY <1>1, <1>2 DEF IsToken
<1>4. t.node \in Node
  BY DEF TokensOk
<1>. HIDE DEF u
<1>5. TokensOk((tokens \ {t}) \cup {u}, m)
  BY <1>2, <1>3, <1>4, TokenReplaced
<1>6. TaskNodes((tokens \ {t}) \cup {u}) = TaskNodes(tokens)
  BY <1>2 DEF TaskNodes
<1>. QED BY <1>5, <1>6 DEF u

LEMMA IntendCopies ==
  ASSUME TaskInv, NEW n \in Node, NEW wanted, Intend(n, wanted), agenda # <<>>
  PROVE  TaskInv'
<1>. DEFINE t == First(On(run.tokens, n))
            asked == (run.tokens \ {t}) \cup {[t EXCEPT !.intents = @ + 1]}
<1>1. Calling /\ CopyOk
  BY DEF TaskInv, Calling
<1>2. t \in On(run.tokens, n) /\ On(run.tokens, n) \subseteq run.tokens
  <2>1. On(run.tokens, n) \in SUBSET run.tokens /\ On(run.tokens, n) # {}
    BY DEF On, Intend
  <2>. QED BY <1>1, <2>1, FirstIsThere DEF CopyOk
<1>. HIDE DEF t
<1>3. TokensOk(asked, run.made) /\ TaskNodes(asked) = TaskNodes(run.tokens)
  BY <1>1, <1>2, Asked DEF CopyOk
<1>4. Park(n) /\ (run' = [run EXCEPT !.tokens = asked] \/ run' = run)
  BY DEF Intend, t
<1>. HIDE DEF asked
<1>5. CASE run' = [run EXCEPT !.tokens = asked]
  <2>1. run' = [status |-> run.status, tokens |-> asked, counter |-> run.counter,
                pending |-> run.pending, made |-> run.made]
    BY <1>1, <1>5 DEF Calling
  <2>. QED BY <1>1, <1>3, <1>4, <2>1, ParkCopies DEF CopyOk
<1>6. CASE run' = run
  <2>1. run' = [status |-> run.status, tokens |-> run.tokens, counter |-> run.counter,
                pending |-> run.pending, made |-> run.made]
    BY <1>1, <1>6 DEF Calling
  <2>. QED BY <1>1, <1>4, <2>1, ParkCopies DEF CopyOk
<1>. QED BY <1>4, <1>5, <1>6

LEMMA WaitCopies ==
  ASSUME TaskInv, NEW n \in Node,
         EnterTimer(n) \/ EnterSubProcess(n) \/ EnterServiceTask(n) \/ EnterJoinParks(n)
           \/ EnterOther(n)
  PROVE  TaskInv'
<1>1. agenda # <<>>
  BY DEF EnterTimer, EnterSubProcess, EnterServiceTask, EnterJoinParks, EnterOther, Entering
<1>2. Calling /\ CopyOk
  BY <1>1 DEF TaskInv, Calling
<1>3. ASSUME NEW wanted, Intend(n, wanted) PROVE TaskInv'
  BY <1>1, <1>3, IntendCopies
<1>4. CASE EnterJoinParks(n) \/ EnterOther(n) \/ (UNCHANGED run /\ Park(n))
  <2>1. PICK counter : run' = [status |-> run.status, tokens |-> run.tokens, counter |-> counter,
                               pending |-> run.pending, made |-> run.made]
    BY <1>2, <1>4 DEF EnterJoinParks, EnterOther, Calling
  <2>2. Park(n)
    BY <1>4 DEF EnterJoinParks, EnterOther
  <2>. QED BY <1>1, <1>2, <2>1, <2>2, ParkCopies DEF CopyOk
<1>. QED BY <1>3, <1>4 DEF EnterTimer, EnterSubProcess, EnterServiceTask

LEMMA ExclusiveCopies ==
  ASSUME TaskInv, NEW n \in Node, EnterExclusive(n)
  PROVE  TaskInv'
<1>1. /\ agenda # <<>> /\ Kind[n] = "EXCLUSIVE_GATEWAY" /\ On(run.tokens, n) # {}
      /\ UNCHANGED <<inst, call>>
  BY DEF EnterExclusive, Entering
<1>2. Calling /\ CopyOk
  BY <1>1 DEF TaskInv, Calling
<1>3. PICK i \in DOMAIN Out[n] :
        /\ run' = [run EXCEPT !.tokens = Advance(@, First(On(@, n)), Out[n][i])]
        /\ agenda' = <<Out[n][i]>> \o Tail(agenda)
  BY DEF EnterExclusive
<1>. DEFINE next == Out[n][i]
            t == First(On(run.tokens, n))
            tokens == Advance(run.tokens, t, next)
<1>4. next \in Node
  BY GraphAssumption
<1>5. t \in run.tokens /\ t.node = n
  <2>1. On(run.tokens, n) \in SUBSET run.tokens
    BY DEF On
  <2>2. t \in On(run.tokens, n)
    BY <1>1, <1>2, <2>1, FirstIsThere DEF CopyOk
  <2>. QED BY <2>2 DEF On
<1>6. run' = [status |-> run.status, tokens |-> tokens, counter |-> run.counter,
              pending |-> run.pending, made |-> run.made]
  BY <1>2, <1>3 DEF Calling
<1>7. agenda' = <<next>> \o Tail(agenda)
  BY <1>3
<1>. HIDE DEF t, next
<1>8. /\ TokensOk(tokens, run.made)
      /\ TaskNodes(run.tokens) \ {n} \subseteq TaskNodes(tokens)
      /\ Kind[next] = "HUMAN_TASK" => next \in TaskNodes(tokens)
  BY <1>2, <1>4, <1>5, AdvanceMoves DEF CopyOk
<1>9. n \notin TaskNodes(run.tokens)
  BY <1>1 DEF TaskNodes
<1>. HIDE DEF tokens
<1>10. Held(<<next>>, tokens)
  BY <1>4, <1>8, HeldOne
<1>. QED BY <1>1, <1>2, <1>6, <1>7, <1>8, <1>9, <1>10, StepCopies DEF CopyOk

\* Every node a split enters is the node of a token that is there.
LEMMA SplitCopies ==
  ASSUME TaskInv, NEW n \in Node, EnterSplit(n)
  PROVE  TaskInv'
<1>. DEFINE k == Len(Out[n])
            m == run.made
            rest == run.tokens \ On(run.tokens, n)
            b == [i \in 1 .. k |-> BranchId(n, i)]
            tokens == rest \cup Fresh(m, k, Out[n], b)
            left == {t \in tokens : t.node # n}
<1>1. /\ agenda # <<>> /\ Kind[n] = "PARALLEL_GATEWAY" /\ UNCHANGED <<inst, call>>
  BY DEF EnterSplit, Entering
<1>2. Calling /\ CopyOk
  BY <1>1 DEF TaskInv, Calling
<1>3. /\ Out[n] \in [1 .. k -> Node] /\ k \in Nat /\ DOMAIN Out[n] = 1 .. k /\ m \in Nat
  BY <1>2, GraphAssumption DEF CopyOk
<1>4. {Token(m + i, Out[n][i], BranchId(n, i)) : i \in DOMAIN Out[n]}
        = Fresh(m, k, Out[n], b)
  BY <1>3 DEF Fresh
<1>5. /\ run' = [run EXCEPT !.tokens = tokens, !.made = @ + k]
      /\ agenda' = ArrayOrder(left) \o Tail(agenda)
  BY <1>4 DEF EnterSplit, EnteredAfterSplit
<1>. HIDE DEF k, b
<1>6. TokensOk(rest, m)
  BY <1>2, TokensDropped DEF CopyOk
<1>7. TokensOk(tokens, m + k)
  BY <1>3, <1>6, TokensAdded
<1>8. TaskNodes(run.tokens) \subseteq TaskNodes(rest) /\ TaskNodes(rest) \subseteq TaskNodes(tokens)
  BY <1>1 DEF TaskNodes, On
<1>9. run' = [status |-> run.status, tokens |-> tokens, counter |-> run.counter,
              pending |-> run.pending, made |-> m + k]
  BY <1>2, <1>5 DEF Calling
<1>. HIDE DEF tokens, m
<1>10. m + k \in Nat
  BY <1>3
<1>11. TokensOk(left, m + k)
  BY <1>7, TokensDropped
<1>12. Held(ArrayOrder(left), tokens)
  <2>1. /\ ArrayOrder(left) \in Seq(Node)
        /\ \A i \in DOMAIN ArrayOrder(left) : \E t \in left : ArrayOrder(left)[i] = t.node
    BY <1>10, <1>11, ArrayHoldsNodes
  <2>. QED BY <2>1 DEF Held, TaskNodes
<1>. HIDE DEF left, rest
<1>. QED BY <1>1, <1>2, <1>5, <1>7, <1>8, <1>9, <1>10, <1>12, StepCopies DEF CopyOk

LEMMA JoinCopies ==
  ASSUME TaskInv, NEW n \in Node, EnterJoinFires(n)
  PROVE  TaskInv'
<1>. DEFINE m == run.made
            here == On(run.tokens, n)
            rest == run.tokens \ here
            next == Out[n][1]
            b == [i \in 1 .. 1 |-> MergedBranch(here)]
            target == [i \in 1 .. 1 |-> next]
            tokens == rest \cup Fresh(m, 1, target, b)
<1>1. /\ agenda # <<>> /\ Kind[n] = "PARALLEL_GATEWAY" /\ UNCHANGED <<inst, call>>
  BY DEF EnterJoinFires, Entering
<1>2. Calling /\ CopyOk
  BY <1>1 DEF TaskInv, Calling
<1>3. next \in Node /\ target \in [1 .. 1 -> Node] /\ m \in Nat
  BY <1>1, <1>2, GraphAssumption DEF CopyOk
<1>4. Fresh(m, 1, target, b) = {Token(m + 1, next, MergedBranch(here))}
  <2>1. 1 .. 1 = {1} /\ target[1] = next /\ b[1] = MergedBranch(here)
    OBVIOUS
  <2>. HIDE DEF target, b, next, here, m
  <2>. QED BY <2>1 DEF Fresh
<1>5. /\ run' = [run EXCEPT !.tokens = tokens, !.counter[n] = Cleared(n), !.made = @ + 1]
      /\ agenda' = <<next>> \o Tail(agenda)
  BY <1>4 DEF EnterJoinFires
<1>6. TokensOk(rest, m)
  BY <1>2, TokensDropped DEF CopyOk
<1>. HIDE DEF target, b
<1>7. TokensOk(tokens, m + 1)
  BY <1>3, <1>6, TokensAdded
<1>8. TaskNodes(run.tokens) \subseteq TaskNodes(rest) /\ TaskNodes(rest) \subseteq TaskNodes(tokens)
  BY <1>1 DEF TaskNodes, On
<1>9. PICK fired : fired = Token(m + 1, next, MergedBranch(here))
  OBVIOUS
<1>10. fired.node = next
  BY <1>9 DEF Token
<1>11. fired \in tokens
  BY <1>4, <1>9
<1>. HIDE DEF tokens, m
<1>12. Kind[next] = "HUMAN_TASK" => next \in TaskNodes(tokens)
  BY <1>10, <1>11 DEF TaskNodes
<1>13. Held(<<next>>, tokens)
  BY <1>3, <1>12, HeldOne
<1>14. run' = [status |-> run.status, tokens |-> tokens, counter |-> run'.counter,
               pending |-> run.pending, made |-> m + 1]
  BY <1>2, <1>5 DEF Calling, m
<1>15. PICK counter : run' = [status |-> run.status, tokens |-> tokens, counter |-> counter,
                              pending |-> run.pending, made |-> m + 1]
  BY <1>14
<1>16. m + 1 \in Nat
  BY <1>3
<1>17. agenda' = <<next>> \o Tail(agenda)
  BY <1>5
<1>. HIDE DEF next, rest, here
<1>18. TaskNodes(run.tokens) \subseteq TaskNodes(tokens) /\ run.pending \subseteq TaskNodes(tokens)
  BY <1>2, <1>8 DEF CopyOk
<1>19. run.status # "NEW"
  BY <1>2 DEF CopyOk
<1>. QED BY <1>1, <1>7, <1>13, <1>15, <1>16, <1>17, <1>18, <1>19, StepCopies

\* What the caller commits.
LEMMA PersistKeeps ==
  ASSUME TaskInv, Persist
  PROVE  TaskInv'
<1>. DEFINE S == {Waiting(t) : t \in run.tokens}
            f == [t \in run.tokens |-> Waiting(t)]
<1>1. CopyOk /\ call # "idle"
  BY DEF TaskInv, Persist
<1>2. IsFiniteSet(S)
  <2>1. f \in Surjection(run.tokens, S)
    BY DEF Surjection
  <2>. QED BY <1>1, <2>1, FS_Surjection DEF CopyOk, TokensOk
<1>3. ASSUME NEW t \in run.tokens
      PROVE  IsToken(Waiting(t)) /\ Waiting(t).id = t.id /\ Waiting(t).node = t.node
  <2>1. /\ DOMAIN t = {"id", "node", "branch", "waiting", "intents"}
        /\ t = [x \in DOMAIN t |-> t[x]]
    BY <1>1 DEF CopyOk, IsToken, TokensOk
  <2>2. PICK w : Waiting(t) = [t EXCEPT !.waiting = w]
    BY DEF Waiting
  <2>3. /\ Waiting(t) = [x \in DOMAIN t |-> Waiting(t)[x]]
        /\ DOMAIN Waiting(t) = DOMAIN t
        /\ Waiting(t).id = t.id /\ Waiting(t).node = t.node
    BY <2>1, <2>2
  <2>. QED BY <2>1, <2>3 DEF IsToken
<1>4. \A u \in S : \E t \in run.tokens : u = Waiting(t)
  OBVIOUS
<1>5. TokensOk(S, run.made)
  <2>1. \A u \in S : IsToken(u) /\ u.id \in 1 .. run.made /\ u.node \in Node
    BY <1>1, <1>3, <1>4 DEF CopyOk, TokensOk
  <2>2. ASSUME NEW u \in S, NEW v \in S, u.id = v.id PROVE u = v
    <3>1. PICK t \in run.tokens : u = Waiting(t)
      BY <1>4
    <3>2. PICK x \in run.tokens : v = Waiting(x)
      BY <1>4
    <3>3. t = x
      BY <1>1, <1>3, <2>2, <3>1, <3>2 DEF CopyOk, TokensOk
    <3>. QED BY <3>1, <3>2, <3>3
  <2>. HIDE DEF S
  <2>. QED BY <1>2, <2>1, <2>2 DEF TokensOk
<1>6. TaskNodes(run.tokens) \subseteq TaskNodes(S)
  <2>1. \A t \in run.tokens : Waiting(t) \in S
    OBVIOUS
  <2>. HIDE DEF S
  <2>. QED BY <1>3, <2>1 DEF TaskNodes
<1>7. /\ inst' = [status |-> run.status, tokens |-> S, counter |-> run.counter,
                  tasks |-> (inst.tasks \ {call}) \cup (run.pending \ OldTaskNodes),
                  made |-> run.made]
      /\ call' = "idle" /\ run' = run /\ agenda' = agenda /\ agenda = <<>>
  BY DEF Persist
<1>. HIDE DEF S
<1>8. /\ inst'.status = run.status /\ inst'.tokens = S /\ inst'.counter = run.counter
      /\ inst'.tasks = (inst.tasks \ {call}) \cup (run.pending \ OldTaskNodes)
      /\ inst'.made = run.made
  BY <1>7
<1>9. inst'.tasks \subseteq TaskNodes(S)
  BY <1>1, <1>6, <1>8 DEF CopyOk
<1>10. Calling'
  BY <1>7 DEF Calling, TaskInv
<1>. QED BY <1>1, <1>5, <1>7, <1>8, <1>9, <1>10 DEF TaskInv, CopyOk

LEMMA ReturnKeeps ==
  ASSUME TaskInv, TokenMissing \/ NoMatchingEdge
  PROVE  TaskInv'
<1>1. PICK st : Return(st) /\ (st = inst.status \/ st = "ERROR")
  BY DEF TokenMissing, NoMatchingEdge
<1>2. /\ inst' = [status |-> st, tokens |-> inst.tokens, counter |-> inst.counter,
                  tasks |-> inst.tasks, made |-> inst.made]
      /\ agenda' = <<>> /\ call' = "idle" /\ run' = run
  BY <1>1 DEF Return, TaskInv
<1>3. Calling'
  BY <1>2 DEF Calling, TaskInv
<1>. QED BY <1>1, <1>2, <1>3 DEF TaskInv

LEMMA TasksInductive == TaskInv /\ [KernelNext]_kernelVars => TaskInv'
<1>. SUFFICES ASSUME TaskInv, [KernelNext]_kernelVars PROVE TaskInv'
  OBVIOUS
<1>1. CASE Enter
  BY <1>1, EndCopies, TaskCopies, WaitCopies, ExclusiveCopies, SplitCopies, JoinCopies DEF Enter
<1>2. CASE UNCHANGED kernelVars
  BY <1>2 DEF kernelVars, TaskInv, CopyOk, Calling
<1>. QED BY <1>1, <1>2, EventsCopy, PersistKeeps, ReturnKeeps DEF KernelNext

\* The half of TasksMatchTokens that no graph breaks: there is never a task row
\* for a node on which no token waits, so no user completes what nobody awaits.
NoTaskWithoutToken == inst.tasks \subseteq TaskNodes(inst.tokens)

THEOREM EveryTaskHasItsToken == KernelSpec => []NoTaskWithoutToken
<1>1. TaskInv => NoTaskWithoutToken
  BY DEF TaskInv, NoTaskWithoutToken
<1>. QED BY TasksAtFirst, TasksInductive, <1>1, PTL DEF KernelSpec

\* No two tokens of an instance have one id, so "the first token on the node"
\* always names one of them.
IdsNameTokens == \A t, u \in inst.tokens : t.id = u.id => t = u

THEOREM TokenIdsAreKeys == KernelSpec => []IdsNameTokens
<1>1. TaskInv => IdsNameTokens
  BY DEF TaskInv, TokensOk, IdsNameTokens
<1>. QED BY TasksAtFirst, TasksInductive, <1>1, PTL DEF KernelSpec

-----------------------------------------------------------------------------
(* The other half, for any graph.  Rows are written for the nodes that are  *)
(* pending after a call and were not before; two things make that miss a   *)
(* token, and nothing else does.                                           *)

\* No call enters the task it completes (no choice leads back to it at once).
NotEnteredAgain ==
  agenda # <<>> /\ Kind[Head(agenda)] = "HUMAN_TASK" => Head(agenda) # call

\* No two branches wait on one task.
AloneOnTask ==
  \A t, u \in inst.tokens : Kind[t.node] = "HUMAN_TASK" /\ t.node = u.node => t = u

Entered(nodes) == {nodes[i] : i \in DOMAIN nodes}

\* Every token on a task has a row that will stay, or will be given one.
RowsOwed ==
  /\ call # "start" => TaskNodes(inst.tokens) \subseteq inst.tasks
  /\ call \notin run.pending
  /\ TaskNodes(run.tokens) \subseteq (inst.tasks \ {call}) \cup run.pending \cup Entered(agenda)

RowInv ==
  /\ inst.status = "ACTIVE" => TaskNodes(inst.tokens) \subseteq inst.tasks
  /\ call # "idle" => RowsOwed

LEMMA TasksFollowAtFirst == KernelInit => RowInv
<1>1. KernelInit => inst.status # "ACTIVE" /\ call = "idle"
  BY DEF KernelInit
<1>. QED BY <1>1 DEF RowInv

LEMMA EnteredOne == \A n : Entered(<<n>>) = {n}
<1>. TAKE n
<1>1. DOMAIN <<n>> = {1} /\ <<n>>[1] = n
  OBVIOUS
<1>. QED BY <1>1 DEF Entered

LEMMA EnteredBehind ==
  ASSUME NEW nodes \in Seq(Node), nodes # <<>>, NEW front \in Seq(Node)
  PROVE  /\ Entered(front) \subseteq Entered(front \o Tail(nodes))
         /\ Entered(nodes) \ {Head(nodes)} \subseteq Entered(front \o Tail(nodes))
<1>0. Tail(nodes) \in Seq(Node)
  OBVIOUS
<1>1. PICK back \in Seq(Node) : back = Tail(nodes)
  BY <1>0
<1>2. /\ DOMAIN front = 1 .. Len(front) /\ DOMAIN back = 1 .. Len(back)
      /\ DOMAIN (front \o back) = 1 .. (Len(front) + Len(back))
      /\ Len(front) \in Nat /\ Len(back) \in Nat
  OBVIOUS
<1>3. \A i \in 1 .. (Len(front) + Len(back)) :
        (front \o back)[i] = IF i <= Len(front) THEN front[i] ELSE back[i - Len(front)]
  OBVIOUS
<1>4. Entered(front) \subseteq Entered(front \o back)
  BY <1>2, <1>3 DEF Entered
<1>5. ASSUME NEW j \in DOMAIN back PROVE back[j] \in Entered(front \o back)
  <2>1. Len(front) + j \in DOMAIN (front \o back) /\ (front \o back)[Len(front) + j] = back[j]
    BY <1>2, <1>3
  <2>. QED BY <2>1 DEF Entered
<1>6. ASSUME NEW i \in DOMAIN nodes, nodes[i] # Head(nodes)
      PROVE  nodes[i] \in Entered(front \o back)
  <2>1. i # 1 /\ i - 1 \in DOMAIN back /\ back[i - 1] = nodes[i]
    BY <1>1, <1>6
  <2>. QED BY <1>5, <2>1
<1>7. Entered(nodes) \ {Head(nodes)} \subseteq Entered(front \o back)
  BY <1>6 DEF Entered
<1>. QED BY <1>1, <1>4, <1>7

\* The events.
LEMMA BeginRows ==
  ASSUME RowInv, NEW kind, NEW tokens, NEW pending, NEW st, NEW entered,
         Begin(kind, tokens, pending, st, entered), kind = "start" \/ inst.status = "ACTIVE",
         kind \notin pending,
         TaskNodes(tokens) \subseteq (inst.tasks \ {kind}) \cup pending \cup Entered(entered)
  PROVE  RowInv'
<1>1. /\ run'.tokens = tokens /\ run'.pending = pending
      /\ agenda' = entered /\ call' = kind /\ inst' = inst
  BY DEF Begin
<1>2. RowsOwed'
  BY <1>1 DEF RowsOwed, RowInv
<1>. QED BY <1>1, <1>2 DEF RowInv

LEMMA ContinueRows ==
  ASSUME TaskInv, RowInv, NEW kind, NEW n \in Node, NEW pending, NEW some \in SUBSET On(inst.tokens, n),
         Continue(kind, n, pending, some), kind # "start", kind \notin pending,
         \A t \in some : TaskNodes(inst.tokens \ {t}) \subseteq pending
  PROVE  RowInv'
<1>. DEFINE next == Out[n][1]
            t == First(some)
            tokens == Advance(inst.tokens, t, next)
<1>1. inst.status = "ACTIVE" /\ some # {} /\ Begin(kind, tokens, pending, inst.status, <<next>>)
  BY DEF Continue
<1>2. inst.made \in Nat /\ TokensOk(inst.tokens, inst.made) /\ some \subseteq inst.tokens
  BY DEF TaskInv, On
<1>3. t \in some /\ t \in inst.tokens
  BY <1>1, <1>2, FirstIsThere
<1>. HIDE DEF t, next
<1>4. Moved(t, next).node = next
  BY <1>2, <1>3 DEF Moved, TokensOk, IsToken
<1>5. TaskNodes(tokens) \subseteq TaskNodes(inst.tokens \ {t}) \cup {next}
  BY <1>4 DEF TaskNodes, Advance
<1>6. TaskNodes(tokens) \subseteq pending \cup Entered(<<next>>)
  BY <1>3, <1>5, EnteredOne
<1>. HIDE DEF tokens
<1>. QED BY <1>1, <1>6, BeginRows

LEMMA EventRows ==
  ASSUME TaskInv, RowInv, AloneOnTask,
         \/ InstanceStarted
         \/ \E n \in Node : TaskCompleted(n) \/ ServiceCompleted(n)
                            \/ SubProcessCompleted(n) \/ EffectFailed(n)
  PROVE  RowInv'
<1>0. TokensOk(inst.tokens, inst.made) /\ TaskNodes(inst.tokens) \subseteq Node
  BY DEF TaskInv, TokensOk, TaskNodes
<1>1. CASE InstanceStarted
  <2>. DEFINE n == Out[Start][1]
  <2>1. PICK t : t = Token(1, n, <<Start, 0>>)
    OBVIOUS
  <2>2. Begin("start", {t}, {}, "ACTIVE", <<n>>)
    BY <1>1, <2>1 DEF InstanceStarted
  <2>3. t.node = n
    BY <2>1 DEF Token
  <2>. HIDE DEF n
  <2>4. PICK tokens, entered, none : tokens = {t} /\ entered = <<n>> /\ none = {}
    OBVIOUS
  <2>5. TaskNodes(tokens) \subseteq Entered(entered)
    BY <2>3, <2>4, EnteredOne DEF TaskNodes
  <2>6. Begin("start", tokens, none, "ACTIVE", entered) /\ "start" \notin none
    BY <2>2, <2>4
  <2>. QED BY <2>5, <2>6, BeginRows
<1>2. ASSUME NEW n \in Node, TaskCompleted(n) PROVE RowInv'
  <2>1. /\ n \in inst.tasks
        /\ Continue(n, n, TaskNodes(inst.tokens) \ {n}, On(inst.tokens, n))
    BY <1>2 DEF TaskCompleted
  <2>2. Kind[n] = "HUMAN_TASK" /\ n # "start"
    BY <2>1, GraphAssumption DEF TaskInv, TaskNodes
  <2>3. ASSUME NEW t \in On(inst.tokens, n)
        PROVE  TaskNodes(inst.tokens \ {t}) \subseteq TaskNodes(inst.tokens) \ {n}
    BY <2>2 DEF TaskNodes, On, AloneOnTask
  <2>. QED BY <2>1, <2>2, <2>3, ContinueRows
<1>3. ASSUME NEW n \in Node, ServiceCompleted(n) \/ SubProcessCompleted(n) PROVE RowInv'
  <2>1. PICK some \in SUBSET On(inst.tokens, n) : Continue("other", n, TaskNodes(inst.tokens), some)
    BY <1>3 DEF ServiceCompleted, SubProcessCompleted
  <2>2. "other" \notin TaskNodes(inst.tokens)
    BY <1>0, GraphAssumption
  <2>3. \A t \in some : TaskNodes(inst.tokens \ {t}) \subseteq TaskNodes(inst.tokens)
    BY DEF TaskNodes
  <2>. QED BY <2>1, <2>2, <2>3, ContinueRows
<1>4. ASSUME NEW n \in Node, EffectFailed(n) PROVE RowInv'
  <2>. DEFINE tokens == inst.tokens \ On(inst.tokens, n)
  <2>1. inst.status = "ACTIVE" /\ Begin("other", tokens, TaskNodes(inst.tokens), "ERROR", <<>>)
    BY <1>4 DEF EffectFailed
  <2>2. "other" \notin TaskNodes(inst.tokens)
    BY <1>0, GraphAssumption
  <2>3. TaskNodes(tokens) \subseteq TaskNodes(inst.tokens)
    BY DEF TaskNodes
  <2>. HIDE DEF tokens
  <2>. QED BY <2>1, <2>2, <2>3, BeginRows
<1>. QED BY <1>1, <1>2, <1>3, <1>4

\* Entering a node.
LEMMA StepRows ==
  ASSUME TaskInv, RowInv, agenda # <<>>, UNCHANGED <<inst, call>>,
         NEW tokens, NEW pending, NEW front \in Seq(Node),
         run'.tokens = tokens, run'.pending = pending,
         TaskNodes(tokens) \subseteq TaskNodes(run.tokens) \cup Entered(front),
         run.pending \subseteq pending, call \notin pending,
         Kind[Head(agenda)] = "HUMAN_TASK" => Head(agenda) \in pending,
         agenda' = front \o Tail(agenda)
  PROVE  RowInv'
<1>1. call # "idle" /\ agenda \in Seq(Node)
  BY DEF TaskInv, Calling, CopyOk, Held
<1>2. RowsOwed
  BY <1>1 DEF RowInv
<1>3. /\ Entered(front) \subseteq Entered(agenda')
      /\ Entered(agenda) \ {Head(agenda)} \subseteq Entered(agenda')
  BY <1>1, EnteredBehind
<1>4. ASSUME NEW n \in TaskNodes(tokens)
      PROVE  n \in (inst.tasks \ {call}) \cup pending \cup Entered(agenda')
  <2>1. CASE n \in Entered(front)
    BY <1>3, <2>1
  <2>2. CASE n \in (inst.tasks \ {call}) \cup run.pending
    BY <2>2
  <2>3. CASE n \in Entered(agenda) \ {Head(agenda)}
    BY <1>3, <2>3
  <2>4. CASE n = Head(agenda)
    BY <2>4 DEF TaskNodes
  <2>. QED BY <1>2, <2>1, <2>2, <2>3, <2>4 DEF RowsOwed
<1>5. RowsOwed'
  BY <1>2, <1>4 DEF RowsOwed
<1>. QED BY <1>5 DEF RowInv

LEMMA ParkRows ==
  ASSUME TaskInv, RowInv, agenda # <<>>, NEW n, Park(n), NEW tokens, NEW pending,
         run'.tokens = tokens, run'.pending = pending,
         TaskNodes(tokens) \subseteq TaskNodes(run.tokens),
         run.pending \subseteq pending, call \notin pending,
         Kind[Head(agenda)] = "HUMAN_TASK" => Head(agenda) \in pending
  PROVE  RowInv'
<1>1. agenda \in Seq(Node)
  BY DEF TaskInv, Calling, CopyOk, Held
<1>0. <<>> \in Seq(Node)
  OBVIOUS
<1>2. PICK front \in Seq(Node) : front = <<>>
  BY <1>0
<1>3. front \o Tail(agenda) = Tail(agenda)
  BY <1>1, <1>2
<1>4. agenda' = front \o Tail(agenda) /\ UNCHANGED <<inst, call>>
  BY <1>3 DEF Park
<1>. QED BY <1>4, StepRows

LEMMA ParkedRows ==
  ASSUME TaskInv, RowInv, NEW n \in Node,
         \/ EnterEnd(n) \/ EnterTimer(n) \/ EnterSubProcess(n) \/ EnterServiceTask(n)
         \/ EnterJoinParks(n) \/ EnterOther(n)
  PROVE  RowInv'
<1>1. agenda # <<>> /\ Head(agenda) = n /\ Kind[n] # "HUMAN_TASK" /\ Park(n)
  BY DEF EnterEnd, EnterTimer, EnterSubProcess, EnterServiceTask, EnterJoinParks, EnterOther,
         Entering, Intend
<1>2. Calling /\ CopyOk /\ RowsOwed
  BY <1>1 DEF TaskInv, RowInv, Calling
<1>3. CASE EnterEnd(n)
  <2>1. run'.tokens \subseteq run.tokens /\ run'.pending = run.pending
    BY <1>2, <1>3 DEF EnterEnd, Calling
  <2>2. TaskNodes(run'.tokens) \subseteq TaskNodes(run.tokens)
    BY <2>1 DEF TaskNodes
  <2>. QED BY <1>1, <1>2, <2>1, <2>2, ParkRows DEF RowsOwed
<1>4. ASSUME NEW wanted, Intend(n, wanted)
      PROVE  RowInv'
  <2>. DEFINE t == First(On(run.tokens, n))
              asked == (run.tokens \ {t}) \cup {[t EXCEPT !.intents = @ + 1]}
  <2>1. t \in On(run.tokens, n) /\ On(run.tokens, n) \subseteq run.tokens
    <3>1. On(run.tokens, n) \in SUBSET run.tokens /\ On(run.tokens, n) # {}
      BY <1>4 DEF On, Intend
    <3>. QED BY <1>2, <3>1, FirstIsThere DEF CopyOk
  <2>2. run' = [run EXCEPT !.tokens = asked] \/ run' = run
    BY <1>4 DEF Intend
  <2>. HIDE DEF t
  <2>3. TaskNodes(asked) = TaskNodes(run.tokens)
    BY <1>2, <2>1, Asked DEF CopyOk
  <2>. HIDE DEF asked
  <2>4. /\ run'.tokens = asked \/ run'.tokens = run.tokens
        /\ run'.pending = run.pending
    BY <1>2, <2>2 DEF Calling
  <2>5. TaskNodes(run'.tokens) = TaskNodes(run.tokens)
    BY <2>3, <2>4
  <2>. QED BY <1>1, <1>2, <2>4, <2>5, ParkRows DEF RowsOwed
<1>5. CASE EnterJoinParks(n) \/ EnterOther(n) \/ UNCHANGED run
  <2>1. run'.tokens = run.tokens /\ run'.pending = run.pending
    BY <1>2, <1>5 DEF EnterJoinParks, EnterOther, Calling
  <2>. QED BY <1>1, <1>2, <2>1, ParkRows DEF RowsOwed
<1>. QED BY <1>3, <1>4, <1>5 DEF EnterTimer, EnterSubProcess, EnterServiceTask

LEMMA TaskRows ==
  ASSUME TaskInv, RowInv, NotEnteredAgain, NEW n \in Node, EnterHumanTask(n)
  PROVE  RowInv'
<1>1. agenda # <<>> /\ Head(agenda) = n /\ Kind[n] = "HUMAN_TASK" /\ Park(n)
  BY DEF EnterHumanTask, Entering
<1>2. Calling /\ RowsOwed
  BY <1>1 DEF TaskInv, RowInv, Calling
<1>3. run'.tokens = run.tokens /\ run'.pending = run.pending \cup {n}
  BY <1>2 DEF EnterHumanTask, Calling
<1>4. call # n
  BY <1>1 DEF NotEnteredAgain
<1>. QED BY <1>1, <1>2, <1>3, <1>4, ParkRows DEF RowsOwed

LEMMA ExclusiveRows ==
  ASSUME TaskInv, RowInv, NEW n \in Node, EnterExclusive(n)
  PROVE  RowInv'
<1>1. /\ agenda # <<>> /\ Head(agenda) = n /\ Kind[n] = "EXCLUSIVE_GATEWAY"
      /\ On(run.tokens, n) # {} /\ UNCHANGED <<inst, call>>
  BY DEF EnterExclusive, Entering
<1>2. Calling /\ CopyOk /\ RowsOwed
  BY <1>1 DEF TaskInv, RowInv, Calling
<1>3. PICK i \in DOMAIN Out[n] :
        /\ run' = [run EXCEPT !.tokens = Advance(@, First(On(@, n)), Out[n][i])]
        /\ agenda' = <<Out[n][i]>> \o Tail(agenda)
  BY DEF EnterExclusive
<1>. DEFINE next == Out[n][i]
            t == First(On(run.tokens, n))
            tokens == Advance(run.tokens, t, next)
<1>4. next \in Node
  BY GraphAssumption
<1>5. t \in run.tokens
  <2>1. On(run.tokens, n) \in SUBSET run.tokens
    BY DEF On
  <2>. QED BY <1>1, <1>2, <2>1, FirstIsThere DEF CopyOk
<1>6. run'.tokens = tokens /\ run'.pending = run.pending
  BY <1>2, <1>3 DEF Calling
<1>7. agenda' = <<next>> \o Tail(agenda) /\ <<next>> \in Seq(Node)
  BY <1>3, <1>4
<1>. HIDE DEF t, next
<1>8. Moved(t, next).node = next
  BY <1>2, <1>5 DEF Moved, CopyOk, TokensOk, IsToken
<1>9. TaskNodes(tokens) \subseteq TaskNodes(run.tokens) \cup {next}
  BY <1>8 DEF TaskNodes, Advance
<1>10. TaskNodes(tokens) \subseteq TaskNodes(run.tokens) \cup Entered(<<next>>)
  BY <1>9, EnteredOne
<1>. HIDE DEF tokens
<1>. QED BY <1>1, <1>2, <1>6, <1>7, <1>10, StepRows DEF RowsOwed

\* A split enters the node of every token it makes, since the array has them all.
LEMMA SplitRows ==
  ASSUME TaskInv, RowInv, NEW n \in Node, EnterSplit(n)
  PROVE  RowInv'
<1>. DEFINE k == Len(Out[n])
            m == run.made
            rest == run.tokens \ On(run.tokens, n)
            b == [i \in 1 .. k |-> BranchId(n, i)]
            tokens == rest \cup Fresh(m, k, Out[n], b)
            left == {t \in tokens : t.node # n}
<1>1. /\ agenda # <<>> /\ Head(agenda) = n /\ Kind[n] = "PARALLEL_GATEWAY"
      /\ UNCHANGED <<inst, call>>
  BY DEF EnterSplit, Entering
<1>2. Calling /\ CopyOk /\ RowsOwed
  BY <1>1 DEF TaskInv, RowInv, Calling
<1>3. /\ Out[n] \in [1 .. k -> Node] /\ k \in Nat /\ DOMAIN Out[n] = 1 .. k /\ m \in Nat
  BY <1>2, GraphAssumption DEF CopyOk
<1>4. {Token(m + i, Out[n][i], BranchId(n, i)) : i \in DOMAIN Out[n]}
        = Fresh(m, k, Out[n], b)
  BY <1>3 DEF Fresh
<1>5. /\ run' = [run EXCEPT !.tokens = tokens, !.made = @ + k]
      /\ agenda' = ArrayOrder(left) \o Tail(agenda)
  BY <1>4 DEF EnterSplit, EnteredAfterSplit
<1>. HIDE DEF k, b
<1>6. TokensOk(rest, m)
  BY <1>2, TokensDropped DEF CopyOk
<1>7. TokensOk(tokens, m + k)
  BY <1>3, <1>6, TokensAdded
<1>8. run'.tokens = tokens /\ run'.pending = run.pending
  BY <1>2, <1>5 DEF Calling
<1>. HIDE DEF tokens, m
<1>9. m + k \in Nat
  BY <1>3
<1>10. TokensOk(left, m + k)
  BY <1>7, TokensDropped
<1>11. ArrayOrder(left) \in Seq(Node)
  BY <1>9, <1>10, ArrayHoldsNodes
<1>12. TaskNodes(tokens) \subseteq Entered(ArrayOrder(left))
  <2>1. ASSUME NEW t \in tokens, Kind[t.node] = "HUMAN_TASK"
        PROVE  t.node \in Entered(ArrayOrder(left))
    <3>1. t \in left
      BY <1>1, <2>1
    <3>. QED BY <1>9, <1>10, <3>1, NoTokenLeftOut DEF Entered
  <2>. QED BY <2>1 DEF TaskNodes
<1>. HIDE DEF left, rest
<1>. QED BY <1>1, <1>2, <1>5, <1>8, <1>11, <1>12, StepRows DEF RowsOwed

LEMMA JoinRows ==
  ASSUME TaskInv, RowInv, NEW n \in Node, EnterJoinFires(n)
  PROVE  RowInv'
<1>. DEFINE here == On(run.tokens, n)
            next == Out[n][1]
            fired == Token(run.made + 1, next, MergedBranch(here))
            tokens == (run.tokens \ here) \cup {fired}
<1>1. /\ agenda # <<>> /\ Head(agenda) = n /\ Kind[n] = "PARALLEL_GATEWAY"
      /\ UNCHANGED <<inst, call>>
  BY DEF EnterJoinFires, Entering
<1>2. Calling /\ CopyOk /\ RowsOwed
  BY <1>1 DEF TaskInv, RowInv, Calling
<1>3. /\ run' = [run EXCEPT !.tokens = tokens, !.counter[n] = Cleared(n), !.made = @ + 1]
      /\ agenda' = <<next>> \o Tail(agenda)
  BY DEF EnterJoinFires
<1>4. fired.node = next
  BY DEF Token
<1>5. next \in Node
  BY <1>1, GraphAssumption
<1>. HIDE DEF fired, next, here
<1>6. TaskNodes(tokens) \subseteq TaskNodes(run.tokens) \cup {next}
  BY <1>4 DEF TaskNodes
<1>. HIDE DEF tokens
<1>7. run'.tokens = tokens /\ run'.pending = run.pending
  BY <1>2, <1>3 DEF Calling
<1>8. TaskNodes(tokens) \subseteq TaskNodes(run.tokens) \cup Entered(<<next>>)
  BY <1>6, EnteredOne
<1>9. agenda' = <<next>> \o Tail(agenda) /\ <<next>> \in Seq(Node)
  BY <1>3, <1>5
<1>. QED BY <1>1, <1>2, <1>7, <1>8, <1>9, StepRows DEF RowsOwed

\* What the caller commits.
LEMMA PersistRows ==
  ASSUME TaskInv, RowInv, Persist
  PROVE  RowInv'
<1>. DEFINE S == {Waiting(t) : t \in run.tokens}
<1>1. CopyOk /\ RowsOwed /\ agenda = <<>>
  BY DEF TaskInv, RowInv, Persist
<1>2. ASSUME NEW t \in run.tokens
      PROVE  Waiting(t).node = t.node
  <2>1. DOMAIN t = {"id", "node", "branch", "waiting", "intents"}
    BY <1>1 DEF CopyOk, IsToken, TokensOk
  <2>. QED BY <2>1 DEF Waiting
<1>3. TaskNodes(S) \subseteq TaskNodes(run.tokens)
  <2>1. \A u \in S : \E t \in run.tokens : u = Waiting(t)
    OBVIOUS
  <2>. HIDE DEF S
  <2>. QED BY <1>2, <2>1 DEF TaskNodes
<1>4. /\ inst' = [status |-> run.status, tokens |-> S, counter |-> run.counter,
                  tasks |-> (inst.tasks \ {call}) \cup (run.pending \ OldTaskNodes),
                  made |-> run.made]
      /\ call' = "idle"
  BY DEF Persist
<1>. HIDE DEF S
<1>5. /\ inst'.tokens = S
      /\ inst'.tasks = (inst.tasks \ {call}) \cup (run.pending \ OldTaskNodes)
  BY <1>4
<1>6. Entered(agenda) = {}
  <2>1. DOMAIN <<>> = {}
    OBVIOUS
  <2>. QED BY <1>1, <2>1 DEF Entered
<1>7. run.pending \subseteq inst'.tasks
  <2>1. ASSUME NEW n \in run.pending, n \in OldTaskNodes
        PROVE  n \in inst.tasks \ {call}
    BY <1>1, <2>1 DEF OldTaskNodes, RowsOwed
  <2>. QED BY <1>5, <2>1
<1>8. TaskNodes(inst'.tokens) \subseteq inst'.tasks
  BY <1>1, <1>3, <1>5, <1>6, <1>7 DEF RowsOwed
<1>. QED BY <1>4, <1>8 DEF RowInv

LEMMA ReturnRows ==
  ASSUME TaskInv, RowInv, TokenMissing \/ NoMatchingEdge
  PROVE  RowInv'
<1>1. PICK st : Return(st) /\ (st = inst.status \/ st = "ERROR")
  BY DEF TokenMissing, NoMatchingEdge
<1>2. /\ inst'.status = st /\ inst'.tokens = inst.tokens /\ inst'.tasks = inst.tasks
      /\ call' = "idle"
  BY <1>1 DEF Return, TaskInv
<1>. QED BY <1>1, <1>2 DEF RowInv

LEMMA RowsInductive ==
  TaskInv /\ RowInv /\ NotEnteredAgain /\ AloneOnTask /\ [KernelNext]_kernelVars => RowInv'
<1>. SUFFICES ASSUME TaskInv, RowInv, NotEnteredAgain, AloneOnTask, [KernelNext]_kernelVars
              PROVE  RowInv'
  OBVIOUS
<1>1. CASE Enter
  BY <1>1, ParkedRows, TaskRows, ExclusiveRows, SplitRows, JoinRows DEF Enter
<1>2. CASE UNCHANGED kernelVars
  BY <1>2 DEF kernelVars, RowInv, RowsOwed
<1>. QED BY <1>1, <1>2, EventRows, PersistRows, ReturnRows DEF KernelNext

\* EE-03, for every graph: while no call enters again the task it completes and no
\* two branches wait on one task, each token on a HUMAN_TASK has its task row and
\* each row its token.  The refuted run shows that the first cannot be left out.
THEOREM RowsMatchTokens ==
  KernelSpec /\ []NotEnteredAgain /\ []AloneOnTask => []TasksMatchTokens
<1>1. TaskInv /\ RowInv => TasksMatchTokens
  BY DEF TaskInv, RowInv, TasksMatchTokens
<1>. QED
  BY TasksAtFirst, TasksInductive, TasksFollowAtFirst, RowsInductive, <1>1, PTL DEF KernelSpec

-----------------------------------------------------------------------------
(* What COMPLETED leaves behind, for any graph.  A join that counts has a  *)
(* token parked on it, so a counter cannot survive the last token; unless  *)
(* a call enters a parallel gateway that no token stands on.               *)

\* A parallel gateway that a call enters holds a token.
GatewaysHeld ==
  agenda # <<>> /\ Kind[Head(agenda)] = "PARALLEL_GATEWAY" => On(run.tokens, Head(agenda)) # {}

CountsParked(counter, tokens) ==
  /\ DOMAIN counter = Node
  /\ \A n \in Node : counter[n] # NoArrival => Joining(n) /\ On(tokens, n) # {}

CleanInv ==
  /\ inst.status \in {"NEW", "COMPLETED"} => inst.tokens = {}
  /\ CountsParked(inst.counter, inst.tokens)
  /\ call # "idle" => /\ run.status = "COMPLETED" => run.tokens = {}
                      /\ CountsParked(run.counter, run.tokens)

LEMMA CleanAtFirst == KernelInit => CleanInv
<1>1. KernelInit => /\ inst.tokens = {} /\ call = "idle" /\ DOMAIN inst.counter = Node
                    /\ \A n \in Node : inst.counter[n] = NoArrival
  BY DEF KernelInit
<1>. QED BY <1>1 DEF CleanInv, CountsParked

\* No step takes the last token off a join but the one that fires it.
StaysParked(before, after) == \A n \in Node : Joining(n) /\ On(before, n) # {} => On(after, n) # {}

LEMMA CountsStay ==
  ASSUME NEW counter, NEW before, NEW after, CountsParked(counter, before), StaysParked(before, after)
  PROVE  CountsParked(counter, after)
BY DEF CountsParked, StaysParked

LEMMA MoreStayParked ==
  ASSUME NEW before, NEW after,
         \A t \in before : Kind[t.node] = "PARALLEL_GATEWAY" => t \in after
  PROVE  StaysParked(before, after)
BY DEF StaysParked, On, Joining

LEMMA NoneCounts ==
  ASSUME NEW counter, NEW tokens, CountsParked(counter, tokens),
         \A t \in tokens : Kind[t.node] # "PARALLEL_GATEWAY"
  PROVE  \A other : CountsParked(counter, other)
BY DEF CountsParked, On, Joining

LEMMA BeginClean ==
  ASSUME CleanInv, NEW kind, NEW tokens, NEW pending, NEW st, NEW entered,
         Begin(kind, tokens, pending, st, entered), st # "COMPLETED",
         StaysParked(inst.tokens, tokens)
  PROVE  CleanInv'
<1>1. /\ run'.status = st /\ run'.tokens = tokens /\ run'.counter = inst.counter /\ inst' = inst
  BY DEF Begin
<1>2. CountsParked(inst.counter, tokens)
  BY CountsStay DEF CleanInv
<1>. QED BY <1>1, <1>2 DEF CleanInv

LEMMA EventsClean ==
  ASSUME TaskInv, CleanInv,
         \/ InstanceStarted
         \/ \E n \in Node : TaskCompleted(n) \/ ServiceCompleted(n)
                            \/ SubProcessCompleted(n) \/ EffectFailed(n)
  PROVE  CleanInv'
<1>1. CASE InstanceStarted
  <2>1. PICK tokens, entered, none : Begin("start", tokens, none, "ACTIVE", entered)
    BY <1>1 DEF InstanceStarted
  <2>2. inst.tokens = {}
    BY <1>1 DEF InstanceStarted, CleanInv
  <2>3. StaysParked(inst.tokens, tokens)
    BY <2>2, MoreStayParked
  <2>. QED BY <2>1, <2>3, BeginClean
<1>2. ASSUME NEW n \in Node, NEW kind, NEW pending, NEW some \in SUBSET On(inst.tokens, n),
             Continue(kind, n, pending, some), Kind[n] # "PARALLEL_GATEWAY"
      PROVE  CleanInv'
  <2>. DEFINE t == First(some)
              tokens == Advance(inst.tokens, t, Out[n][1])
  <2>1. inst.status = "ACTIVE" /\ some # {} /\ Begin(kind, tokens, pending, inst.status, <<Out[n][1]>>)
    BY <1>2 DEF Continue
  <2>2. inst.made \in Nat /\ TokensOk(inst.tokens, inst.made) /\ some \subseteq inst.tokens
    BY DEF TaskInv, On
  <2>3. t \in some
    BY <2>1, <2>2, FirstIsThere
  <2>. HIDE DEF t
  <2>4. t.node = n
    BY <2>3 DEF On
  <2>5. StaysParked(inst.tokens, tokens)
    BY <1>2, <2>4, MoreStayParked DEF Advance
  <2>. HIDE DEF tokens
  <2>. QED BY <2>1, <2>5, BeginClean
<1>3. ASSUME NEW n \in Node, TaskCompleted(n) PROVE CleanInv'
  <2>1. Kind[n] = "HUMAN_TASK"
    BY <1>3 DEF TaskCompleted, TaskInv, TaskNodes
  <2>. QED BY <1>2, <1>3, <2>1 DEF TaskCompleted
<1>4. ASSUME NEW n \in Node, ServiceCompleted(n) \/ SubProcessCompleted(n) PROVE CleanInv'
  BY <1>2, <1>4 DEF ServiceCompleted, SubProcessCompleted
<1>5. ASSUME NEW n \in Node, EffectFailed(n) PROVE CleanInv'
  <2>1. /\ Kind[n] = "SERVICE_TASK"
        /\ Begin("other", inst.tokens \ On(inst.tokens, n), TaskNodes(inst.tokens), "ERROR", <<>>)
    BY <1>5 DEF EffectFailed
  <2>2. StaysParked(inst.tokens, inst.tokens \ On(inst.tokens, n))
    BY <2>1, MoreStayParked DEF On
  <2>. QED BY <2>1, <2>2, BeginClean
<1>. QED BY <1>1, <1>3, <1>4, <1>5

\* Entering a node.
LEMMA StepClean ==
  ASSUME CleanInv, UNCHANGED <<inst, call>>,
         run'.status = "COMPLETED" => run'.tokens = {}, CountsParked(run'.counter, run'.tokens)
  PROVE  CleanInv'
BY DEF CleanInv

LEMMA EntersClean ==
  ASSUME TaskInv, CleanInv, GatewaysHeld, Enter
  PROVE  CleanInv'
<1>1. PICK n \in Node :
        \/ EnterEnd(n) \/ EnterHumanTask(n) \/ EnterTimer(n) \/ EnterSubProcess(n)
        \/ EnterServiceTask(n) \/ EnterExclusive(n) \/ EnterSplit(n)
        \/ EnterJoinParks(n) \/ EnterJoinFires(n) \/ EnterOther(n)
  BY DEF Enter
<1>2. agenda # <<>> /\ Head(agenda) = n /\ UNCHANGED <<inst, call>>
  BY <1>1 DEF EnterEnd, EnterHumanTask, EnterTimer, EnterSubProcess, EnterServiceTask,
     EnterExclusive, EnterSplit, EnterJoinParks, EnterJoinFires, EnterOther, Entering, Intend, Park
<1>3. Calling /\ CopyOk
  BY <1>2 DEF TaskInv, Calling
<1>4. /\ run.status = "COMPLETED" => run.tokens = {}
      /\ CountsParked(run.counter, run.tokens)
  BY <1>2 DEF CleanInv, TaskInv, Calling
<1>5. On(run.tokens, n) \in SUBSET run.tokens
  BY DEF On
<1>6. CASE EnterEnd(n)
  <2>. DEFINE rest == run.tokens \ On(run.tokens, n)
  <2>1. Kind[n] = "END"
    BY <1>6 DEF EnterEnd, Entering
  <2>2. StaysParked(run.tokens, rest)
    BY <2>1, MoreStayParked DEF On
  <2>3. CASE \E t \in rest : Kind[t.node] # "END"
    <3>1. run'.status = run.status /\ run'.tokens = rest /\ run'.counter = run.counter
      BY <1>3, <1>6, <2>3 DEF EnterEnd, Calling
    <3>2. CountsParked(run.counter, rest)
      BY <1>4, <2>2, CountsStay
    <3>. QED BY <1>2, <1>4, <2>3, <3>1, <3>2, StepClean
  <2>4. CASE ~ (\E t \in rest : Kind[t.node] # "END")
    <3>1. run'.tokens = {} /\ run'.counter = run.counter
      BY <1>3, <1>6, <2>4 DEF EnterEnd, Calling
    <3>2. CountsParked(run.counter, rest)
      BY <1>4, <2>2, CountsStay
    <3>3. CountsParked(run.counter, run'.tokens)
      BY <2>4, <3>2, NoneCounts
    <3>. QED BY <1>2, <3>1, <3>3, StepClean
  <2>. QED BY <2>3, <2>4
<1>7. CASE EnterHumanTask(n) \/ EnterOther(n) \/ UNCHANGED run
  <2>1. run'.status = run.status /\ run'.tokens = run.tokens /\ run'.counter = run.counter
    BY <1>3, <1>7 DEF EnterHumanTask, EnterOther, Calling
  <2>. QED BY <1>2, <1>4, <2>1, StepClean
<1>8. ASSUME NEW wanted, Intend(n, wanted), Kind[n] # "PARALLEL_GATEWAY" PROVE CleanInv'
  <2>. DEFINE t == First(On(run.tokens, n))
              asked == (run.tokens \ {t}) \cup {[t EXCEPT !.intents = @ + 1]}
  <2>1. On(run.tokens, n) # {} /\ (run' = [run EXCEPT !.tokens = asked] \/ run' = run)
    BY <1>8 DEF Intend
  <2>2. t \in On(run.tokens, n)
    BY <1>3, <1>5, <2>1, FirstIsThere DEF CopyOk
  <2>. HIDE DEF t
  <2>3. StaysParked(run.tokens, asked)
    BY <1>8, <2>2, MoreStayParked DEF On
  <2>. HIDE DEF asked
  <2>4. /\ run'.status = run.status /\ run'.counter = run.counter
        /\ run'.tokens = asked \/ run'.tokens = run.tokens
    BY <1>3, <2>1 DEF Calling
  <2>5. CountsParked(run'.counter, run'.tokens)
    BY <1>4, <2>3, <2>4, CountsStay
  <2>6. run'.status # "COMPLETED"
    BY <1>4, <1>5, <2>1, <2>4
  <2>. QED BY <1>2, <2>5, <2>6, StepClean
<1>9. CASE EnterTimer(n) \/ EnterSubProcess(n) \/ EnterServiceTask(n)
  BY <1>7, <1>8, <1>9 DEF EnterTimer, EnterSubProcess, EnterServiceTask, Entering
<1>10. CASE EnterExclusive(n)
  <2>. DEFINE t == First(On(run.tokens, n))
  <2>1. Kind[n] = "EXCLUSIVE_GATEWAY" /\ On(run.tokens, n) # {}
    BY <1>10 DEF EnterExclusive, Entering
  <2>2. PICK i \in DOMAIN Out[n] : run' = [run EXCEPT !.tokens = Advance(@, t, Out[n][i])]
    BY <1>10 DEF EnterExclusive
  <2>3. t \in On(run.tokens, n)
    BY <1>3, <1>5, <2>1, FirstIsThere DEF CopyOk
  <2>. HIDE DEF t
  <2>4. StaysParked(run.tokens, Advance(run.tokens, t, Out[n][i]))
    BY <2>1, <2>3, MoreStayParked DEF On, Advance
  <2>5. /\ run'.status = run.status /\ run'.counter = run.counter
        /\ run'.tokens = Advance(run.tokens, t, Out[n][i])
    BY <1>3, <2>2 DEF Calling
  <2>6. CountsParked(run'.counter, run'.tokens)
    BY <1>4, <2>4, <2>5, CountsStay
  <2>7. run'.status # "COMPLETED"
    BY <1>4, <1>5, <2>1, <2>5
  <2>. QED BY <1>2, <2>6, <2>7, StepClean
<1>11. ASSUME Kind[n] = "PARALLEL_GATEWAY"
       PROVE  On(run.tokens, n) # {} /\ run.status # "COMPLETED"
  BY <1>2, <1>4, <1>5, <1>11 DEF GatewaysHeld
<1>12. CASE EnterSplit(n)
  <2>1. Kind[n] = "PARALLEL_GATEWAY" /\ ~ IsJoin(n)
    BY <1>12 DEF EnterSplit, Entering, IsJoin
  <2>2. PICK fresh, tokens : /\ tokens = (run.tokens \ On(run.tokens, n)) \cup fresh
                             /\ run' = [run EXCEPT !.tokens = tokens, !.made = @ + Len(Out[n])]
    BY <1>12 DEF EnterSplit
  <2>3. StaysParked(run.tokens, tokens)
    BY <2>1, <2>2 DEF StaysParked, Joining, On
  <2>4. run'.status = run.status /\ run'.counter = run.counter /\ run'.tokens = tokens
    BY <1>3, <2>2 DEF Calling
  <2>5. CountsParked(run'.counter, run'.tokens)
    BY <1>4, <2>3, <2>4, CountsStay
  <2>. QED BY <1>2, <1>11, <2>1, <2>4, <2>5, StepClean
<1>13. CASE EnterJoinParks(n)
  <2>1. Joining(n) /\ run' = [run EXCEPT !.counter[n] = Arrived(n)]
    BY <1>13 DEF EnterJoinParks, Entering, Joining
  <2>2. On(run.tokens, n) # {} /\ run.status # "COMPLETED"
    BY <1>11, <2>1 DEF Joining
  <2>3. /\ run'.status = run.status /\ run'.tokens = run.tokens
        /\ run'.counter = [run.counter EXCEPT ![n] = Arrived(n)]
    BY <1>3, <2>1 DEF Calling
  <2>4. CountsParked(run'.counter, run'.tokens)
    BY <1>4, <2>1, <2>2, <2>3 DEF CountsParked
  <2>. QED BY <1>2, <2>2, <2>3, <2>4, StepClean
<1>14. CASE EnterJoinFires(n)
  <2>1. Kind[n] = "PARALLEL_GATEWAY"
    BY <1>14 DEF EnterJoinFires, Entering
  <2>2. PICK fired, tokens : /\ tokens = (run.tokens \ On(run.tokens, n)) \cup {fired}
                             /\ run' = [run EXCEPT !.tokens = tokens, !.counter[n] = Cleared(n), !.made = @ + 1]
    BY <1>14 DEF EnterJoinFires
  <2>3. /\ run'.status = run.status /\ run'.tokens = tokens
        /\ run'.counter = [run.counter EXCEPT ![n] = NoArrival]
    BY <1>3, <2>2 DEF Calling, Cleared
  <2>4. \A m \in Node : m # n /\ On(run.tokens, m) # {} => On(tokens, m) # {}
    BY <2>2 DEF On
  <2>5. CountsParked(run'.counter, run'.tokens)
    BY <1>4, <2>3, <2>4 DEF CountsParked
  <2>. QED BY <1>2, <1>11, <2>1, <2>3, <2>5, StepClean
<1>. QED BY <1>1, <1>6, <1>7, <1>9, <1>10, <1>12, <1>13, <1>14

LEMMA CommitClean ==
  ASSUME TaskInv, CleanInv, Persist \/ TokenMissing \/ NoMatchingEdge
  PROVE  CleanInv'
<1>1. CASE Persist
  <2>1. PICK S : S = {Waiting(t) : t \in run.tokens}
    OBVIOUS
  <2>2. /\ inst'.status = run.status /\ inst'.tokens = S /\ inst'.counter = run.counter
        /\ call' = "idle" /\ call # "idle"
    BY <1>1, <2>1 DEF Persist
  <2>3. CopyOk
    BY <2>2 DEF TaskInv
  <2>4. ASSUME NEW t \in run.tokens
        PROVE  Waiting(t) \in S /\ Waiting(t).node = t.node
    <3>1. DOMAIN t = {"id", "node", "branch", "waiting", "intents"}
      BY <2>3 DEF CopyOk, IsToken, TokensOk
    <3>. QED BY <2>1, <3>1 DEF Waiting
  <2>5. StaysParked(run.tokens, S)
    BY <2>4 DEF StaysParked, On
  <2>6. CountsParked(run.counter, S)
    BY <2>2, <2>5, CountsStay DEF CleanInv
  <2>7. run.status \in {"NEW", "COMPLETED"} => S = {}
    BY <2>1, <2>2, <2>3 DEF CleanInv, CopyOk
  <2>. QED BY <2>2, <2>6, <2>7 DEF CleanInv
<1>2. CASE TokenMissing \/ NoMatchingEdge
  <2>1. PICK st : Return(st) /\ (st = inst.status \/ st = "ERROR")
    BY <1>2 DEF TokenMissing, NoMatchingEdge
  <2>2. /\ inst'.status = st /\ inst'.tokens = inst.tokens /\ inst'.counter = inst.counter
        /\ call' = "idle"
    BY <2>1 DEF Return, TaskInv
  <2>. QED BY <2>1, <2>2 DEF CleanInv
<1>. QED BY <1>1, <1>2

LEMMA CleanInductive ==
  TaskInv /\ CleanInv /\ GatewaysHeld /\ [KernelNext]_kernelVars => CleanInv'
<1>. SUFFICES ASSUME TaskInv, CleanInv, GatewaysHeld, [KernelNext]_kernelVars PROVE CleanInv'
  OBVIOUS
<1>1. CASE UNCHANGED kernelVars
  BY <1>1 DEF kernelVars, CleanInv
<1>. QED BY <1>1, EventsClean, EntersClean, CommitClean DEF KernelNext

\* For every graph: while each parallel gateway a call enters holds a token, a
\* COMPLETED instance has no token, no open task and no join that has counted.
THEOREM CompletedLeavesNothing ==
  KernelSpec /\ []GatewaysHeld => []CompletedIsClean
<1>1. TaskInv /\ CleanInv => CompletedIsClean
  BY DEF TaskInv, CleanInv, CountsParked, CompletedIsClean, TaskNodes, On
<1>. QED
  BY TasksAtFirst, TasksInductive, CleanAtFirst, CleanInductive, <1>1, PTL DEF KernelSpec

-----------------------------------------------------------------------------
(* Branches, for any graph.  A split names new branches, a join keeps one  *)
(* of those it merges, everything else leaves a token on its branch.       *)

\* A split is entered when no token is out on one of its branches.
SplitsAnew ==
  agenda # <<>> /\ Kind[Head(agenda)] = "PARALLEL_GATEWAY" /\ IsSplit(Head(agenda)) =>
    \A t \in run.tokens : t.node # Head(agenda) => t.branch[1] # Head(agenda)

Branched(tokens) ==
  /\ \A t \in tokens : t.branch \in Node \X Nat
  /\ \A t, u \in tokens : t.branch = u.branch => t = u

BranchInv == Branched(inst.tokens) /\ (call # "idle" => Branched(run.tokens))

LEMMA BranchedAtFirst == KernelInit => BranchInv
<1>1. KernelInit => inst.tokens = {} /\ call = "idle"
  BY DEF KernelInit
<1>. QED BY <1>1 DEF BranchInv, Branched

\* What the kernel does to branches: drop them, keep them, merge them, add new ones.
LEMMA BranchesDropped ==
  ASSUME NEW tokens, Branched(tokens), NEW some \in SUBSET tokens
  PROVE  Branched(some)
BY DEF Branched

LEMMA BranchesMerged ==
  ASSUME NEW tokens, Branched(tokens), NEW here \in SUBSET tokens, NEW t \in here, NEW u,
         u.branch = t.branch
  PROVE  Branched((tokens \ here) \cup {u})
BY DEF Branched

LEMMA BranchKept ==
  ASSUME NEW tokens, Branched(tokens), NEW t \in tokens, NEW u, u.branch = t.branch
  PROVE  Branched((tokens \ {t}) \cup {u})
BY BranchesMerged

LEMMA BranchesAdded ==
  ASSUME NEW tokens, Branched(tokens), NEW n \in Node, NEW m, NEW k \in Nat, NEW nodes, NEW b,
         \A i \in 1 .. k : b[i] = <<n, i>>, \A t \in tokens : t.branch[1] # n
  PROVE  Branched(tokens \cup Fresh(m, k, nodes, b))
<1>1. \A t \in Fresh(m, k, nodes, b) : \E i \in 1 .. k : t = Token(m + i, nodes[i], b[i])
  BY DEF Fresh
<1>2. \A i \in 1 .. k : Token(m + i, nodes[i], b[i]).branch = <<n, i>>
  BY DEF Token
<1>3. ASSUME NEW t \in Fresh(m, k, nodes, b)
      PROVE  t.branch \in Node \X Nat /\ t.branch[1] = n
  <2>1. PICK i \in 1 .. k : t.branch = <<n, i>>
    BY <1>1, <1>2
  <2>. QED BY <2>1
<1>4. ASSUME NEW t \in Fresh(m, k, nodes, b), NEW u \in Fresh(m, k, nodes, b), t.branch = u.branch
      PROVE  t = u
  <2>1. PICK i \in 1 .. k : t = Token(m + i, nodes[i], b[i])
    BY <1>1
  <2>2. PICK j \in 1 .. k : u = Token(m + j, nodes[j], b[j])
    BY <1>1
  <2>3. <<n, i>> = <<n, j>>
    BY <1>2, <1>4, <2>1, <2>2
  <2>. QED BY <2>1, <2>2, <2>3
<1>. QED BY <1>3, <1>4 DEF Branched

\* mergedBranch returns a branch of one of the tokens it is given.
LEMMA LeastBranch ==
  ASSUME NEW tokens, Branched(tokens), tokens # {}
  PROVE  \E t \in tokens : \A u \in tokens : t.branch[2] <= u.branch[2]
<1>. DEFINE T == {t.branch[2] : t \in tokens}
            R == OpToRel(<, Nat)
<1>1. T \subseteq Nat /\ T # {}
  BY DEF Branched
<1>2. IsWellFoundedOn(R, Nat)
  BY NatLessThanWellFounded
<1>3. \A x, y \in Nat : x < y => <<x, y>> \in R
  BY DEF OpToRel
<1>. HIDE DEF R
<1>4. PICK x \in T : \A y \in T : ~ (<<y, x>> \in R)
  <2>. HIDE DEF T
  <2>. QED BY <1>1, <1>2, WFMin
<1>5. \A y \in T : x <= y
  <2>. HIDE DEF T
  <2>. TAKE y \in T
  <2>1. x \in Nat /\ y \in Nat /\ ~ (<<y, x>> \in R)
    BY <1>1, <1>4
  <2>2. ~ (y < x)
    BY <1>3, <2>1
  <2>. QED BY <2>1, <2>2
<1>. QED BY <1>4, <1>5

LEMMA MergedIsOne ==
  ASSUME NEW tokens, NEW m \in Nat, TokensOk(tokens, m), Branched(tokens),
         NEW here \in SUBSET tokens, here # {}
  PROVE  \E t \in here : MergedBranch(here) = t.branch
<1>. DEFINE ones == {t \in here : t.branch[2] = 1}
            least == {t \in here : \A u \in here : t.branch[2] <= u.branch[2]}
<1>1. CASE \E t \in here : t.branch[2] = 1
  <2>1. ones \in SUBSET tokens /\ ones # {}
    BY <1>1
  <2>2. First(ones) \in ones
    <3>. HIDE DEF ones
    <3>. QED BY <2>1, FirstIsThere
  <2>. QED BY <1>1, <2>2 DEF MergedBranch
<1>2. CASE ~ (\E t \in here : t.branch[2] = 1)
  <2>1. least \in SUBSET tokens /\ least # {}
    BY BranchesDropped, LeastBranch
  <2>2. First(least) \in least
    <3>. HIDE DEF least
    <3>. QED BY <2>1, FirstIsThere
  <2>. QED BY <1>2, <2>2 DEF MergedBranch
<1>. QED BY <1>1, <1>2

LEMMA AdvanceKeepsBranch ==
  ASSUME NEW tokens, NEW m, TokensOk(tokens, m), Branched(tokens), NEW t \in tokens, NEW n
  PROVE  Branched(Advance(tokens, t, n))
<1>1. DOMAIN t = {"id", "node", "branch", "waiting", "intents"}
  BY DEF IsToken, TokensOk
<1>2. Moved(t, n).branch = t.branch
  BY <1>1 DEF Moved
<1>. QED BY <1>2, BranchKept DEF Advance

LEMMA BeginBranches ==
  ASSUME BranchInv, NEW kind, NEW tokens, NEW pending, NEW st, NEW entered,
         Begin(kind, tokens, pending, st, entered), Branched(tokens)
  PROVE  BranchInv'
<1>1. run'.tokens = tokens /\ inst' = inst
  BY DEF Begin
<1>. QED BY <1>1 DEF BranchInv

LEMMA EventBranches ==
  ASSUME TaskInv, BranchInv,
         \/ InstanceStarted
         \/ \E n \in Node : TaskCompleted(n) \/ ServiceCompleted(n)
                            \/ SubProcessCompleted(n) \/ EffectFailed(n)
  PROVE  BranchInv'
<1>1. CASE InstanceStarted
  <2>. DEFINE n == Out[Start][1]
  <2>1. PICK t : t = Token(1, n, <<Start, 0>>)
    OBVIOUS
  <2>2. PICK tokens, none, entered : tokens = {t} /\ Begin("start", tokens, none, "ACTIVE", entered)
    BY <1>1, <2>1 DEF InstanceStarted
  <2>3. t.branch = <<Start, 0>> /\ Start \in Node
    BY <2>1, GraphAssumption DEF Token
  <2>4. Branched(tokens)
    BY <2>2, <2>3 DEF Branched
  <2>. QED BY <2>2, <2>4, BeginBranches
<1>2. ASSUME NEW n \in Node, NEW kind, NEW pending, NEW some \in SUBSET On(inst.tokens, n),
             Continue(kind, n, pending, some)
      PROVE  BranchInv'
  <2>. DEFINE t == First(some)
              tokens == Advance(inst.tokens, t, Out[n][1])
  <2>1. some # {} /\ Begin(kind, tokens, pending, inst.status, <<Out[n][1]>>)
    BY <1>2 DEF Continue
  <2>2. inst.made \in Nat /\ TokensOk(inst.tokens, inst.made) /\ some \subseteq inst.tokens
    BY DEF TaskInv, On
  <2>3. t \in inst.tokens
    BY <2>1, <2>2, FirstIsThere
  <2>. HIDE DEF t
  <2>4. Branched(tokens)
    BY <2>2, <2>3, AdvanceKeepsBranch DEF BranchInv
  <2>. HIDE DEF tokens
  <2>. QED BY <2>1, <2>4, BeginBranches
<1>3. ASSUME NEW n \in Node, TaskCompleted(n) \/ ServiceCompleted(n) \/ SubProcessCompleted(n)
      PROVE  BranchInv'
  BY <1>2, <1>3 DEF TaskCompleted, ServiceCompleted, SubProcessCompleted
<1>4. ASSUME NEW n \in Node, EffectFailed(n) PROVE BranchInv'
  <2>1. Begin("other", inst.tokens \ On(inst.tokens, n), TaskNodes(inst.tokens), "ERROR", <<>>)
    BY <1>4 DEF EffectFailed
  <2>2. Branched(inst.tokens \ On(inst.tokens, n))
    BY BranchesDropped DEF BranchInv
  <2>. QED BY <2>1, <2>2, BeginBranches
<1>. QED BY <1>1, <1>3, <1>4

\* Entering a node.
LEMMA EnterBranches ==
  ASSUME TaskInv, BranchInv, GatewaysHeld, SplitsAnew, Enter
  PROVE  BranchInv'
<1>1. PICK n \in Node :
        \/ EnterEnd(n) \/ EnterHumanTask(n) \/ EnterTimer(n) \/ EnterSubProcess(n)
        \/ EnterServiceTask(n) \/ EnterExclusive(n) \/ EnterSplit(n)
        \/ EnterJoinParks(n) \/ EnterJoinFires(n) \/ EnterOther(n)
  BY DEF Enter
<1>2. agenda # <<>> /\ Head(agenda) = n /\ UNCHANGED <<inst, call>>
  BY <1>1 DEF EnterEnd, EnterHumanTask, EnterTimer, EnterSubProcess, EnterServiceTask,
     EnterExclusive, EnterSplit, EnterJoinParks, EnterJoinFires, EnterOther, Entering, Intend, Park
<1>3. Calling /\ CopyOk /\ Branched(run.tokens)
  BY <1>2 DEF TaskInv, Calling, BranchInv
<1>4. SUFFICES Branched(run'.tokens)
  BY <1>2 DEF BranchInv
<1>5. On(run.tokens, n) \in SUBSET run.tokens
  BY DEF On
<1>6. CASE EnterEnd(n)
  <2>1. run'.tokens \subseteq run.tokens
    BY <1>3, <1>6 DEF EnterEnd, Calling
  <2>. QED BY <1>3, <2>1, BranchesDropped
<1>7. CASE EnterHumanTask(n) \/ EnterOther(n) \/ EnterJoinParks(n) \/ UNCHANGED run
  <2>1. run'.tokens = run.tokens
    BY <1>3, <1>7 DEF EnterHumanTask, EnterOther, EnterJoinParks, Calling
  <2>. QED BY <1>3, <2>1
<1>8. ASSUME NEW wanted, Intend(n, wanted) PROVE Branched(run'.tokens)
  <2>. DEFINE t == First(On(run.tokens, n))
              u == [t EXCEPT !.intents = @ + 1]
              asked == (run.tokens \ {t}) \cup {u}
  <2>1. On(run.tokens, n) # {} /\ (run' = [run EXCEPT !.tokens = asked] \/ run' = run)
    BY <1>8 DEF Intend
  <2>2. t \in run.tokens
    BY <1>3, <1>5, <2>1, FirstIsThere DEF CopyOk
  <2>. HIDE DEF t
  <2>3. u.branch = t.branch
    BY <1>3, <2>2 DEF CopyOk, TokensOk, IsToken
  <2>. HIDE DEF u
  <2>4. Branched(asked)
    BY <1>3, <2>2, <2>3, BranchKept
  <2>. HIDE DEF asked
  <2>5. run'.tokens = asked \/ run'.tokens = run.tokens
    BY <1>3, <2>1 DEF Calling
  <2>. QED BY <1>3, <2>4, <2>5
<1>9. CASE EnterTimer(n) \/ EnterSubProcess(n) \/ EnterServiceTask(n)
  BY <1>7, <1>8, <1>9 DEF EnterTimer, EnterSubProcess, EnterServiceTask
<1>10. CASE EnterExclusive(n)
  <2>. DEFINE t == First(On(run.tokens, n))
  <2>1. On(run.tokens, n) # {}
    BY <1>10 DEF EnterExclusive
  <2>2. PICK i \in DOMAIN Out[n] : run' = [run EXCEPT !.tokens = Advance(@, t, Out[n][i])]
    BY <1>10 DEF EnterExclusive
  <2>3. t \in run.tokens
    BY <1>3, <1>5, <2>1, FirstIsThere DEF CopyOk
  <2>. HIDE DEF t
  <2>4. run'.tokens = Advance(run.tokens, t, Out[n][i])
    BY <1>3, <2>2 DEF Calling
  <2>. QED BY <1>3, <2>3, <2>4, AdvanceKeepsBranch DEF CopyOk
<1>11. CASE EnterSplit(n)
  <2>. DEFINE k == Len(Out[n])
              rest == run.tokens \ On(run.tokens, n)
              b == [i \in 1 .. k |-> BranchId(n, i)]
  <2>1. Out[n] \in Seq(Node)
    BY GraphAssumption
  <2>2. k \in Nat /\ DOMAIN Out[n] = 1 .. k
    BY <2>1
  <2>3. {Token(run.made + i, Out[n][i], BranchId(n, i)) : i \in DOMAIN Out[n]}
          = Fresh(run.made, k, Out[n], b)
    BY <2>2 DEF Fresh
  <2>. HIDE DEF k
  <2>4. \A i \in 1 .. k : b[i] = <<n, i>>
    BY DEF BranchId
  <2>. HIDE DEF b
  <2>5. run' = [run EXCEPT !.tokens = rest \cup Fresh(run.made, k, Out[n], b), !.made = @ + k]
    BY <1>11, <2>3 DEF EnterSplit, k
  <2>6. run'.tokens = rest \cup Fresh(run.made, k, Out[n], b)
    BY <1>3, <2>5 DEF Calling
  <2>7. \A t \in rest : t.branch[1] # n
    BY <1>2, <1>11 DEF SplitsAnew, EnterSplit, Entering, On
  <2>8. Branched(rest)
    BY <1>3, BranchesDropped
  <2>. HIDE DEF rest
  <2>. QED BY <2>2, <2>4, <2>6, <2>7, <2>8, BranchesAdded
<1>12. CASE EnterJoinFires(n)
  <2>. DEFINE here == On(run.tokens, n)
  <2>1. here # {}
    BY <1>2, <1>12 DEF GatewaysHeld, EnterJoinFires, Entering
  <2>2. PICK t \in here : MergedBranch(here) = t.branch
    BY <1>3, <1>5, <2>1, MergedIsOne DEF CopyOk
  <2>3. PICK u : u = Token(run.made + 1, Out[n][1], MergedBranch(here))
    OBVIOUS
  <2>4. run' = [run EXCEPT !.tokens = (@ \ here) \cup {u}, !.counter[n] = Cleared(n), !.made = @ + 1]
    BY <1>12, <2>3 DEF EnterJoinFires
  <2>5. u.branch = t.branch
    BY <2>2, <2>3 DEF Token
  <2>6. run'.tokens = (run.tokens \ here) \cup {u}
    BY <1>3, <2>4 DEF Calling
  <2>. HIDE DEF here
  <2>7. here \in SUBSET run.tokens
    BY <1>5 DEF here
  <2>. QED BY <1>3, <2>2, <2>5, <2>6, <2>7, BranchesMerged
<1>. QED BY <1>1, <1>6, <1>7, <1>9, <1>10, <1>11, <1>12

LEMMA CommitBranches ==
  ASSUME TaskInv, BranchInv, Persist \/ TokenMissing \/ NoMatchingEdge
  PROVE  BranchInv'
<1>1. CASE Persist
  <2>1. PICK S : S = {Waiting(t) : t \in run.tokens}
    OBVIOUS
  <2>2. inst'.tokens = S /\ call' = "idle" /\ call # "idle"
    BY <1>1, <2>1 DEF Persist
  <2>3. CopyOk /\ Branched(run.tokens)
    BY <2>2 DEF TaskInv, BranchInv
  <2>4. \A t \in run.tokens : Waiting(t).branch = t.branch
    BY <2>3 DEF Waiting, CopyOk, IsToken, TokensOk
  <2>5. Branched(S)
    BY <2>1, <2>3, <2>4 DEF Branched
  <2>. QED BY <2>2, <2>5 DEF BranchInv
<1>2. CASE TokenMissing \/ NoMatchingEdge
  <2>1. PICK st : Return(st)
    BY <1>2 DEF TokenMissing, NoMatchingEdge
  <2>2. inst'.tokens = inst.tokens /\ call' = "idle"
    BY <2>1 DEF Return, TaskInv
  <2>. QED BY <2>2 DEF BranchInv
<1>. QED BY <1>1, <1>2

LEMMA BranchesInductive ==
  TaskInv /\ BranchInv /\ GatewaysHeld /\ SplitsAnew /\ [KernelNext]_kernelVars => BranchInv'
<1>. SUFFICES ASSUME TaskInv, BranchInv, GatewaysHeld, SplitsAnew, [KernelNext]_kernelVars
              PROVE  BranchInv'
  OBVIOUS
<1>1. CASE UNCHANGED kernelVars
  BY <1>1 DEF kernelVars, BranchInv
<1>. QED BY <1>1, EventBranches, EnterBranches, CommitBranches DEF KernelNext

\* EE-06, for every graph: while no split is entered with tokens still out on its
\* branches, nor a gateway without a token, each branch has one token.
THEOREM OneBranchOneToken ==
  KernelSpec /\ []GatewaysHeld /\ []SplitsAnew => []OneTokenPerBranch
<1>1. BranchInv => OneTokenPerBranch
  BY DEF BranchInv, Branched, OneTokenPerBranch
<1>. QED
  BY TasksAtFirst, TasksInductive, BranchedAtFirst, BranchesInductive, <1>1, PTL DEF KernelSpec

-----------------------------------------------------------------------------
(* Intents, for any graph.  A token asks for its timer, effect or child    *)
(* when its node is entered, which is later than its arrival there.        *)

\* Within a call no two tokens wait on one activity: the intent is the first one's.
AloneOnActivity ==
  call # "idle" =>
    \A t, u \in run.tokens : t.node \in Activity /\ t.node = u.node => t = u

\* The half of SingleIntent that asking again does not break: a token on an activity
\* has asked for what it waits for, a token elsewhere for nothing.
NoneForgotten ==
  \A t \in inst.tokens : IF t.node \in Activity THEN t.intents > 0 ELSE t.intents = 0

\* It has, or will when the nodes left are entered; who waits for a child has.
HasAsked(t, nodes) ==
  /\ t.intents \in Nat
  /\ t.waiting => t.intents > 0
  /\ IF t.node \in Activity THEN t.intents > 0 \/ t.node \in Entered(nodes) ELSE t.intents = 0

AskedInv ==
  /\ \A t \in inst.tokens : HasAsked(t, <<>>)
  /\ call # "idle" => \A t \in run.tokens : HasAsked(t, agenda)

LEMMA AskedAtFirst == KernelInit => AskedInv
<1>1. KernelInit => inst.tokens = {} /\ call = "idle"
  BY DEF KernelInit
<1>. QED BY <1>1 DEF AskedInv

LEMMA NothingEntered == Entered(<<>>) = {}
<1>1. DOMAIN <<>> = {}
  OBVIOUS
<1>. QED BY <1>1 DEF Entered

LEMMA NewlyAsked ==
  ASSUME NEW id, NEW n, NEW b, NEW nodes, n \in Entered(nodes)
  PROVE  HasAsked(Token(id, n, b), nodes)
<1>1. /\ Token(id, n, b).node = n /\ Token(id, n, b).intents = 0
      /\ Token(id, n, b).waiting = FALSE
  BY DEF Token
<1>. QED BY <1>1 DEF HasAsked

LEMMA AdvanceAsks ==
  ASSUME NEW tokens, NEW m, TokensOk(tokens, m), NEW t \in tokens, NEW n,
         NEW u \in Advance(tokens, t, n)
  PROVE  u \in tokens \ {t} \/ HasAsked(u, <<n>>)
<1>1. DOMAIN t = {"id", "node", "branch", "waiting", "intents"}
  BY DEF IsToken, TokensOk
<1>2. Moved(t, n).node = n /\ Moved(t, n).intents = 0 /\ Moved(t, n).waiting = FALSE
  BY <1>1 DEF Moved
<1>3. HasAsked(Moved(t, n), <<n>>)
  BY <1>2, EnteredOne DEF HasAsked
<1>. QED BY <1>3 DEF Advance

LEMMA BeginAsks ==
  ASSUME AskedInv, NEW kind, NEW tokens, NEW pending, NEW st, NEW entered,
         Begin(kind, tokens, pending, st, entered),
         \A t \in tokens : t \in inst.tokens \/ HasAsked(t, entered)
  PROVE  AskedInv'
<1>1. run'.tokens = tokens /\ agenda' = entered /\ inst' = inst
  BY DEF Begin
<1>2. ASSUME NEW t \in inst.tokens PROVE HasAsked(t, entered)
  BY NothingEntered DEF AskedInv, HasAsked
<1>3. \A t \in tokens : HasAsked(t, entered)
  BY <1>2
<1>4. \A t \in run'.tokens : HasAsked(t, agenda')
  BY <1>1, <1>3
<1>5. \A t \in inst'.tokens : HasAsked(t, <<>>)
  BY <1>1 DEF AskedInv
<1>. QED BY <1>4, <1>5 DEF AskedInv, HasAsked, Entered

LEMMA EventsAsk ==
  ASSUME TaskInv, AskedInv,
         \/ InstanceStarted
         \/ \E n \in Node : TaskCompleted(n) \/ ServiceCompleted(n)
                            \/ SubProcessCompleted(n) \/ EffectFailed(n)
  PROVE  AskedInv'
<1>1. CASE InstanceStarted
  <2>. DEFINE n == Out[Start][1]
  <2>1. PICK tokens, none, entered : /\ tokens = {Token(1, n, <<Start, 0>>)} /\ entered = <<n>>
                                     /\ Begin("start", tokens, none, "ACTIVE", entered)
    BY <1>1 DEF InstanceStarted
  <2>. HIDE DEF n
  <2>2. n \in Entered(entered)
    BY <2>1, EnteredOne
  <2>3. \A t \in tokens : HasAsked(t, entered)
    BY <2>1, <2>2, NewlyAsked
  <2>. QED BY <2>1, <2>3, BeginAsks
<1>2. ASSUME NEW n \in Node, NEW kind, NEW pending, NEW some \in SUBSET On(inst.tokens, n),
             Continue(kind, n, pending, some)
      PROVE  AskedInv'
  <2>. DEFINE t == First(some)
              next == Out[n][1]
              tokens == Advance(inst.tokens, t, next)
  <2>1. some # {} /\ Begin(kind, tokens, pending, inst.status, <<next>>)
    BY <1>2 DEF Continue
  <2>2. inst.made \in Nat /\ TokensOk(inst.tokens, inst.made) /\ some \subseteq inst.tokens
    BY DEF TaskInv, On
  <2>3. t \in inst.tokens
    BY <2>1, <2>2, FirstIsThere
  <2>. HIDE DEF t, next
  <2>4. \A u \in tokens : u \in inst.tokens \/ HasAsked(u, <<next>>)
    BY <2>2, <2>3, AdvanceAsks
  <2>. HIDE DEF tokens
  <2>. QED BY <2>1, <2>4, BeginAsks
<1>3. ASSUME NEW n \in Node, TaskCompleted(n) \/ ServiceCompleted(n) \/ SubProcessCompleted(n)
      PROVE  AskedInv'
  BY <1>2, <1>3 DEF TaskCompleted, ServiceCompleted, SubProcessCompleted
<1>4. ASSUME NEW n \in Node, EffectFailed(n) PROVE AskedInv'
  <2>1. Begin("other", inst.tokens \ On(inst.tokens, n), TaskNodes(inst.tokens), "ERROR", <<>>)
    BY <1>4 DEF EffectFailed
  <2>. QED BY <2>1, BeginAsks
<1>. QED BY <1>1, <1>3, <1>4

\* Entering a node: who stands on it has asked, unless it is no activity, and who
\* is put elsewhere is entered next.
LEMMA StepAsks ==
  ASSUME TaskInv, AskedInv, agenda # <<>>, UNCHANGED <<inst, call>>,
         NEW front \in Seq(Node), agenda' = front \o Tail(agenda),
         \A t \in run'.tokens :
           \/ /\ t \in run.tokens
              /\ t.node # Head(agenda) \/ t.node \notin Activity \/ t.intents > 0
           \/ HasAsked(t, front)
  PROVE  AskedInv'
<1>1. call # "idle" /\ agenda \in Seq(Node)
  BY DEF TaskInv, Calling, CopyOk, Held
<1>2. /\ Entered(front) \subseteq Entered(agenda')
      /\ Entered(agenda) \ {Head(agenda)} \subseteq Entered(agenda')
  BY <1>1, EnteredBehind
<1>3. ASSUME NEW t \in run'.tokens PROVE HasAsked(t, agenda')
  <2>1. CASE HasAsked(t, front)
    BY <1>2, <2>1 DEF HasAsked
  <2>2. CASE /\ t \in run.tokens
             /\ t.node # Head(agenda) \/ t.node \notin Activity \/ t.intents > 0
    <3>1. HasAsked(t, agenda)
      BY <1>1, <2>2 DEF AskedInv
    <3>. QED BY <1>2, <2>2, <3>1 DEF HasAsked
  <2>. QED BY <2>1, <2>2
<1>4. \A t \in inst'.tokens : HasAsked(t, <<>>)
  BY DEF AskedInv
<1>. QED BY <1>3, <1>4 DEF AskedInv, HasAsked, Entered

LEMMA ParkAsks ==
  ASSUME TaskInv, AskedInv, agenda # <<>>, NEW n, Park(n),
         \A t \in run'.tokens :
           \/ /\ t \in run.tokens
              /\ t.node # Head(agenda) \/ t.node \notin Activity \/ t.intents > 0
           \/ HasAsked(t, <<>>)
  PROVE  AskedInv'
<1>0. agenda \in Seq(Node) /\ <<>> \in Seq(Node)
  BY DEF TaskInv, Calling, CopyOk, Held
<1>1. PICK front \in Seq(Node) : front = <<>>
  BY <1>0
<1>2. front \o Tail(agenda) = Tail(agenda)
  BY <1>0, <1>1
<1>3. agenda' = front \o Tail(agenda) /\ UNCHANGED <<inst, call>>
  BY <1>2 DEF Park
<1>4. \A t : HasAsked(t, <<>>) => HasAsked(t, front)
  BY <1>1
<1>. QED BY <1>3, <1>4, StepAsks

LEMMA EnterAsks ==
  ASSUME TaskInv, AskedInv, AloneOnActivity, Enter
  PROVE  AskedInv'
<1>1. PICK n \in Node :
        \/ EnterEnd(n) \/ EnterHumanTask(n) \/ EnterTimer(n) \/ EnterSubProcess(n)
        \/ EnterServiceTask(n) \/ EnterExclusive(n) \/ EnterSplit(n)
        \/ EnterJoinParks(n) \/ EnterJoinFires(n) \/ EnterOther(n)
  BY DEF Enter
<1>2. agenda # <<>> /\ Head(agenda) = n /\ UNCHANGED <<inst, call>>
  BY <1>1 DEF EnterEnd, EnterHumanTask, EnterTimer, EnterSubProcess, EnterServiceTask,
     EnterExclusive, EnterSplit, EnterJoinParks, EnterJoinFires, EnterOther, Entering, Intend, Park
<1>3. Calling /\ CopyOk /\ call # "idle" /\ \A t \in run.tokens : HasAsked(t, agenda)
  BY <1>2 DEF TaskInv, Calling, AskedInv
<1>4. On(run.tokens, n) \in SUBSET run.tokens
  BY DEF On
<1>5. CASE \/ EnterEnd(n) \/ EnterHumanTask(n) \/ EnterOther(n) \/ EnterJoinParks(n)
           \/ EnterServiceTask(n) /\ n \in SyncInline
  <2>1. run'.tokens \subseteq run.tokens /\ Park(n)
    BY <1>3, <1>5 DEF EnterEnd, EnterHumanTask, EnterOther, EnterJoinParks, EnterServiceTask, Calling
  <2>2. n \notin Activity
    BY <1>5 DEF EnterEnd, EnterHumanTask, EnterOther, EnterJoinParks, Entering, Activity, Requests
  <2>. QED BY <1>2, <2>1, <2>2, ParkAsks
<1>6. ASSUME NEW wanted, Intend(n, wanted), n \in Activity,
             wanted \/ First(On(run.tokens, n)).waiting
      PROVE  AskedInv'
  <2>. DEFINE t == First(On(run.tokens, n))
              u == [t EXCEPT !.intents = @ + 1]
              asked == (run.tokens \ {t}) \cup {u}
  <2>1. On(run.tokens, n) # {} /\ Park(n) /\ run' = IF wanted THEN [run EXCEPT !.tokens = asked] ELSE run
    BY <1>6 DEF Intend
  <2>2. t \in On(run.tokens, n)
    BY <1>3, <1>4, <2>1, FirstIsThere DEF CopyOk
  <2>3. wanted \/ t.waiting
    BY <1>6
  <2>. HIDE DEF t
  <2>4. t \in run.tokens /\ t.node = n /\ HasAsked(t, agenda)
    BY <1>3, <2>2 DEF On
  <2>5. \A x \in run.tokens : x.node = n => x = t
    BY <1>3, <1>6, <2>4 DEF AloneOnActivity
  <2>6. u.node = n /\ u.intents = t.intents + 1
    BY <1>3, <2>4 DEF CopyOk, TokensOk, IsToken
  <2>7. HasAsked(u, <<>>)
    BY <2>4, <2>6, <1>6 DEF HasAsked
  <2>. HIDE DEF u
  <2>8. CASE wanted
    <3>1. run'.tokens = asked
      BY <1>3, <2>1, <2>8 DEF Calling
    <3>. QED BY <1>2, <2>1, <2>5, <2>7, <3>1, ParkAsks
  <2>9. CASE ~ wanted
    <3>1. run'.tokens = run.tokens
      BY <2>1, <2>9
    <3>2. t.intents > 0
      BY <2>3, <2>4, <2>9 DEF HasAsked
    <3>. QED BY <1>2, <2>1, <2>5, <3>1, <3>2, ParkAsks
  <2>. QED BY <2>8, <2>9
<1>7. CASE EnterTimer(n) \/ (EnterServiceTask(n) /\ n \notin SyncInline)
  <2>1. n \in Activity /\ Intend(n, TRUE)
    BY <1>7, GraphAssumption DEF EnterTimer, EnterServiceTask, Entering, Activity, Requests
  <2>. QED BY <1>6, <2>1
<1>8. CASE EnterSubProcess(n)
  <2>1. n \in Activity /\ Intend(n, ~ First(On(run.tokens, n)).waiting)
    BY <1>8, GraphAssumption DEF EnterSubProcess, Entering, Activity, Requests
  <2>. QED BY <1>6, <2>1
<1>9. CASE EnterExclusive(n)
  <2>. DEFINE t == First(On(run.tokens, n))
  <2>1. On(run.tokens, n) # {} /\ n \notin Activity
    BY <1>9 DEF EnterExclusive, Entering, Activity, Requests
  <2>2. PICK i \in DOMAIN Out[n] : /\ run' = [run EXCEPT !.tokens = Advance(@, t, Out[n][i])]
                                   /\ agenda' = <<Out[n][i]>> \o Tail(agenda)
    BY <1>9 DEF EnterExclusive
  <2>3. t \in run.tokens
    BY <1>3, <1>4, <2>1, FirstIsThere DEF CopyOk
  <2>. HIDE DEF t
  <2>4. run'.tokens = Advance(run.tokens, t, Out[n][i])
    BY <1>3, <2>2 DEF Calling
  <2>5. \A u \in run'.tokens : u \in run.tokens \/ HasAsked(u, <<Out[n][i]>>)
    BY <1>3, <2>3, <2>4, AdvanceAsks DEF CopyOk
  <2>6. \A u \in run'.tokens :
          \/ /\ u \in run.tokens
             /\ u.node # Head(agenda) \/ u.node \notin Activity \/ u.intents > 0
          \/ HasAsked(u, <<Out[n][i]>>)
    BY <1>2, <2>1, <2>5
  <2>7. Out[n][i] \in Node
    BY GraphAssumption
  <2>8. <<Out[n][i]>> \in Seq(Node)
    BY <2>7
  <2>. QED BY <1>2, <2>2, <2>6, <2>8, StepAsks
<1>10. CASE EnterSplit(n)
  <2>. DEFINE k == Len(Out[n])
              m == run.made
              rest == run.tokens \ On(run.tokens, n)
              b == [i \in 1 .. k |-> BranchId(n, i)]
              tokens == rest \cup Fresh(m, k, Out[n], b)
              left == {t \in tokens : t.node # n}
  <2>1. /\ Out[n] \in [1 .. k -> Node] /\ k \in Nat /\ DOMAIN Out[n] = 1 .. k /\ m \in Nat
        /\ n \notin Activity
    BY <1>3, <1>10, GraphAssumption DEF CopyOk, EnterSplit, Entering, Activity, Requests
  <2>2. {Token(m + i, Out[n][i], BranchId(n, i)) : i \in DOMAIN Out[n]} = Fresh(m, k, Out[n], b)
    BY <2>1 DEF Fresh
  <2>3. /\ run' = [run EXCEPT !.tokens = tokens, !.made = @ + k]
        /\ agenda' = ArrayOrder(left) \o Tail(agenda)
    BY <1>10, <2>2 DEF EnterSplit, EnteredAfterSplit
  <2>. HIDE DEF k, b
  <2>4. TokensOk(rest, m)
    BY <1>3, TokensDropped DEF CopyOk
  <2>5. TokensOk(tokens, m + k)
    BY <2>1, <2>4, TokensAdded
  <2>6. run'.tokens = tokens
    BY <1>3, <2>3 DEF Calling
  <2>7. m + k \in Nat
    BY <2>1
  <2>8. ASSUME NEW t \in Fresh(m, k, Out[n], b), t.node # n
        PROVE  HasAsked(t, ArrayOrder(left))
    <3>1. PICK i \in 1 .. k : t = Token(m + i, Out[n][i], b[i])
      BY DEF Fresh
    <3>2. t \in left
      BY <2>8
    <3>3. TokensOk(left, m + k)
      BY <2>5, TokensDropped
    <3>. HIDE DEF left, m
    <3>4. t.node \in Entered(ArrayOrder(left))
      BY <2>7, <3>2, <3>3, NoTokenLeftOut DEF Entered
    <3>5. t.node = Out[n][i]
      BY <3>1 DEF Token
    <3>. QED BY <3>1, <3>4, <3>5, NewlyAsked
  <2>9. ASSUME NEW t \in Fresh(m, k, Out[n], b), t.node = n
        PROVE  HasAsked(t, ArrayOrder(left))
    <3>1. PICK i \in 1 .. k : t = Token(m + i, Out[n][i], b[i])
      BY DEF Fresh
    <3>2. t.node = n /\ t.intents = 0 /\ t.waiting = FALSE
      BY <2>9, <3>1 DEF Token
    <3>. QED BY <2>1, <3>2 DEF HasAsked
  <2>10. ArrayOrder(left) \in Seq(Node)
    <3>1. TokensOk(left, m + k)
      BY <2>5, TokensDropped
    <3>. HIDE DEF left, m
    <3>. QED BY <2>7, <3>1, ArrayHoldsNodes
  <2>11. \A t \in tokens :
           \/ /\ t \in run.tokens
              /\ t.node # Head(agenda) \/ t.node \notin Activity \/ t.intents > 0
           \/ HasAsked(t, ArrayOrder(left))
    BY <1>2, <2>1, <2>8, <2>9
  <2>. HIDE DEF tokens, left
  <2>. QED BY <1>2, <2>3, <2>6, <2>10, <2>11, StepAsks
<1>11. CASE EnterJoinFires(n)
  <2>. DEFINE next == Out[n][1]
              here == On(run.tokens, n)
  <2>1. n \notin Activity /\ next \in Node
    BY <1>11, GraphAssumption DEF EnterJoinFires, Entering, Activity, Requests
  <2>2. PICK u : u = Token(run.made + 1, next, MergedBranch(here))
    OBVIOUS
  <2>3. /\ run' = [run EXCEPT !.tokens = (@ \ here) \cup {u}, !.counter[n] = Cleared(n), !.made = @ + 1]
        /\ agenda' = <<next>> \o Tail(agenda)
    BY <1>11, <2>2 DEF EnterJoinFires
  <2>4. run'.tokens = (run.tokens \ here) \cup {u}
    BY <1>3, <2>3 DEF Calling
  <2>. HIDE DEF next, here
  <2>5. next \in Entered(<<next>>)
    BY EnteredOne
  <2>6. HasAsked(u, <<next>>)
    BY <2>2, <2>5, NewlyAsked
  <2>7. <<next>> \in Seq(Node)
    BY <2>1
  <2>8. \A t \in run'.tokens :
          \/ /\ t \in run.tokens
             /\ t.node # Head(agenda) \/ t.node \notin Activity \/ t.intents > 0
          \/ HasAsked(t, <<next>>)
    BY <1>2, <2>1, <2>4, <2>6
  <2>. QED BY <1>2, <2>3, <2>7, <2>8, StepAsks
<1>. QED BY <1>1, <1>5, <1>7, <1>8, <1>9, <1>10, <1>11

LEMMA CommitAsks ==
  ASSUME TaskInv, AskedInv, Persist \/ TokenMissing \/ NoMatchingEdge
  PROVE  AskedInv'
<1>1. CASE Persist
  <2>1. PICK S : S = {Waiting(t) : t \in run.tokens}
    OBVIOUS
  <2>2. inst'.tokens = S /\ call' = "idle" /\ call # "idle" /\ agenda = <<>>
    BY <1>1, <2>1 DEF Persist
  <2>3. CopyOk /\ \A t \in run.tokens : HasAsked(t, <<>>)
    BY <2>2 DEF TaskInv, AskedInv
  <2>4. ASSUME NEW t \in run.tokens PROVE HasAsked(Waiting(t), <<>>)
    <3>1. /\ Waiting(t).node = t.node /\ Waiting(t).intents = t.intents
          /\ Waiting(t).waiting = (Kind[t.node] = "SUB_PROCESS") /\ t.node \in Node
      BY <2>3 DEF Waiting, CopyOk, IsToken, TokensOk
    <3>2. HasAsked(t, <<>>)
      BY <2>3
    <3>. QED BY <3>1, <3>2, NothingEntered, GraphAssumption DEF HasAsked, Activity, Requests
  <2>5. \A t \in S : HasAsked(t, <<>>)
    BY <2>1, <2>4
  <2>6. \A t \in inst'.tokens : HasAsked(t, <<>>)
    BY <2>2, <2>5
  <2>. QED BY <2>2, <2>6 DEF AskedInv, HasAsked, Entered
<1>2. CASE TokenMissing \/ NoMatchingEdge
  <2>1. PICK st : Return(st)
    BY <1>2 DEF TokenMissing, NoMatchingEdge
  <2>2. inst'.tokens = inst.tokens /\ call' = "idle"
    BY <2>1 DEF Return, TaskInv
  <2>. QED BY <2>2 DEF AskedInv, HasAsked, Entered
<1>. QED BY <1>1, <1>2

LEMMA AskedInductive ==
  TaskInv /\ AskedInv /\ AloneOnActivity /\ [KernelNext]_kernelVars => AskedInv'
<1>. SUFFICES ASSUME TaskInv, AskedInv, AloneOnActivity, [KernelNext]_kernelVars PROVE AskedInv'
  OBVIOUS
<1>1. CASE UNCHANGED kernelVars
  BY <1>1 DEF kernelVars, AskedInv, HasAsked, Entered
<1>. QED BY <1>1, EventsAsk, EnterAsks, CommitAsks DEF KernelNext

\* SCH-01, EXP-301, for every graph: while no two tokens wait on one activity, none
\* waits for a timer, an effect or a child that no entry of its node asked for.
THEOREM WaitsHaveAsked == KernelSpec /\ []AloneOnActivity => []NoneForgotten
<1>1. AskedInv => NoneForgotten
  BY NothingEntered DEF AskedInv, HasAsked, NoneForgotten
<1>. QED
  BY TasksAtFirst, TasksInductive, AskedAtFirst, AskedInductive, <1>1, PTL DEF KernelSpec

-----------------------------------------------------------------------------
(* What each step of the kernel does, in the terms the rest is about: the  *)
(* tokens, the counters and the nodes still to enter.                      *)

Asking(t) == [t EXCEPT !.intents = @ + 1]

EventMade ==
  /\ inst' = inst /\ run'.counter = inst.counter /\ call' # "idle"
  /\ \/ /\ inst.status = "NEW" /\ call' = "start" /\ run'.status = "ACTIVE"
        /\ run'.tokens = {Token(1, Out[Start][1], <<Start, 0>>)}
        /\ agenda' = <<Out[Start][1]>>
     \/ /\ inst.status = "ACTIVE" /\ run'.status = "ACTIVE"
        /\ \E n \in Node, t \in inst.tokens :
             /\ t.node = n
             /\ \/ Kind[n] = "HUMAN_TASK" /\ call' = n
                \/ Kind[n] \in {"SERVICE_TASK", "SUB_PROCESS"} /\ call' = "other"
             /\ run'.tokens = Advance(inst.tokens, t, Out[n][1])
             /\ agenda' = <<Out[n][1]>>
     \/ /\ call' = "other" /\ run'.status = "ERROR" /\ agenda' = <<>>
        /\ \E n \in Node : Kind[n] = "SERVICE_TASK"
                           /\ run'.tokens = inst.tokens \ On(inst.tokens, n)

LEMMA EventMakes ==
  ASSUME TaskInv,
         \/ InstanceStarted
         \/ \E n \in Node : TaskCompleted(n) \/ ServiceCompleted(n)
                            \/ SubProcessCompleted(n) \/ EffectFailed(n)
  PROVE  EventMade
<1>1. ASSUME NEW kind, NEW tokens, NEW pending, NEW st, NEW entered,
             Begin(kind, tokens, pending, st, entered)
      PROVE  /\ inst' = inst /\ run'.counter = inst.counter /\ run'.status = st
             /\ run'.tokens = tokens /\ agenda' = entered /\ call' = kind
  BY <1>1 DEF Begin
<1>2. CASE InstanceStarted
  <2>1. PICK tokens, none, entered :
          /\ tokens = {Token(1, Out[Start][1], <<Start, 0>>)} /\ entered = <<Out[Start][1]>>
          /\ Begin("start", tokens, none, "ACTIVE", entered)
    BY <1>2 DEF InstanceStarted
  <2>2. inst.status = "NEW"
    BY <1>2 DEF InstanceStarted
  <2>. QED BY <1>1, <2>1, <2>2 DEF EventMade
<1>3. ASSUME NEW n \in Node, NEW kind, NEW pending, NEW some \in SUBSET On(inst.tokens, n),
             Continue(kind, n, pending, some),
             \/ Kind[n] = "HUMAN_TASK" /\ kind = n
             \/ Kind[n] \in {"SERVICE_TASK", "SUB_PROCESS"} /\ kind = "other"
      PROVE  EventMade
  <2>. DEFINE t == First(some)
              tokens == Advance(inst.tokens, t, Out[n][1])
  <2>1. /\ inst.status = "ACTIVE" /\ some # {}
        /\ Begin(kind, tokens, pending, inst.status, <<Out[n][1]>>)
    BY <1>3 DEF Continue
  <2>2. inst.made \in Nat /\ TokensOk(inst.tokens, inst.made) /\ some \subseteq inst.tokens
    BY DEF TaskInv, On
  <2>3. t \in some
    BY <2>1, <2>2, FirstIsThere
  <2>. HIDE DEF t
  <2>4. t \in inst.tokens /\ t.node = n
    BY <2>3 DEF On
  <2>5. PICK entered : entered = <<Out[n][1]>> /\ Begin(kind, tokens, pending, inst.status, entered)
    BY <2>1
  <2>6. PICK after : after = tokens
    OBVIOUS
  <2>. HIDE DEF tokens
  <2>7. /\ inst' = inst /\ run'.counter = inst.counter /\ run'.status = "ACTIVE"
        /\ run'.tokens = after /\ agenda' = entered /\ call' = kind
    BY <1>1, <2>1, <2>5, <2>6
  <2>8. kind # "idle"
    BY <1>3, GraphAssumption
  <2>. QED BY <1>3, <2>1, <2>4, <2>5, <2>6, <2>7, <2>8 DEF EventMade, tokens
<1>4. ASSUME NEW n \in Node, TaskCompleted(n) PROVE EventMade
  <2>1. Kind[n] = "HUMAN_TASK"
    BY <1>4 DEF TaskCompleted, TaskInv, TaskNodes
  <2>. QED BY <1>3, <1>4, <2>1 DEF TaskCompleted
<1>5. ASSUME NEW n \in Node, ServiceCompleted(n) \/ SubProcessCompleted(n) PROVE EventMade
  BY <1>3, <1>5 DEF ServiceCompleted, SubProcessCompleted
<1>6. ASSUME NEW n \in Node, EffectFailed(n) PROVE EventMade
  <2>1. PICK tokens, pending, entered :
          /\ Kind[n] = "SERVICE_TASK" /\ tokens = inst.tokens \ On(inst.tokens, n) /\ entered = <<>>
          /\ Begin("other", tokens, pending, "ERROR", entered)
    BY <1>6 DEF EffectFailed
  <2>. QED BY <1>1, <2>1 DEF EventMade
<1>. QED BY <1>2, <1>4, <1>5, <1>6

\* A node that keeps what comes: at most its first token changes, in its intents.
Parked(n) ==
  /\ Rest(n) /\ agenda' = Tail(agenda) /\ run'.status = run.status
  /\ \/ run'.tokens = run.tokens /\ n \notin Activity
     \/ /\ n \in Activity
        /\ \E t \in run.tokens : t.node = n /\ run'.tokens = (run.tokens \ {t}) \cup {Asking(t)}
     \/ /\ Kind[n] = "SUB_PROCESS" /\ run'.tokens = run.tokens
        /\ \E t \in run.tokens : t.node = n /\ t.waiting
  /\ IF Joining(n) THEN ~ JoinComplete(n) /\ run'.counter = [run.counter EXCEPT ![n] = Arrived(n)]
                   ELSE run'.counter = run.counter

Ended(n) ==
  /\ Kind[n] = "END" /\ agenda' = Tail(agenda) /\ run'.counter = run.counter
  /\ \/ run'.tokens = run.tokens \ On(run.tokens, n) /\ run'.status = run.status
     \/ /\ run'.tokens = {} /\ run'.status = "COMPLETED"
        /\ \A t \in run.tokens : t.node = n \/ Kind[t.node] = "END"

Chosen(n) ==
  /\ Kind[n] = "EXCLUSIVE_GATEWAY" /\ run'.status = run.status /\ run'.counter = run.counter
  /\ \E t \in run.tokens, i \in DOMAIN Out[n] :
       /\ t.node = n
       /\ run'.tokens = Advance(run.tokens, t, Out[n][i])
       /\ agenda' = <<Out[n][i]>> \o Tail(agenda)

Parts(m, n) == Fresh(m, Len(Out[n]), Out[n], [i \in 1 .. Len(Out[n]) |-> <<n, i>>])

Divided(n) ==
  /\ Splitting(n) /\ run'.status = run.status /\ run'.counter = run.counter
  /\ run'.tokens = (run.tokens \ On(run.tokens, n)) \cup Parts(run.made, n)
  /\ agenda' = ArrayOrder({t \in run'.tokens : t.node # n}) \o Tail(agenda)

United(n) ==
  /\ Joining(n) /\ JoinComplete(n) /\ run'.status = run.status
  /\ run'.counter = [run.counter EXCEPT ![n] = NoArrival]
  /\ run'.tokens = (run.tokens \ On(run.tokens, n))
                     \cup {Token(run.made + 1, Out[n][1], MergedBranch(On(run.tokens, n)))}
  /\ agenda' = <<Out[n][1]>> \o Tail(agenda)

Entry(n) ==
  /\ n \in Node /\ agenda # <<>> /\ n = Head(agenda) /\ UNCHANGED <<inst, call>> /\ call # "idle"
  /\ Parked(n) \/ Ended(n) \/ Chosen(n) \/ Divided(n) \/ United(n)

LEMMA EnterMakes ==
  ASSUME TaskInv, Enter
  PROVE  \E n \in Node : Entry(n)
<1>1. PICK n \in Node :
        \/ EnterEnd(n) \/ EnterHumanTask(n) \/ EnterTimer(n) \/ EnterSubProcess(n)
        \/ EnterServiceTask(n) \/ EnterExclusive(n) \/ EnterSplit(n)
        \/ EnterJoinParks(n) \/ EnterJoinFires(n) \/ EnterOther(n)
  BY DEF Enter
<1>2. agenda # <<>> /\ n = Head(agenda) /\ UNCHANGED <<inst, call>>
  BY <1>1 DEF EnterEnd, EnterHumanTask, EnterTimer, EnterSubProcess, EnterServiceTask,
     EnterExclusive, EnterSplit, EnterJoinParks, EnterJoinFires, EnterOther, Entering, Intend, Park
<1>3. Calling /\ CopyOk /\ call # "idle"
  BY <1>2 DEF TaskInv, Calling
<1>4. SUFFICES Parked(n) \/ Ended(n) \/ Chosen(n) \/ Divided(n) \/ United(n)
  BY <1>2, <1>3 DEF Entry
<1>5. On(run.tokens, n) \in SUBSET run.tokens /\ \A t \in On(run.tokens, n) : t.node = n
  BY DEF On
<1>6. On(run.tokens, n) # {} => First(On(run.tokens, n)) \in On(run.tokens, n)
  BY <1>3, <1>5, FirstIsThere DEF CopyOk
<1>7. CASE EnterEnd(n)
  BY <1>3, <1>7 DEF EnterEnd, Entering, Park, Calling, Ended, On
<1>8. CASE EnterHumanTask(n)
  BY <1>3, <1>8 DEF EnterHumanTask, Entering, Park, Calling, Parked, Rest, Activity, Requests, Joining
<1>9. ASSUME NEW wanted, Intend(n, wanted), n \in Activity,
             ~ wanted => Kind[n] = "SUB_PROCESS" /\ First(On(run.tokens, n)).waiting
      PROVE  Parked(n)
  <2>. DEFINE t == First(On(run.tokens, n))
              asked == (run.tokens \ {t}) \cup {Asking(t)}
  <2>1. t \in run.tokens /\ t.node = n
    BY <1>5, <1>6, <1>9 DEF Intend
  <2>2. agenda' = Tail(agenda) /\ run' = IF wanted THEN [run EXCEPT !.tokens = asked] ELSE run
    BY <1>9 DEF Intend, Park, Asking
  <2>3. Rest(n) /\ ~ Joining(n)
    BY <1>9 DEF Rest, Activity, Requests, Joining
  <2>. HIDE DEF t
  <2>4. (wanted /\ run'.tokens = asked) \/ (~ wanted /\ run'.tokens = run.tokens)
    BY <1>3, <2>2 DEF Calling
  <2>5. run'.status = run.status /\ run'.counter = run.counter
    BY <1>3, <2>2 DEF Calling
  <2>6. ~ wanted => Kind[n] = "SUB_PROCESS" /\ t.waiting
    BY <1>9 DEF t
  <2>. QED BY <1>9, <2>1, <2>2, <2>3, <2>4, <2>5, <2>6 DEF Parked
<1>10. CASE EnterTimer(n) \/ (EnterServiceTask(n) /\ n \notin SyncInline)
  BY <1>2, <1>9, <1>10, GraphAssumption DEF EnterTimer, EnterServiceTask, Entering, Activity, Requests
<1>11. CASE EnterSubProcess(n)
  BY <1>2, <1>9, <1>11, GraphAssumption DEF EnterSubProcess, Entering, Activity, Requests
<1>17. CASE EnterServiceTask(n) /\ n \in SyncInline
  BY <1>3, <1>17 DEF EnterServiceTask, Entering, Park, Calling, Parked, Rest, Activity, Requests, Joining
<1>12. CASE EnterJoinParks(n)
  <2>1. Joining(n) /\ Rest(n) /\ n \notin Activity /\ ~ JoinComplete(n)
    BY <1>12 DEF EnterJoinParks, Entering, Joining, Rest, IsJoin, Activity, Requests
  <2>2. agenda' = Tail(agenda) /\ run' = [run EXCEPT !.counter[n] = Arrived(n)]
    BY <1>12 DEF EnterJoinParks, Park
  <2>3. /\ run'.status = run.status /\ run'.tokens = run.tokens
        /\ run'.counter = [run.counter EXCEPT ![n] = Arrived(n)]
    BY <1>3, <2>2 DEF Calling
  <2>. QED BY <2>1, <2>2, <2>3 DEF Parked
<1>13. CASE EnterOther(n)
  BY <1>3, <1>13 DEF EnterOther, Entering, Park, Calling, Parked, Rest, Activity, Requests, Joining
<1>14. CASE EnterExclusive(n)
  <2>1. Kind[n] = "EXCLUSIVE_GATEWAY" /\ On(run.tokens, n) # {}
    BY <1>14 DEF EnterExclusive, Entering
  <2>2. PICK t \in run.tokens, i \in DOMAIN Out[n] :
          /\ t.node = n /\ run' = [run EXCEPT !.tokens = Advance(@, t, Out[n][i])]
          /\ agenda' = <<Out[n][i]>> \o Tail(agenda)
    BY <1>5, <1>6, <1>14 DEF EnterExclusive
  <2>3. /\ run'.status = run.status /\ run'.counter = run.counter
        /\ run'.tokens = Advance(run.tokens, t, Out[n][i])
    BY <1>3, <2>2 DEF Calling
  <2>. QED BY <2>1, <2>2, <2>3 DEF Chosen
<1>15. CASE EnterSplit(n)
  <2>. DEFINE k == Len(Out[n])
              b == [i \in 1 .. k |-> <<n, i>>]
              tokens == (run.tokens \ On(run.tokens, n)) \cup Fresh(run.made, k, Out[n], b)
  <2>1. Out[n] \in Seq(Node)
    BY GraphAssumption
  <2>2. k \in Nat /\ DOMAIN Out[n] = 1 .. k
    BY <2>1
  <2>3. {Token(run.made + i, Out[n][i], BranchId(n, i)) : i \in DOMAIN Out[n]}
          = Fresh(run.made, k, Out[n], b)
    BY <2>2 DEF Fresh, BranchId
  <2>4. /\ run' = [run EXCEPT !.tokens = tokens, !.made = @ + k]
        /\ agenda' = ArrayOrder({t \in tokens : t.node # n}) \o Tail(agenda)
    BY <1>15, <2>3 DEF EnterSplit, EnteredAfterSplit
  <2>5. Splitting(n)
    BY <1>15 DEF EnterSplit, Entering, Splitting
  <2>6. PICK after : after = tokens
    OBVIOUS
  <2>7. run'.status = run.status /\ run'.counter = run.counter /\ run'.tokens = after
    <3>. HIDE DEF tokens
    <3>. QED BY <1>3, <2>4, <2>6 DEF Calling
  <2>. QED BY <2>4, <2>5, <2>6, <2>7 DEF Divided, Parts
<1>16. CASE EnterJoinFires(n)
  <2>1. PICK u : u = Token(run.made + 1, Out[n][1], MergedBranch(On(run.tokens, n)))
    OBVIOUS
  <2>2. PICK after : after = (run.tokens \ On(run.tokens, n)) \cup {u}
    OBVIOUS
  <2>3. run' = [run EXCEPT !.tokens = after, !.counter[n] = NoArrival, !.made = @ + 1]
    BY <1>16, <2>1, <2>2 DEF EnterJoinFires, Cleared
  <2>4. /\ run'.status = run.status /\ run'.counter = [run.counter EXCEPT ![n] = NoArrival]
        /\ run'.tokens = after
    BY <1>3, <2>3 DEF Calling
  <2>5. Joining(n) /\ JoinComplete(n) /\ agenda' = <<Out[n][1]>> \o Tail(agenda)
    BY <1>16 DEF EnterJoinFires, Entering, Joining
  <2>. QED BY <2>1, <2>2, <2>4, <2>5 DEF United
<1>. QED
  BY <1>1, <1>7, <1>8, <1>10, <1>11, <1>12, <1>13, <1>14, <1>15, <1>16, <1>17

\* What is committed keeps its ids, nodes, branches and intents.
Committed ==
  \/ /\ agenda = <<>> /\ call # "idle" /\ call' = "idle"
     /\ inst'.status = run.status /\ inst'.counter = run.counter
     /\ inst'.tokens = {Waiting(t) : t \in run.tokens}
  \/ /\ call' = "idle" /\ inst'.tokens = inst.tokens /\ inst'.counter = inst.counter
     /\ inst'.status \in {inst.status, "ERROR"}

LEMMA CommitMakes ==
  ASSUME TaskInv, Persist \/ TokenMissing \/ NoMatchingEdge
  PROVE  Committed
<1>1. CASE Persist
  <2>1. PICK S : S = {Waiting(t) : t \in run.tokens}
    OBVIOUS
  <2>2. /\ inst'.status = run.status /\ inst'.tokens = S /\ inst'.counter = run.counter
        /\ call' = "idle" /\ call # "idle" /\ agenda = <<>>
    BY <1>1, <2>1 DEF Persist
  <2>. QED BY <2>1, <2>2 DEF Committed
<1>2. CASE TokenMissing \/ NoMatchingEdge
  <2>1. PICK st : Return(st) /\ (st = inst.status \/ st = "ERROR")
    BY <1>2 DEF TokenMissing, NoMatchingEdge
  <2>2. /\ inst'.status = st /\ inst'.tokens = inst.tokens /\ inst'.counter = inst.counter
        /\ call' = "idle"
    BY <2>1 DEF Return, TaskInv
  <2>. QED BY <2>1, <2>2 DEF Committed
<1>. QED BY <1>1, <1>2

\* The three records a step copies a token into.
LEMMA Copied ==
  ASSUME NEW tokens, NEW m, TokensOk(tokens, m), NEW t \in tokens
  PROVE  /\ Asking(t).id = t.id /\ Asking(t).node = t.node /\ Asking(t).branch = t.branch
         /\ Asking(t).intents = t.intents + 1
         /\ Waiting(t).id = t.id /\ Waiting(t).node = t.node /\ Waiting(t).branch = t.branch
         /\ Waiting(t).intents = t.intents
         /\ \A n : /\ Moved(t, n).id = t.id /\ Moved(t, n).node = n /\ Moved(t, n).branch = t.branch
                   /\ Moved(t, n).intents = 0
<1>1. DOMAIN t = {"id", "node", "branch", "waiting", "intents"}
  BY DEF TokensOk, IsToken
<1>. QED BY <1>1 DEF Asking, Waiting, Moved

LEMMA Anew ==
  ASSUME NEW id, NEW n, NEW b
  PROVE  /\ Token(id, n, b).id = id /\ Token(id, n, b).node = n /\ Token(id, n, b).branch = b
         /\ Token(id, n, b).intents = 0
BY DEF Token
-----------------------------------------------------------------------------
(* Homes, for the graphs that are drawn in blocks (module Blocks).  Each   *)
(* token lives in a home of its node, apart from all others; a join has    *)
(* either some token within each of its edges or none within any.          *)

Dwelt(Homes, tokens, h) ==
  /\ \A t \in tokens : h[t.id] \in Homes[t.node]
  /\ \A t, u \in tokens : t.id # u.id => h[t.id] \cap h[u.id] = {}
  /\ \A t \in tokens, n \in Node :
       Splitting(n) /\ t.branch[1] = n => \A H \in Homes[n] : h[t.id] \cap H # {}

Lives(tokens, h, H) == \E t \in tokens : h[t.id] \subseteq H

Balanced(Homes, tokens, h) ==
  \A j \in Node : Joining(j) =>
    \A H, K \in Homes[j] : Lives(tokens, h, H) => Lives(tokens, h, K)

\* A join has counted no more tokens than it holds.
CountsOk(counter, tokens) ==
  /\ DOMAIN counter = Node
  /\ \A n \in Node : Joining(n) =>
       /\ counter[n].expected \in {0, InDegree(n)}
       /\ counter[n].received \in 0 .. Cardinality(On(tokens, n))

Housed(Homes, tokens, counter, active) ==
  /\ \E h : Dwelt(Homes, tokens, h) /\ (active => Balanced(Homes, tokens, h))
  /\ CountsOk(counter, tokens)

HouseInv(Homes) ==
  /\ inst.status = "NEW" => inst.tokens = {}
  /\ Housed(Homes, inst.tokens, inst.counter, inst.status = "ACTIVE")
  /\ call # "idle" => Housed(Homes, run.tokens, run.counter, run.status = "ACTIVE")

LEMMA NobodyAtHome ==
  ASSUME NEW Homes, NEW active, NEW counter, DOMAIN counter = Node,
         \A n \in Node : Joining(n) => counter[n].expected \in {0, InDegree(n)} /\ counter[n].received = 0
  PROVE  Housed(Homes, {}, counter, active)
<1>1. \A n : On({}, n) = {}
  BY DEF On
<1>2. Cardinality({}) = 0 /\ 0 .. 0 = {0}
  BY FS_EmptySet
<1>3. CountsOk(counter, {})
  BY <1>1, <1>2 DEF CountsOk
<1>4. \A h : Dwelt(Homes, {}, h) /\ Balanced(Homes, {}, h)
  BY DEF Dwelt, Balanced, Lives
<1>. QED BY <1>3, <1>4 DEF Housed

LEMMA HousedAtFirst == \A Homes : KernelInit => HouseInv(Homes)
<1>. SUFFICES ASSUME NEW Homes, KernelInit PROVE HouseInv(Homes)
  OBVIOUS
<1>1. inst.tokens = {} /\ call = "idle" /\ DOMAIN inst.counter = Node
  BY DEF KernelInit
<1>2. \A n \in Node : inst.counter[n].expected = 0 /\ inst.counter[n].received = 0
  BY DEF KernelInit, NoArrival
<1>. QED BY <1>1, <1>2, NobodyAtHome DEF HouseInv

\* Places for one token hold one.
LEMMA AloneAtHome ==
  ASSUME NEW Homes, Divides(Homes), NEW tokens, NEW m, TokensOk(tokens, m), NEW h, Dwelt(Homes, tokens, h),
         NEW t \in tokens, NEW u \in tokens, t.node = u.node, ~ Joining(t.node), Kind[t.node] # "END"
  PROVE  t = u
<1>1. h[t.id] \in Homes[t.node] /\ h[u.id] \in Homes[t.node] /\ t.node \in Node
  BY DEF Dwelt, TokensOk
<1>2. h[t.id] \cap h[u.id] # {}
  BY <1>1 DEF Divides, Apart
<1>. QED BY <1>2 DEF Dwelt, TokensOk

LEMMA HomesAreSets ==
  ASSUME NEW Homes, Divides(Homes), NEW n \in Node
  PROVE  /\ \A H \in Homes[n] : H # {}
         /\ Joining(n) => /\ IsFiniteSet(Homes[n]) /\ Cardinality(Homes[n]) = InDegree(n)
                          /\ InDegree(n) \in Nat /\ InDegree(n) > 1
                          /\ \A H, K \in Homes[n] : H # K => H \cap K = {}
<1>1. \A H \in Homes[n] : H # {}
  BY DEF Divides
<1>2. Joining(n) => /\ IsFiniteSet(Homes[n]) /\ Cardinality(Homes[n]) = InDegree(n)
                    /\ \A H, K \in Homes[n] : H # K => H \cap K = {}
  BY DEF Divides, Apart
<1>3. Joining(n) => InDegree(n) > 1
  BY DEF Joining, IsJoin
<1>. QED BY <1>1, <1>2, <1>3, FS_CardinalityType

LEMMA JoiningIsNoSplit == \A n : Joining(n) => ~ Splitting(n)
BY DEF Joining, Splitting, IsJoin

\* A token that stays or moves on keeps its home.
Follows(Homes, before, after) ==
  \A u \in after : \E t \in before :
    u.id = t.id /\ u.branch = t.branch /\ Homes[t.node] \subseteq Homes[u.node]

LEMMA HomesKept ==
  ASSUME NEW Homes, NEW before, NEW after, NEW h, Follows(Homes, before, after)
  PROVE  /\ Dwelt(Homes, before, h) => Dwelt(Homes, after, h)
         /\ \A H : Lives(after, h, H) => Lives(before, h, H)
         /\ Balanced(Homes, before, h) /\ (\A t \in before : \E u \in after : u.id = t.id)
              => Balanced(Homes, after, h)
<1>1. ASSUME Dwelt(Homes, before, h) PROVE Dwelt(Homes, after, h)
  <2>1. \A u \in after : h[u.id] \in Homes[u.node]
    BY <1>1 DEF Dwelt, Follows
  <2>2. \A u, v \in after : u.id # v.id => h[u.id] \cap h[v.id] = {}
    BY <1>1 DEF Dwelt, Follows
  <2>3. ASSUME NEW u \in after, NEW n \in Node, Splitting(n), u.branch[1] = n, NEW H \in Homes[n]
        PROVE  h[u.id] \cap H # {}
    <3>1. PICK t \in before : u.id = t.id /\ u.branch = t.branch
      BY DEF Follows
    <3>2. h[t.id] \cap H # {}
      BY <1>1, <2>3, <3>1 DEF Dwelt
    <3>. QED BY <3>1, <3>2
  <2>. QED BY <2>1, <2>2, <2>3 DEF Dwelt
<1>2. \A H : Lives(after, h, H) => Lives(before, h, H)
  BY DEF Lives, Follows
<1>3. ASSUME \A t \in before : \E u \in after : u.id = t.id
      PROVE  \A H : Lives(before, h, H) => Lives(after, h, H)
  BY <1>3 DEF Lives
<1>. QED BY <1>1, <1>2, <1>3 DEF Balanced

\* Joins lose no token.
StaysOnJoins(before, after) == \A j \in Node : Joining(j) => On(before, j) \subseteq On(after, j)

LEMMA CountsKept ==
  ASSUME NEW counter, NEW before, NEW after, CountsOk(counter, before), StaysOnJoins(before, after),
         IsFiniteSet(before), IsFiniteSet(after)
  PROVE  CountsOk(counter, after)
<1>1. \A n : IsFiniteSet(On(before, n)) /\ IsFiniteSet(On(after, n))
  BY FS_Subset DEF On
<1>2. ASSUME NEW j \in Node, Joining(j)
      PROVE  counter[j].received \in 0 .. Cardinality(On(after, j))
  <2>1. Cardinality(On(before, j)) <= Cardinality(On(after, j))
    BY <1>1, <1>2, FS_Subset DEF StaysOnJoins
  <2>2. Cardinality(On(before, j)) \in Nat /\ Cardinality(On(after, j)) \in Nat
    BY <1>1, FS_CardinalityType
  <2>3. counter[j].received \in 0 .. Cardinality(On(before, j))
    BY <1>2 DEF CountsOk
  <2>. QED BY <2>1, <2>2, <2>3
<1>. QED BY <1>2 DEF CountsOk

LEMMA AdvanceFollows ==
  ASSUME NEW Homes, NEW tokens, NEW m, TokensOk(tokens, m), NEW t \in tokens, NEW n,
         Homes[t.node] \subseteq Homes[n], ~ Joining(t.node)
  PROVE  /\ Follows(Homes, tokens, Advance(tokens, t, n))
         /\ \A v \in tokens : \E u \in Advance(tokens, t, n) : u.id = v.id
         /\ StaysOnJoins(tokens, Advance(tokens, t, n))
<1>1. Moved(t, n).id = t.id /\ Moved(t, n).node = n /\ Moved(t, n).branch = t.branch
  BY Copied
<1>2. Advance(tokens, t, n) = (tokens \ {t}) \cup {Moved(t, n)}
  BY DEF Advance
<1>. QED BY <1>1, <1>2 DEF Follows, StaysOnJoins, On

LEMMA AdvanceHoused ==
  ASSUME NEW Homes, NEW tokens, NEW m, TokensOk(tokens, m), NEW t \in tokens, NEW n,
         Homes[t.node] \subseteq Homes[n], ~ Joining(t.node), NEW counter, NEW active,
         TokensOk(Advance(tokens, t, n), m), Housed(Homes, tokens, counter, active)
  PROVE  Housed(Homes, Advance(tokens, t, n), counter, active)
<1>. DEFINE after == Advance(tokens, t, n)
<1>1. /\ Follows(Homes, tokens, after) /\ StaysOnJoins(tokens, after)
      /\ \A v \in tokens : \E u \in after : u.id = v.id
  BY AdvanceFollows
<1>2. CountsOk(counter, after)
  BY <1>1, CountsKept DEF Housed, TokensOk
<1>3. PICK h : Dwelt(Homes, tokens, h) /\ (active => Balanced(Homes, tokens, h))
  BY DEF Housed
<1>. HIDE DEF after
<1>4. Dwelt(Homes, after, h) /\ (active => Balanced(Homes, after, h))
  BY <1>1, <1>3, HomesKept
<1>. QED BY <1>2, <1>4 DEF Housed, after

LEMMA PassesOn ==
  ASSUME NEW Homes, Divides(Homes), NEW n \in Node, Kind[n] # "PARALLEL_GATEWAY", NEW i \in DOMAIN Out[n]
  PROVE  Homes[n] \subseteq Homes[Out[n][i]]
BY DEF Divides, Passes, Splitting, Joining

LEMMA Targets == \A n \in Node : \A i \in DOMAIN Out[n] : Out[n][i] \in Node
<1>. SUFFICES ASSUME NEW n \in Node PROVE \A i \in DOMAIN Out[n] : Out[n][i] \in Node
  OBVIOUS
<1>1. PICK s \in Seq(Node) : s = Out[n]
  BY GraphAssumption
<1>2. \A i \in DOMAIN s : s[i] \in Node
  OBVIOUS
<1>. QED BY <1>1, <1>2

LEMMA FirstTarget == \A n \in Node : Kind[n] # "END" => 1 \in DOMAIN Out[n] /\ Out[n][1] \in Node
<1>. SUFFICES ASSUME NEW n \in Node, Kind[n] # "END" PROVE 1 \in DOMAIN Out[n] /\ Out[n][1] \in Node
  OBVIOUS
<1>1. PICK s \in Seq(Node) : s = Out[n] /\ s # <<>>
  BY GraphAssumption
<1>2. 1 \in DOMAIN s /\ s[1] \in Node
  BY <1>1
<1>. QED BY <1>1, <1>2

\* A split finds one token, and none on its branches.
LEMMA SplitIsAlone ==
  ASSUME NEW Homes, Divides(Homes), NEW tokens, NEW m, TokensOk(tokens, m), NEW h,
         Dwelt(Homes, tokens, h), NEW n \in Node, Splitting(n), NEW t \in tokens, t.node = n
  PROVE  /\ \A K \in Homes[n] : K = h[t.id]
         /\ \A u \in tokens : u # t => u.node # n /\ u.branch[1] # n /\ h[u.id] \cap h[t.id] = {}
<1>1. h[t.id] \in Homes[n]
  BY DEF Dwelt
<1>2. \A K \in Homes[n] : K = h[t.id]
  BY <1>1 DEF Divides, Passes
<1>3. ASSUME NEW u \in tokens, u # t
      PROVE  u.node # n /\ u.branch[1] # n /\ h[u.id] \cap h[t.id] = {}
  <2>1. h[u.id] \cap h[t.id] = {}
    BY <1>3 DEF Dwelt, TokensOk
  <2>2. u.branch[1] # n
    BY <1>1, <2>1 DEF Dwelt
  <2>3. ~ Joining(n) /\ Kind[n] # "END"
    BY JoiningIsNoSplit DEF Splitting
  <2>4. u.node # n
    BY <1>3, <2>3, AloneAtHome
  <2>. QED BY <2>1, <2>2, <2>4
<1>. QED BY <1>2, <1>3

LEMMA SplitHoused ==
  ASSUME NEW Homes, Divides(Homes), NEW tokens, NEW m \in Nat, TokensOk(tokens, m), NEW n \in Node,
         Splitting(n), On(tokens, n) # {}, NEW after, after = (tokens \ On(tokens, n)) \cup Parts(m, n),
         IsFiniteSet(after), NEW counter, NEW active, Housed(Homes, tokens, counter, active)
  PROVE  Housed(Homes, after, counter, active)
<1>0. PICK k, b : /\ k = Len(Out[n]) /\ \A i \in 1 .. k : b[i] = <<n, i>>
                  /\ after = (tokens \ On(tokens, n)) \cup Fresh(m, k, Out[n], b)
  BY DEF Parts
<1>1. PICK t \in tokens : t.node = n
  BY DEF On
<1>2. PICK h : Dwelt(Homes, tokens, h) /\ (active => Balanced(Homes, tokens, h))
  BY DEF Housed
<1>. DEFINE H == h[t.id]
<1>3. /\ \A K \in Homes[n] : K = H
      /\ \A u \in tokens : u # t => u.node # n /\ u.branch[1] # n /\ h[u.id] \cap H = {}
  BY <1>1, <1>2, SplitIsAlone
<1>4. H \in Homes[n]
  BY <1>1, <1>2 DEF Dwelt
<1>5. PICK s \in Seq(Node) : s = Out[n]
  BY GraphAssumption
<1>6. DOMAIN Out[n] = 1 .. k /\ k \in Nat
  BY <1>0, <1>5
<1>7. PICK p \in [1 .. k -> SUBSET H] : Portions(Homes, n, H, p)
  BY <1>4, <1>6 DEF Divides, Passes
<1>. DEFINE g == [x \in 1 .. (m + k) |-> IF x <= m THEN h[x] ELSE p[x - m]]
<1>8. ASSUME NEW u \in tokens, u # t PROVE u \in after /\ g[u.id] = h[u.id] /\ u.id <= m
  <2>1. u.id \in 1 .. m
    BY DEF TokensOk
  <2>. QED BY <1>0, <1>3, <1>6, <1>8, <2>1 DEF On
<1>9. \A i \in 1 .. k : g[m + i] = p[i] /\ Token(m + i, Out[n][i], b[i]) \in after
  BY <1>0, <1>6 DEF Fresh
<1>10. ASSUME NEW v \in after
       PROVE  \/ v \in tokens /\ v # t
              \/ \E i \in 1 .. k : v.id = m + i /\ v.node = Out[n][i] /\ v.branch = <<n, i>>
  <2>1. CASE v \in Fresh(m, k, Out[n], b)
    <3>1. PICK i \in 1 .. k : v = Token(m + i, Out[n][i], b[i])
      BY <2>1 DEF Fresh
    <3>. QED BY <1>0, <3>1, Anew
  <2>2. CASE v \in tokens \ On(tokens, n)
    BY <1>1, <2>2 DEF On
  <2>. QED BY <1>0, <2>1, <2>2
<1>. HIDE DEF g
<1>11. \A i \in 1 .. k : p[i] \in Homes[Out[n][i]] /\ p[i] \subseteq H /\ p[i] # {}
  <2>1. \A i \in 1 .. k : p[i] \in Homes[Out[n][i]] /\ Out[n][i] \in Node /\ p[i] \subseteq H
    BY <1>5, <1>6, <1>7 DEF Portions
  <2>. QED BY <2>1, HomesAreSets
<1>12. \A i, l \in 1 .. k : i # l => p[i] \cap p[l] = {}
  BY <1>6, <1>7 DEF Portions
<1>13. Dwelt(Homes, after, g)
  <2>1. ASSUME NEW v \in after PROVE g[v.id] \in Homes[v.node]
    <3>1. CASE v \in tokens /\ v # t
      BY <1>2, <1>8, <3>1 DEF Dwelt
    <3>2. ASSUME NEW i \in 1 .. k, v.id = m + i, v.node = Out[n][i] PROVE g[v.id] \in Homes[v.node]
      <4>1. p[i] \in Homes[Out[n][i]] /\ g[m + i] = p[i]
        BY <1>9, <1>11
      <4>. QED BY <3>2, <4>1
    <3>. QED BY <1>10, <3>1, <3>2
  <2>2. ASSUME NEW u \in after, NEW v \in after, u.id # v.id
        PROVE  g[u.id] \cap g[v.id] = {}
    <3>1. CASE u \in tokens /\ u # t /\ v \in tokens /\ v # t
      BY <1>2, <1>8, <2>2, <3>1 DEF Dwelt
    <3>2. ASSUME NEW x \in tokens, x # t, NEW i \in 1 .. k PROVE g[x.id] \cap g[m + i] = {}
      BY <1>3, <1>8, <1>9, <1>11, <3>2
    <3>4. CASE u \in tokens /\ u # t /\ \E i \in 1 .. k : v.id = m + i
      BY <3>2, <3>4
    <3>5. CASE v \in tokens /\ v # t /\ \E i \in 1 .. k : u.id = m + i
      BY <3>2, <3>5
    <3>3. ASSUME NEW i \in 1 .. k, NEW l \in 1 .. k, u.id = m + i, v.id = m + l
          PROVE  g[u.id] \cap g[v.id] = {}
      BY <1>9, <1>12, <2>2, <3>3
    <3>. QED BY <1>10, <3>1, <3>3, <3>4, <3>5
  <2>3. ASSUME NEW v \in after, NEW s2 \in Node, Splitting(s2), v.branch[1] = s2, NEW K \in Homes[s2]
        PROVE  g[v.id] \cap K # {}
    <3>1. CASE v \in tokens /\ v # t
      BY <1>2, <1>8, <2>3, <3>1 DEF Dwelt
    <3>2. ASSUME NEW i \in 1 .. k, v.id = m + i, v.branch = <<n, i>> PROVE g[v.id] \cap K # {}
      <4>1. s2 = n /\ K = H
        BY <1>3, <2>3, <3>2
      <4>. QED BY <1>9, <1>11, <3>2, <4>1
    <3>. QED BY <1>10, <3>1, <3>2
  <2>. QED BY <2>1, <2>2, <2>3 DEF Dwelt
<1>14. ASSUME active PROVE Balanced(Homes, after, g)
  <2>1. ASSUME NEW K, Lives(tokens, h, K) PROVE Lives(after, g, K)
    <3>1. PICK u \in tokens : h[u.id] \subseteq K
      BY <2>1 DEF Lives
    <3>2. CASE u # t
      BY <1>8, <3>1, <3>2 DEF Lives
    <3>3. CASE u = t
      <4>1. 1 \in 1 .. k
        BY <1>0, <1>1, <1>5, <1>6, FirstTarget DEF Splitting
      <4>2. g[m + 1] \subseteq K
        BY <1>9, <1>11, <3>1, <3>3, <4>1
      <4>3. Token(m + 1, Out[n][1], b[1]).id = m + 1
        BY Anew
      <4>. QED BY <1>9, <4>1, <4>2, <4>3 DEF Lives
    <3>. QED BY <3>2, <3>3
  <2>2. ASSUME NEW j \in Node, Joining(j), NEW K \in Homes[j], NEW L \in Homes[j], Lives(after, g, K)
        PROVE  Lives(after, g, L)
    <3>1. PICK v \in after : g[v.id] \subseteq K
      BY <2>2 DEF Lives
    <3>2. CASE Lives(tokens, h, K)
      BY <1>2, <1>14, <2>1, <2>2, <3>2 DEF Balanced
    <3>3. CASE ~ Lives(tokens, h, K)
      <4>1. ~ (H \subseteq K) /\ ~ (v \in tokens /\ v # t)
        BY <1>8, <3>1, <3>3 DEF Lives
      <4>2. PICK i \in 1 .. k : p[i] \subseteq K
        BY <1>9, <1>10, <3>1, <4>1
      <4>3. PICK l \in 1 .. k : p[l] \subseteq L
        BY <1>6, <1>7, <2>2, <4>1, <4>2 DEF Portions
      <4>4. Token(m + l, Out[n][l], b[l]).id = m + l
        BY Anew
      <4>. QED BY <1>9, <4>3, <4>4 DEF Lives
    <3>. QED BY <3>2, <3>3
  <2>. QED BY <2>2 DEF Balanced
<1>15. CountsOk(counter, after)
  <2>1. StaysOnJoins(tokens, after)
    BY <1>0, JoiningIsNoSplit DEF StaysOnJoins, On
  <2>. QED BY <2>1, CountsKept DEF Housed, TokensOk
<1>. QED BY <1>13, <1>14, <1>15 DEF Housed

\* A join that has as many tokens as edges.
Full(tokens, n) == Joining(n) /\ Cardinality(On(tokens, n)) >= InDegree(n)

LEMMA OnlyFullFire ==
  ASSUME NEW Homes, Divides(Homes), NEW n \in Node, Joining(n), CountsOk(run.counter, run.tokens),
         IsFiniteSet(run.tokens)
  PROVE  /\ JoinComplete(n) <=> Full(run.tokens, n)
         /\ CountsOk([run.counter EXCEPT ![n] = NoArrival], run.tokens)
         /\ CountsOk([run.counter EXCEPT ![n] = Arrived(n)], run.tokens)
<1>. DEFINE now == Cardinality(On(run.tokens, n))
            c == run.counter[n]
            d == InDegree(n)
<1>1. now \in Nat
  BY FS_Subset, FS_CardinalityType DEF On
<1>2. c.received \in 0 .. now /\ c.expected \in {0, d} /\ d \in Nat /\ d > 1 /\ DOMAIN run.counter = Node
  BY HomesAreSets DEF CountsOk
<1>3. Arrived(n).received = now /\ Arrived(n).expected = d
  <2>1. Arrived(n).received = IF now > c.received THEN now ELSE c.received
    BY DEF Arrived
  <2>2. Arrived(n).expected = IF c.expected = 0 THEN d ELSE c.expected
    BY DEF Arrived
  <2>. HIDE DEF now, c, d
  <2>. QED BY <1>1, <1>2, <2>1, <2>2
<1>4. NoArrival.received = 0 /\ NoArrival.expected = 0
  BY DEF NoArrival
<1>5. JoinComplete(n) <=> Full(run.tokens, n)
  BY <1>3 DEF JoinComplete, Full
<1>6. ASSUME NEW a, a.received \in 0 .. now, a.expected \in {0, d}
      PROVE  CountsOk([run.counter EXCEPT ![n] = a], run.tokens)
  BY <1>2, <1>6 DEF CountsOk
<1>7. 0 \in 0 .. now /\ now \in 0 .. now
  <2>. HIDE DEF now
  <2>. QED BY <1>1
<1>. HIDE DEF now, d, c
<1>. QED BY <1>3, <1>4, <1>5, <1>6, <1>7

\* All homes of a full join are lived in.
LEMMA FullHouse ==
  ASSUME NEW Homes, Divides(Homes), NEW tokens, NEW m, TokensOk(tokens, m), NEW h, Dwelt(Homes, tokens, h),
         NEW n \in Node, Joining(n)
  PROVE  (\A H \in Homes[n] : \E t \in On(tokens, n) : h[t.id] = H) <=> Full(tokens, n)
<1>. DEFINE here == On(tokens, n)
            f == [t \in here |-> h[t.id]]
<1>1. /\ IsFiniteSet(Homes[n]) /\ Cardinality(Homes[n]) = InDegree(n) /\ InDegree(n) \in Nat
      /\ \A H \in Homes[n] : H # {}
  BY HomesAreSets
<1>2. IsFiniteSet(here)
  BY FS_Subset DEF On, TokensOk
<1>3. f \in Injection(here, Homes[n])
  <2>1. \A t \in here : t \in tokens /\ t.node = n
    BY DEF On
  <2>. HIDE DEF here
  <2>2. f \in [here -> Homes[n]]
    BY <2>1 DEF Dwelt
  <2>3. ASSUME NEW t \in here, NEW u \in here, f[t] = f[u] PROVE t = u
    <3>1. h[t.id] = h[u.id] /\ h[t.id] \in Homes[n]
      BY <2>2, <2>3
    <3>2. h[t.id] \cap h[u.id] # {}
      BY <1>1, <3>1
    <3>. QED BY <2>1, <3>2 DEF Dwelt, TokensOk
  <2>. HIDE DEF f
  <2>. QED BY <2>2, <2>3 DEF Injection, IsInjective
<1>4. /\ Cardinality(here) <= Cardinality(Homes[n])
      /\ Cardinality(here) = Cardinality(Homes[n]) <=> f \in Surjection(here, Homes[n])
  <2>. HIDE DEF here, f
  <2>. QED BY <1>1, <1>3, FS_Injection
<1>5. Cardinality(here) \in Nat
  BY <1>2, FS_CardinalityType
<1>6. Full(tokens, n) <=> Cardinality(here) = Cardinality(Homes[n])
  <2>1. Full(tokens, n) <=> Cardinality(here) >= InDegree(n)
    BY DEF Full
  <2>. HIDE DEF here
  <2>. QED BY <1>1, <1>4, <1>5, <2>1
<1>7. f \in Surjection(here, Homes[n]) <=> \A H \in Homes[n] : \E t \in here : h[t.id] = H
  <2>1. f \in [here -> Homes[n]] /\ \A t \in here : f[t] = h[t.id]
    BY <1>3 DEF Injection
  <2>. HIDE DEF f, here
  <2>. QED BY <2>1 DEF Surjection
<1>. QED BY <1>4, <1>6, <1>7

LEMMA JoinHoused ==
  ASSUME NEW Homes, Divides(Homes), NEW tokens, NEW m \in Nat, TokensOk(tokens, m), Branched(tokens),
         NEW n \in Node, Full(tokens, n), NEW counter, NEW active,
         Housed(Homes, tokens, counter, active),
         CountsOk([counter EXCEPT ![n] = NoArrival], tokens),
         NEW u, u = Token(m + 1, Out[n][1], MergedBranch(On(tokens, n))),
         NEW after, after = (tokens \ On(tokens, n)) \cup {u}, IsFiniteSet(after)
  PROVE  Housed(Homes, after, [counter EXCEPT ![n] = NoArrival], active)
<1>. DEFINE here == On(tokens, n)
            home == UNION Homes[n]
<1>1. Joining(n) /\ ~ Splitting(n)
  BY JoiningIsNoSplit DEF Full
<1>2. PICK h : Dwelt(Homes, tokens, h) /\ (active => Balanced(Homes, tokens, h))
  BY DEF Housed
<1>3. \A H \in Homes[n] : \E t \in here : h[t.id] = H
  BY <1>1, <1>2, FullHouse
<1>4. \A t \in here : t \in tokens /\ t.node = n /\ h[t.id] \in Homes[n]
  BY <1>2 DEF On, Dwelt
<1>5. here # {} /\ here \subseteq tokens
  <2>1. here # {} \/ Cardinality(here) = 0
    BY FS_EmptySet
  <2>2. Cardinality(here) >= InDegree(n) /\ InDegree(n) \in Nat /\ InDegree(n) > 1
    BY <1>1, HomesAreSets DEF Full
  <2>. QED BY <1>4, <2>1, <2>2
<1>6. PICK b \in here : MergedBranch(here) = b.branch
  <2>. HIDE DEF here
  <2>. QED BY <1>5, MergedIsOne
<1>7. u.id = m + 1 /\ u.node = Out[n][1] /\ u.branch = b.branch
  BY <1>6, Anew
<1>8. home \in Homes[Out[n][1]]
  BY <1>1 DEF Divides, Passes
<1>. DEFINE g == [x \in 1 .. (m + 1) |-> IF x <= m THEN h[x] ELSE home]
<1>9. \A t \in tokens : g[t.id] = h[t.id] /\ t.id \in 1 .. m
  BY DEF TokensOk
<1>10. g[u.id] = home
  BY <1>7
<1>. HIDE DEF g, home, here
<1>11. \A v \in after : v = u \/ (v \in tokens /\ v \notin here)
  BY DEF here
<1>12. ASSUME NEW t \in tokens, t \notin here
       PROVE  t \in after /\ g[t.id] \cap home = {} /\ h[t.id] # {}
  <2>1. \A H \in Homes[n] : h[t.id] \cap H = {}
    <3>. TAKE H \in Homes[n]
    <3>1. PICK v \in here : h[v.id] = H
      BY <1>3
    <3>2. v \in tokens /\ v # t
      BY <1>4, <1>12
    <3>. QED BY <1>2, <3>1, <3>2 DEF Dwelt, TokensOk
  <2>2. h[t.id] \in Homes[t.node] /\ t.node \in Node
    BY <1>2 DEF Dwelt, TokensOk
  <2>. QED BY <1>9, <1>12, <2>1, <2>2, HomesAreSets DEF here, home
<1>13. Dwelt(Homes, after, g)
  <2>1. \A v \in after : g[v.id] \in Homes[v.node]
    BY <1>2, <1>7, <1>8, <1>9, <1>10, <1>11 DEF Dwelt
  <2>2. ASSUME NEW v \in after, NEW x \in after, v.id # x.id PROVE g[v.id] \cap g[x.id] = {}
    <3>1. CASE v # u /\ x # u
      BY <1>2, <1>9, <1>11, <2>2, <3>1 DEF Dwelt
    <3>2. CASE v = u \/ x = u
      BY <1>10, <1>11, <1>12, <2>2, <3>2
    <3>. QED BY <3>1, <3>2
  <2>3. ASSUME NEW v \in after, NEW s \in Node, Splitting(s), v.branch[1] = s, NEW H \in Homes[s]
        PROVE  g[v.id] \cap H # {}
    <3>1. CASE v # u
      BY <1>2, <1>9, <1>11, <2>3, <3>1 DEF Dwelt
    <3>2. CASE v = u
      <4>1. h[b.id] \cap H # {}
        BY <1>2, <1>4, <1>7, <2>3, <3>2 DEF Dwelt
      <4>2. h[b.id] \subseteq home
        BY <1>4 DEF home
      <4>. QED BY <1>10, <3>2, <4>1, <4>2
    <3>. QED BY <3>1, <3>2
  <2>. QED BY <2>1, <2>2, <2>3 DEF Dwelt
<1>14. ASSUME active PROVE Balanced(Homes, after, g)
  <2>1. ASSUME NEW j \in Node, Joining(j), j # n, NEW K \in Homes[j]
        PROVE  Lives(tokens, h, K) <=> Lives(after, g, K)
    <3>1. ASSUME NEW t \in tokens, h[t.id] \subseteq K PROVE Lives(after, g, K)
      <4>1. CASE t \in here
        <5>1. home \subseteq K
          BY <1>1, <1>4, <2>1, <3>1, <4>1 DEF Divides, Encloses, home
        <5>. QED BY <1>10, <5>1 DEF Lives
      <4>2. CASE t \notin here
        BY <1>9, <1>12, <3>1, <4>2 DEF Lives
      <4>. QED BY <4>1, <4>2
    <3>2. ASSUME NEW v \in after, g[v.id] \subseteq K PROVE Lives(tokens, h, K)
      <4>1. CASE v = u
        <5>1. h[b.id] \subseteq K
          BY <1>4, <1>10, <3>2, <4>1 DEF home
        <5>. QED BY <1>4, <5>1 DEF Lives
      <4>2. CASE v # u
        BY <1>9, <1>11, <3>2, <4>2 DEF Lives
      <4>. QED BY <4>1, <4>2
    <3>. QED BY <3>1, <3>2 DEF Lives
  <2>2. ASSUME NEW K \in Homes[n] PROVE ~ Lives(after, g, K)
    <3>. SUFFICES ASSUME NEW v \in after, g[v.id] \subseteq K PROVE FALSE
      BY DEF Lives
    <3>1. K \subseteq home
      BY DEF home
    <3>2. CASE v # u
      BY <1>9, <1>11, <1>12, <3>1, <3>2
    <3>3. CASE v = u
      <4>1. \A H \in Homes[n] : H = K
        <5>. TAKE H \in Homes[n]
        <5>1. H \subseteq K /\ H # {}
          BY <1>10, <3>3, HomesAreSets DEF home
        <5>. QED BY <1>1, <5>1, HomesAreSets
      <4>2. Homes[n] = {K}
        BY <4>1
      <4>3. Cardinality(Homes[n]) = 1
        BY <4>2, FS_Singleton
      <4>. QED BY <1>1, <4>3, HomesAreSets
    <3>. QED BY <3>2, <3>3
  <2>3. Balanced(Homes, tokens, h)
    BY <1>2, <1>14
  <2>4. ASSUME NEW j \in Node, Joining(j), NEW H \in Homes[j], NEW K \in Homes[j], Lives(after, g, H)
        PROVE  Lives(after, g, K)
    <3>1. j # n
      BY <2>2, <2>4
    <3>2. Lives(tokens, h, H)
      BY <2>1, <2>4, <3>1
    <3>3. Lives(tokens, h, K)
      BY <2>3, <2>4, <3>2 DEF Balanced
    <3>. QED BY <2>1, <2>4, <3>1, <3>3
  <2>. QED BY <2>4 DEF Balanced
<1>15. CountsOk([counter EXCEPT ![n] = NoArrival], after)
  <2>. DEFINE c == [counter EXCEPT ![n] = NoArrival]
  <2>1. /\ CountsOk(c, tokens) /\ DOMAIN counter = Node
        /\ c[n].received = 0 /\ c[n].expected = 0
    BY DEF Housed, CountsOk, NoArrival
  <2>. HIDE DEF c
  <2>2. ASSUME NEW j \in Node, Joining(j), j # n PROVE c[j].received \in 0 .. Cardinality(On(after, j))
    <3>1. On(tokens, j) \subseteq On(after, j)
      BY <2>2 DEF On
    <3>2. IsFiniteSet(On(after, j)) /\ IsFiniteSet(On(tokens, j))
      BY FS_Subset DEF On, TokensOk
    <3>3. /\ Cardinality(On(tokens, j)) <= Cardinality(On(after, j))
          /\ Cardinality(On(tokens, j)) \in Nat /\ Cardinality(On(after, j)) \in Nat
      BY <3>1, <3>2, FS_Subset, FS_CardinalityType
    <3>4. c[j].received \in 0 .. Cardinality(On(tokens, j))
      BY <2>1, <2>2 DEF CountsOk
    <3>. QED BY <3>3, <3>4
  <2>3. c[n].received \in 0 .. Cardinality(On(after, n))
    <3>1. IsFiniteSet(On(after, n))
      BY FS_Subset DEF On
    <3>2. Cardinality(On(after, n)) \in Nat
      BY <3>1, FS_CardinalityType
    <3>. QED BY <2>1, <3>2
  <2>4. CountsOk(c, after)
    BY <2>1, <2>2, <2>3 DEF CountsOk
  <2>. QED BY <2>4 DEF c
<1>. QED BY <1>13, <1>14, <1>15 DEF Housed

\* The events.
LEMMA EventHoused ==
  ASSUME NEW Homes, Divides(Homes), TaskInv, TaskInv', HouseInv(Homes), EventMade
  PROVE  Housed(Homes, run'.tokens, run'.counter, run'.status = "ACTIVE")
<1>1. TokensOk(inst.tokens, inst.made) /\ inst.made \in Nat
      /\ Housed(Homes, inst.tokens, inst.counter, inst.status = "ACTIVE")
  BY DEF TaskInv, HouseInv
<1>2. run'.counter = inst.counter
  BY DEF EventMade
<1>3. IsFiniteSet(run'.tokens) /\ TokensOk(run'.tokens, run'.made)
  BY DEF TaskInv, CopyOk, TokensOk, EventMade
<1>4. CASE inst.status = "NEW" /\ run'.tokens = {Token(1, Out[Start][1], <<Start, 0>>)}
  <2>1. PICK t : t = Token(1, Out[Start][1], <<Start, 0>>) /\ run'.tokens = {t}
    BY <1>4
  <2>. DEFINE n == Out[Start][1]
  <2>2. t.id = 1 /\ t.node = n /\ t.branch[1] = Start
    BY <2>1, Anew
  <2>3. Kind[Start] = "START" /\ Start \in Node /\ 1 \in DOMAIN Out[Start]
    BY GraphAssumption, FirstTarget
  <2>4. Homes[Start] # {} /\ Homes[Start] \subseteq Homes[n]
    BY <2>3, PassesOn DEF Divides
  <2>5. PICK H \in Homes[Start] : TRUE
    BY <2>4
  <2>6. PICK h : h = [x \in {1} |-> H]
    OBVIOUS
  <2>. HIDE DEF n
  <2>7. Dwelt(Homes, run'.tokens, h)
    BY <2>1, <2>2, <2>3, <2>4, <2>5, <2>6 DEF Dwelt, Splitting
  <2>8. ASSUME NEW j \in Node, Joining(j), NEW K \in Homes[j] PROVE ~ Lives(run'.tokens, h, K)
    <3>1. ~ (H \subseteq K)
      BY <2>3, <2>5, <2>8 DEF Divides, Encloses
    <3>. QED BY <2>1, <2>2, <2>6, <3>1 DEF Lives
  <2>9. Balanced(Homes, run'.tokens, h)
    BY <2>8 DEF Balanced
  <2>10. StaysOnJoins(inst.tokens, run'.tokens)
    BY <1>4 DEF HouseInv, StaysOnJoins, On
  <2>11. CountsOk(run'.counter, run'.tokens)
    BY <1>1, <1>2, <1>3, <2>10, CountsKept DEF Housed, TokensOk
  <2>. QED BY <2>7, <2>9, <2>11 DEF Housed
<1>5. ASSUME NEW n \in Node, NEW t \in inst.tokens, t.node = n, inst.status = "ACTIVE",
             Kind[n] \in {"HUMAN_TASK", "SERVICE_TASK", "SUB_PROCESS"},
             run'.tokens = Advance(inst.tokens, t, Out[n][1])
      PROVE  Housed(Homes, run'.tokens, run'.counter, TRUE)
  <2>1. ~ Joining(n) /\ Homes[n] \subseteq Homes[Out[n][1]] /\ Out[n][1] \in Node
    BY <1>5, PassesOn, FirstTarget DEF Joining
  <2>2. TokensOk(Advance(inst.tokens, t, Out[n][1]), inst.made)
    BY <1>1, <2>1, AdvanceMoves
  <2>3. Housed(Homes, inst.tokens, inst.counter, TRUE)
    BY <1>1, <1>5
  <2>. QED BY <1>1, <1>2, <1>5, <2>1, <2>2, <2>3, AdvanceHoused
<1>6. ASSUME NEW n \in Node, Kind[n] = "SERVICE_TASK", run'.tokens = inst.tokens \ On(inst.tokens, n),
             run'.status = "ERROR"
      PROVE  Housed(Homes, run'.tokens, run'.counter, run'.status = "ACTIVE")
  <2>1. PICK h : Dwelt(Homes, inst.tokens, h)
    BY <1>1 DEF Housed
  <2>2. Follows(Homes, inst.tokens, run'.tokens) /\ StaysOnJoins(inst.tokens, run'.tokens)
    BY <1>6 DEF Follows, StaysOnJoins, On, Joining
  <2>3. Dwelt(Homes, run'.tokens, h)
    BY <2>1, <2>2, HomesKept
  <2>4. CountsOk(run'.counter, run'.tokens)
    BY <1>1, <1>2, <1>3, <2>2, CountsKept DEF Housed, TokensOk
  <2>. QED BY <1>6, <2>3, <2>4 DEF Housed
<1>. QED BY <1>4, <1>5, <1>6 DEF EventMade

\* Entering a node.
LEMMA EntryHoused ==
  ASSUME NEW Homes, Divides(Homes), TaskInv, TaskInv', BranchInv, HouseInv(Homes), GatewaysHeld,
         NEW n, Entry(n)
  PROVE  Housed(Homes, run'.tokens, run'.counter, run'.status = "ACTIVE")
<1>. DEFINE m == run.made
<1>1. n \in Node /\ call # "idle" /\ call' # "idle" /\ agenda # <<>> /\ n = Head(agenda)
  BY DEF Entry
<1>2. /\ TokensOk(run.tokens, m) /\ m \in Nat /\ Branched(run.tokens)
      /\ Housed(Homes, run.tokens, run.counter, run.status = "ACTIVE")
  BY <1>1 DEF TaskInv, CopyOk, BranchInv, HouseInv
<1>3. TokensOk(run'.tokens, run'.made) /\ IsFiniteSet(run'.tokens)
  BY <1>1 DEF TaskInv, CopyOk, TokensOk
<1>4. IsFiniteSet(run.tokens) /\ CountsOk(run.counter, run.tokens)
  BY <1>2 DEF TokensOk, Housed
<1>5. PICK h : Dwelt(Homes, run.tokens, h) /\ (run.status = "ACTIVE" => Balanced(Homes, run.tokens, h))
  BY <1>2 DEF Housed
<1>6. CASE Parked(n)
  <2>1. CountsOk(run'.counter, run.tokens) /\ run'.status = run.status
    BY <1>1, <1>4, <1>6, OnlyFullFire DEF Parked
  <2>2. /\ Follows(Homes, run.tokens, run'.tokens) /\ StaysOnJoins(run.tokens, run'.tokens)
        /\ \A t \in run.tokens : \E u \in run'.tokens : u.id = t.id
    <3>1. CASE run'.tokens = run.tokens
      BY <3>1 DEF Follows, StaysOnJoins
    <3>2. ASSUME NEW t \in run.tokens, t.node = n, n \in Activity,
                 run'.tokens = (run.tokens \ {t}) \cup {Asking(t)}
          PROVE  <2>2!:
      <4>1. Asking(t).id = t.id /\ Asking(t).node = t.node /\ Asking(t).branch = t.branch
        BY <1>2, Copied
      <4>. QED BY <3>2, <4>1 DEF Follows, StaysOnJoins, On, Joining, Activity, Requests
    <3>. QED BY <1>6, <3>1, <3>2 DEF Parked
  <2>3. CountsOk(run'.counter, run'.tokens)
    BY <1>3, <1>4, <2>1, <2>2, CountsKept
  <2>4. Dwelt(Homes, run'.tokens, h) /\ (run'.status = "ACTIVE" => Balanced(Homes, run'.tokens, h))
    BY <1>5, <2>1, <2>2, HomesKept
  <2>. QED BY <2>3, <2>4 DEF Housed
<1>7. CASE Ended(n)
  <2>1. Kind[n] = "END" /\ run'.counter = run.counter
    BY <1>7 DEF Ended
  <2>2. CASE run'.tokens = run.tokens \ On(run.tokens, n) /\ run'.status = run.status
    <3>1. Follows(Homes, run.tokens, run'.tokens) /\ StaysOnJoins(run.tokens, run'.tokens)
      BY <2>1, <2>2 DEF Follows, StaysOnJoins, On, Joining
    <3>2. CountsOk(run'.counter, run'.tokens)
      BY <1>3, <1>4, <2>1, <3>1, CountsKept
    <3>3. Dwelt(Homes, run'.tokens, h)
      BY <1>5, <3>1, HomesKept
    <3>4. ASSUME NEW j \in Node, Joining(j), NEW K \in Homes[j], Lives(run.tokens, h, K)
          PROVE  Lives(run'.tokens, h, K)
      <4>1. PICK t \in run.tokens : h[t.id] \subseteq K
        BY <3>4 DEF Lives
      <4>2. t.node # n
        BY <1>1, <1>5, <2>1, <3>4, <4>1 DEF Dwelt, Divides, Encloses
      <4>. QED BY <2>2, <4>1, <4>2 DEF Lives, On
    <3>5. \A K : Lives(run'.tokens, h, K) => Lives(run.tokens, h, K)
      BY <2>2 DEF Lives
    <3>6. run'.status = "ACTIVE" => Balanced(Homes, run'.tokens, h)
      BY <1>5, <2>2, <3>4, <3>5 DEF Balanced
    <3>. QED BY <3>2, <3>3, <3>6 DEF Housed
  <2>3. CASE run'.tokens = {} /\ \A t \in run.tokens : t.node = n \/ Kind[t.node] = "END"
    <3>1. StaysOnJoins(run.tokens, run'.tokens)
      BY <2>1, <2>3 DEF StaysOnJoins, On, Joining
    <3>2. CountsOk(run'.counter, run'.tokens)
      BY <1>3, <1>4, <2>1, <3>1, CountsKept
    <3>3. Dwelt(Homes, run'.tokens, h) /\ Balanced(Homes, run'.tokens, h)
      BY <2>3 DEF Dwelt, Balanced, Lives
    <3>. QED BY <3>2, <3>3 DEF Housed
  <2>. QED BY <1>7, <2>2, <2>3 DEF Ended
<1>8. CASE Chosen(n)
  <2>1. PICK t \in run.tokens, i \in DOMAIN Out[n] :
          t.node = n /\ run'.tokens = Advance(run.tokens, t, Out[n][i])
    BY <1>8 DEF Chosen
  <2>2. Kind[n] = "EXCLUSIVE_GATEWAY" /\ run'.status = run.status /\ run'.counter = run.counter
    BY <1>8 DEF Chosen
  <2>3. ~ Joining(n) /\ Homes[n] \subseteq Homes[Out[n][i]] /\ Out[n][i] \in Node
    BY <1>1, <2>2, PassesOn, Targets DEF Joining
  <2>4. TokensOk(Advance(run.tokens, t, Out[n][i]), m)
    BY <1>2, <2>3, AdvanceMoves
  <2>5. Housed(Homes, Advance(run.tokens, t, Out[n][i]), run.counter, run.status = "ACTIVE")
    BY <1>2, <2>1, <2>3, <2>4, AdvanceHoused
  <2>. QED BY <2>1, <2>2, <2>5
<1>9. CASE Divided(n)
  <2>1. /\ Splitting(n) /\ run'.status = run.status /\ run'.counter = run.counter
        /\ run'.tokens = (run.tokens \ On(run.tokens, n)) \cup Parts(m, n)
    BY <1>9 DEF Divided
  <2>2. On(run.tokens, n) # {}
    BY <1>1, <2>1 DEF GatewaysHeld, Splitting
  <2>3. Housed(Homes, run'.tokens, run.counter, run.status = "ACTIVE")
    BY <1>1, <1>2, <1>3, <2>1, <2>2, SplitHoused
  <2>. QED BY <2>1, <2>3
<1>10. CASE United(n)
  <2>1. PICK u : u = Token(m + 1, Out[n][1], MergedBranch(On(run.tokens, n)))
    OBVIOUS
  <2>2. /\ Joining(n) /\ JoinComplete(n) /\ run'.status = run.status
        /\ run'.counter = [run.counter EXCEPT ![n] = NoArrival]
        /\ run'.tokens = (run.tokens \ On(run.tokens, n)) \cup {u}
    BY <1>10, <2>1 DEF United
  <2>3. Full(run.tokens, n) /\ CountsOk([run.counter EXCEPT ![n] = NoArrival], run.tokens)
    BY <1>1, <1>4, <2>2, OnlyFullFire
  <2>4. Housed(Homes, run'.tokens, [run.counter EXCEPT ![n] = NoArrival], run.status = "ACTIVE")
    BY <1>1, <1>2, <1>3, <2>1, <2>2, <2>3, JoinHoused
  <2>. QED BY <2>2, <2>4
<1>. QED BY <1>6, <1>7, <1>8, <1>9, <1>10 DEF Entry

\* The caller's record of who waits for a child changes nobody's place.
LEMMA WaitingKeepsPlaces ==
  ASSUME NEW tokens, NEW m, TokensOk(tokens, m), NEW after, after = {Waiting(t) : t \in tokens}
  PROVE  /\ \A u \in after : \E t \in tokens : u = Waiting(t)
         /\ \A t \in tokens : Waiting(t) \in after
         /\ \A n : Cardinality(On(after, n)) = Cardinality(On(tokens, n))
<1>1. /\ \A u \in after : \E t \in tokens : u = Waiting(t)
      /\ \A t \in tokens : Waiting(t) \in after
  OBVIOUS
<1>2. ASSUME NEW n PROVE Cardinality(On(after, n)) = Cardinality(On(tokens, n))
  <2>. DEFINE f == [t \in On(tokens, n) |-> Waiting(t)]
  <2>1. IsFiniteSet(On(tokens, n)) /\ On(tokens, n) \subseteq tokens
    BY FS_Subset DEF TokensOk, On
  <2>2. \A t \in tokens : Waiting(t).id = t.id /\ Waiting(t).node = t.node
    BY Copied
  <2>3. f \in Surjection(On(tokens, n), On(after, n))
    <3>1. \A t \in On(tokens, n) : Waiting(t) \in On(after, n)
      BY <1>1, <2>2 DEF On
    <3>2. \A u \in On(after, n) : \E t \in On(tokens, n) : Waiting(t) = u
      BY <1>1, <2>2 DEF On
    <3>. QED BY <3>1, <3>2 DEF Surjection
  <2>4. f \in Injection(On(tokens, n), On(after, n))
    <3>1. f \in [On(tokens, n) -> On(after, n)]
      BY <2>3 DEF Surjection
    <3>2. ASSUME NEW t \in On(tokens, n), NEW u \in On(tokens, n), f[t] = f[u] PROVE t = u
      BY <2>1, <2>2, <3>2 DEF TokensOk
    <3>. HIDE DEF f
    <3>. QED BY <3>1, <3>2 DEF Injection, IsInjective
  <2>. HIDE DEF f
  <2>. QED BY <2>1, <2>3, <2>4, FS_Surjection
<1>. QED BY <1>1, <1>2

LEMMA CommitHoused ==
  ASSUME NEW Homes, TaskInv, TaskInv', HouseInv(Homes), Committed
  PROVE  HouseInv(Homes)'
<1>1. CASE /\ agenda = <<>> /\ call # "idle" /\ call' = "idle"
           /\ inst'.status = run.status /\ inst'.counter = run.counter
           /\ inst'.tokens = {Waiting(t) : t \in run.tokens}
  <2>1. TokensOk(run.tokens, run.made) /\ run.status # "NEW"
        /\ Housed(Homes, run.tokens, run.counter, run.status = "ACTIVE")
    BY <1>1 DEF TaskInv, CopyOk, HouseInv
  <2>2. PICK h : Dwelt(Homes, run.tokens, h) /\ (run.status = "ACTIVE" => Balanced(Homes, run.tokens, h))
    BY <2>1 DEF Housed
  <2>3. PICK after : after = inst'.tokens /\ after = {Waiting(t) : t \in run.tokens}
    BY <1>1
  <2>4. /\ \A u \in after : \E t \in run.tokens : u = Waiting(t)
        /\ \A t \in run.tokens : Waiting(t) \in after
        /\ \A n : Cardinality(On(after, n)) = Cardinality(On(run.tokens, n))
    BY <2>1, <2>3, WaitingKeepsPlaces
  <2>5. \A t \in run.tokens : /\ Waiting(t).id = t.id /\ Waiting(t).node = t.node
                              /\ Waiting(t).branch = t.branch
    BY <2>1, Copied
  <2>6. Follows(Homes, run.tokens, after) /\ \A t \in run.tokens : \E u \in after : u.id = t.id
    BY <2>4, <2>5 DEF Follows
  <2>7. Dwelt(Homes, after, h) /\ (run.status = "ACTIVE" => Balanced(Homes, after, h))
    BY <2>2, <2>6, HomesKept
  <2>8. CountsOk(run.counter, after)
    BY <2>1, <2>4 DEF Housed, CountsOk
  <2>. QED BY <1>1, <2>1, <2>3, <2>7, <2>8 DEF HouseInv, Housed
<1>2. CASE /\ call' = "idle" /\ inst'.tokens = inst.tokens /\ inst'.counter = inst.counter
           /\ inst'.status \in {inst.status, "ERROR"}
  BY <1>2 DEF HouseInv, Housed
<1>. QED BY <1>1, <1>2 DEF Committed

LEMMA HousesInductive ==
  ASSUME NEW Homes, Divides(Homes), TaskInv, TaskInv', BranchInv, HouseInv(Homes), GatewaysHeld,
         [KernelNext]_kernelVars
  PROVE  HouseInv(Homes)'
<1>1. CASE EventMade
  BY <1>1, EventHoused DEF EventMade, HouseInv
<1>2. CASE Enter
  <2>1. PICK n : Entry(n)
    BY <1>2, EnterMakes
  <2>. QED BY <2>1, EntryHoused DEF Entry, HouseInv
<1>3. CASE Committed
  BY <1>3, CommitHoused
<1>4. CASE UNCHANGED kernelVars
  BY <1>4 DEF kernelVars, HouseInv
<1>. QED BY <1>1, <1>2, <1>3, <1>4, EventMakes, CommitMakes DEF KernelNext

-----------------------------------------------------------------------------
(* How far a call gets, for the graphs of which Settles holds.  Whatever   *)
(* is still to be entered holds a token, because a token that leaves a     *)
(* node leaves none of the nodes behind it in the agenda bare.             *)

Still(tokens, n) == Rest(n) /\ ~ Full(tokens, n)

\* Each token is where it may stay or will be entered.
AtRest(tokens, nodes) == \A t \in tokens : Rest(t.node) \/ t.node \in Entered(nodes)

\* The one join that may be full is about to fire.
HeadFull(tokens, nodes) == \A n \in Node : Full(tokens, n) => nodes # <<>> /\ n = Head(nodes)

EntriesHeld(tokens, nodes) == \A i \in DOMAIN nodes : Kind[nodes[i]] # "END" => On(tokens, nodes[i]) # {}

EnteredOnce(nodes) ==
  \A i, k \in DOMAIN nodes :
    i # k /\ nodes[i] = nodes[k] => Joining(nodes[i]) \/ Kind[nodes[i]] = "END"

\* Several nodes are left only of branches that settle.
Settled(S, tokens, nodes) ==
  Len(nodes) > 1 => \A i \in DOMAIN nodes : nodes[i] \in S \/ Still(tokens, nodes[i])

\* A join to be entered later was there before the split: so was all before it.
JoinsFirst(tokens, nodes) ==
  \A i, k \in DOMAIN nodes : i <= k /\ 1 < k /\ Joining(nodes[k]) => Still(tokens, nodes[i])

Settling(S, tokens, nodes) ==
  /\ AtRest(tokens, nodes) /\ HeadFull(tokens, nodes) /\ EntriesHeld(tokens, nodes)
  /\ EnteredOnce(nodes) /\ Settled(S, tokens, nodes) /\ JoinsFirst(tokens, nodes)

SettleInv(S) ==
  /\ Settling(S, inst.tokens, <<>>)
  /\ call # "idle" => Settling(S, run.tokens, agenda)

LEMMA InTail ==
  ASSUME NEW nodes \in Seq(Node), nodes # <<>>
  PROVE  /\ 1 \in DOMAIN nodes /\ nodes[1] = Head(nodes) /\ DOMAIN nodes = 1 .. Len(nodes)
         /\ Len(nodes) \in Nat /\ Len(Tail(nodes)) = Len(nodes) - 1
         /\ \A i \in DOMAIN Tail(nodes) :
              i \in Nat /\ i > 0 /\ i + 1 \in DOMAIN nodes /\ Tail(nodes)[i] = nodes[i + 1]
         /\ \A i \in DOMAIN nodes : i # 1 => i - 1 \in DOMAIN Tail(nodes) /\ Tail(nodes)[i - 1] = nodes[i]
         /\ Entered(nodes) \subseteq {Head(nodes)} \cup Entered(Tail(nodes))
         /\ Entered(Tail(nodes)) \subseteq Entered(nodes)
<1>0. Tail(nodes) \in Seq(Node)
  OBVIOUS
<1>1. PICK back \in Seq(Node) : back = Tail(nodes)
  BY <1>0
<1>2. /\ 1 \in DOMAIN nodes /\ nodes[1] = Head(nodes) /\ DOMAIN nodes = 1 .. Len(nodes)
      /\ Len(nodes) \in Nat /\ Len(back) = Len(nodes) - 1 /\ DOMAIN back = 1 .. (Len(nodes) - 1)
  BY <1>1
<1>3. \A i \in DOMAIN back : i \in Nat /\ i > 0 /\ i + 1 \in DOMAIN nodes /\ back[i] = nodes[i + 1]
  BY <1>1, <1>2
<1>4. \A i \in DOMAIN nodes : i # 1 => i - 1 \in DOMAIN back /\ back[i - 1] = nodes[i]
  BY <1>2, <1>3
<1>5. Entered(nodes) \subseteq {Head(nodes)} \cup Entered(back)
  <2>1. \A i \in DOMAIN nodes : nodes[i] = Head(nodes) \/ \E j \in DOMAIN back : back[j] = nodes[i]
    BY <1>2, <1>4
  <2>. QED BY <2>1 DEF Entered
<1>6. Entered(back) \subseteq Entered(nodes)
  <2>1. \A i \in DOMAIN back : \E j \in DOMAIN nodes : nodes[j] = back[i]
    BY <1>3
  <2>. QED BY <2>1 DEF Entered
<1>. QED BY <1>1, <1>2, <1>3, <1>4, <1>5, <1>6

HeadBecomes(nodes, m) == <<m>> \o Tail(nodes)

LEMMA HeadReplaced ==
  ASSUME NEW nodes \in Seq(Node), nodes # <<>>, NEW m \in Node, NEW next, next = HeadBecomes(nodes, m)
  PROVE  /\ next # <<>> /\ Head(next) = m /\ Len(next) = Len(nodes) /\ DOMAIN next = DOMAIN nodes
         /\ 1 \in DOMAIN next /\ next[1] = m
         /\ \A i \in DOMAIN nodes : i # 1 => next[i] = nodes[i]
         /\ Entered(next) = {m} \cup Entered(Tail(nodes))
<1>0. Tail(nodes) \in Seq(Node)
  OBVIOUS
<1>1. PICK back \in Seq(Node) : back = Tail(nodes)
  BY <1>0
<1>2. /\ 1 \in DOMAIN nodes /\ DOMAIN nodes = 1 .. Len(nodes)
      /\ Len(nodes) \in Nat /\ Len(back) = Len(nodes) - 1 /\ DOMAIN back = 1 .. (Len(nodes) - 1)
  BY <1>1
<1>3. /\ next \in Seq(Node) /\ Len(next) = Len(nodes) /\ DOMAIN next = 1 .. Len(nodes)
      /\ next[1] = m /\ \A i \in 2 .. Len(nodes) : next[i] = back[i - 1]
  BY <1>1, <1>2 DEF HeadBecomes
<1>4. next # <<>> /\ Head(next) = m
  BY <1>2, <1>3
<1>5. \A i \in DOMAIN nodes : i # 1 => next[i] = nodes[i] /\ i \in 2 .. Len(nodes)
  BY <1>1, <1>2, <1>3
<1>6. Entered(next) \subseteq {m} \cup Entered(back)
  <2>1. \A i \in DOMAIN next : next[i] = m \/ (i - 1 \in DOMAIN back /\ next[i] = back[i - 1])
    BY <1>2, <1>3
  <2>. QED BY <2>1 DEF Entered
<1>7. {m} \cup Entered(back) \subseteq Entered(next)
  <2>1. \A i \in DOMAIN back : i + 1 \in DOMAIN next /\ next[i + 1] = back[i]
    BY <1>2, <1>3
  <2>. QED BY <1>2, <1>3, <2>1 DEF Entered
<1>. QED BY <1>1, <1>2, <1>3, <1>4, <1>5, <1>6, <1>7

\* A node that keeps its tokens, or an END.
LEMMA ParkSettles ==
  ASSUME NEW S, NEW before, NEW after, NEW nodes \in Seq(Node), nodes # <<>>,
         Settling(S, before, nodes), ~ Full(before, Head(nodes)),
         \A u \in after : \E t \in before : u.node = t.node,
         \A t \in before : Kind[t.node] = "END" \/ \E u \in after : u.node = t.node,
         \A u \in after : u.node = Head(nodes) => Rest(u.node),
         \A j \in Node : Joining(j) => Cardinality(On(after, j)) = Cardinality(On(before, j))
  PROVE  Settling(S, after, Tail(nodes))
<1>. DEFINE back == Tail(nodes)
<1>1. /\ 1 \in DOMAIN nodes /\ nodes[1] = Head(nodes) /\ DOMAIN nodes = 1 .. Len(nodes)
      /\ Len(nodes) \in Nat /\ Len(back) = Len(nodes) - 1
      /\ \A i \in DOMAIN back : i \in Nat /\ i > 0 /\ i + 1 \in DOMAIN nodes /\ back[i] = nodes[i + 1]
      /\ Entered(nodes) \subseteq {Head(nodes)} \cup Entered(back)
  BY InTail
<1>. HIDE DEF back
<1>2. \A n \in Node : Full(after, n) <=> Full(before, n)
  BY DEF Full
<1>3. \A i \in DOMAIN nodes : nodes[i] \in Node
  OBVIOUS
<1>4. \A n \in Node : Still(after, n) <=> Still(before, n)
  BY <1>2 DEF Still
<1>5. AtRest(after, back)
  BY <1>1 DEF Settling, AtRest
<1>6. HeadFull(after, back)
  BY <1>2 DEF Settling, HeadFull
<1>7. EntriesHeld(after, back)
  <2>1. \A n : On(before, n) # {} /\ Kind[n] # "END" => On(after, n) # {}
    BY DEF On
  <2>. QED BY <1>1, <2>1 DEF Settling, EntriesHeld
<1>8. EnteredOnce(back)
  <2>1. \A i, k \in DOMAIN back : i # k => i + 1 # k + 1
    BY <1>1
  <2>. QED BY <1>1, <2>1 DEF Settling, EnteredOnce
<1>9. Settled(S, after, back)
  <2>1. Len(back) > 1 => Len(nodes) > 1
    BY <1>1
  <2>2. \A i \in DOMAIN back : back[i] \in Node
    BY <1>1, <1>3
  <2>. QED BY <1>1, <1>4, <2>1, <2>2 DEF Settling, Settled
<1>10. JoinsFirst(after, back)
  <2>1. \A i, k \in DOMAIN back : i <= k /\ 1 < k => i + 1 <= k + 1 /\ 1 < k + 1
    BY <1>1
  <2>2. \A i \in DOMAIN back : back[i] \in Node
    BY <1>1, <1>3
  <2>. QED BY <1>1, <1>4, <2>1, <2>2 DEF Settling, JoinsFirst
<1>. QED BY <1>5, <1>6, <1>7, <1>8, <1>9, <1>10 DEF Settling, back

\* The tokens of one node replaced by one on another.
Replaced(before, n, m, after) ==
  /\ \A u \in after : u.node = m \/ (u.node # n /\ u \in before)
  /\ \A t \in before : t.node = n \/ t \in after
  /\ \E u \in after : u.node = m /\ (u \in before => m = n)
  /\ \A u, v \in after : u.node = v.node /\ ~ Joining(u.node) /\ Kind[u.node] # "END" => u = v
  /\ \A x \in Node : Full(after, x) => x = m

LEMMA MoveSettles ==
  ASSUME NEW S, NEW before, NEW after, NEW nodes \in Seq(Node), nodes # <<>>, NEW m \in Node, NEW next,
         next = HeadBecomes(nodes, m), Settling(S, before, nodes),
         ~ Still(before, Head(nodes)), Kind[Head(nodes)] # "END", Head(nodes) \in S => m \in S,
         Replaced(before, Head(nodes), m, after)
  PROVE  Settling(S, after, next)
<1>. DEFINE n == Head(nodes)
<1>1. /\ next # <<>> /\ Head(next) = m /\ Len(next) = Len(nodes) /\ DOMAIN next = DOMAIN nodes
      /\ 1 \in DOMAIN next /\ next[1] = m
      /\ \A i \in DOMAIN nodes : i # 1 => next[i] = nodes[i]
      /\ Entered(next) = {m} \cup Entered(Tail(nodes))
  BY HeadReplaced
<1>2. /\ 1 \in DOMAIN nodes /\ nodes[1] = n /\ DOMAIN nodes = 1 .. Len(nodes) /\ Len(nodes) \in Nat
      /\ Entered(nodes) \subseteq {n} \cup Entered(Tail(nodes))
  BY InTail
<1>. HIDE DEF n
<1>3. \A i \in DOMAIN nodes : nodes[i] \in Node /\ i \in Nat /\ (i # 1 => 1 < i)
  BY <1>2
<1>4. \A k \in DOMAIN nodes : k # 1 => ~ Joining(nodes[k])
  BY <1>2, <1>3 DEF Settling, JoinsFirst, n
<1>5. \A k \in DOMAIN nodes : k # 1 => nodes[k] # n
  BY <1>2, <1>4 DEF Settling, EnteredOnce, n
<1>6. \A k \in DOMAIN nodes : k # 1 /\ Kind[nodes[k]] # "END" =>
         \E t \in after : t \in before /\ t.node = nodes[k]
  BY <1>5 DEF Settling, EntriesHeld, On, Replaced, n
<1>7. \A k \in DOMAIN nodes : k # 1 /\ Kind[nodes[k]] # "END" => nodes[k] # m
  BY <1>4, <1>5, <1>6 DEF Replaced, n
<1>8. AtRest(after, next)
  BY <1>1, <1>2 DEF Settling, AtRest, Replaced, n
<1>9. HeadFull(after, next)
  BY <1>1 DEF HeadFull, Replaced
<1>10. EntriesHeld(after, next)
  BY <1>1, <1>6 DEF EntriesHeld, On, Replaced
<1>11. EnteredOnce(next)
  <2>. SUFFICES ASSUME NEW i \in DOMAIN next, NEW k \in DOMAIN next, i # k, next[i] = next[k]
                PROVE  Joining(next[i]) \/ Kind[next[i]] = "END"
    BY DEF EnteredOnce
  <2>1. CASE i # 1 /\ k # 1
    BY <1>1, <2>1 DEF Settling, EnteredOnce
  <2>2. CASE i = 1 \/ k = 1
    BY <1>1, <1>7, <2>2
  <2>. QED BY <2>1, <2>2
<1>12. Settled(S, after, next)
  <2>. SUFFICES ASSUME Len(next) > 1, NEW i \in DOMAIN next PROVE next[i] \in S \/ Still(after, next[i])
    BY DEF Settled
  <2>1. CASE i = 1
    BY <1>1, <1>2, <2>1 DEF Settling, Settled, n
  <2>2. CASE i # 1
    <3>1. nodes[i] \in S \/ Still(before, nodes[i])
      BY <1>1 DEF Settling, Settled
    <3>2. ~ Joining(nodes[i]) /\ next[i] = nodes[i]
      BY <1>1, <1>4, <2>2
    <3>. QED BY <3>1, <3>2 DEF Still, Full
  <2>. QED BY <2>1, <2>2
<1>13. JoinsFirst(after, next)
  BY <1>1, <1>3, <1>4 DEF JoinsFirst
<1>. QED BY <1>8, <1>9, <1>10, <1>11, <1>12, <1>13 DEF Settling

\* An event moves one token of an instance at rest.
LEMMA BeginSettles ==
  ASSUME NEW S, NEW before, NEW after, NEW n, NEW m \in Node, Settling(S, before, <<>>),
         Replaced(before, n, m, after)
  PROVE  Settling(S, after, <<m>>)
<1>1. PICK next : next = <<m>>
  OBVIOUS
<1>2. next # <<>> /\ Head(next) = m /\ Len(next) = 1 /\ DOMAIN next = {1} /\ next[1] = m
  BY <1>1
<1>3. Entered(next) = {m} /\ Entered(<<>>) = {}
  BY <1>1, EnteredOne, NothingEntered
<1>4. AtRest(after, next)
  BY <1>3 DEF Settling, AtRest, Replaced
<1>5. HeadFull(after, next)
  BY <1>2 DEF HeadFull, Replaced
<1>6. EntriesHeld(after, next)
  BY <1>2 DEF EntriesHeld, On, Replaced
<1>7. EnteredOnce(next) /\ Settled(S, after, next) /\ JoinsFirst(after, next)
  BY <1>2 DEF EnteredOnce, Settled, JoinsFirst
<1>. QED BY <1>1, <1>4, <1>5, <1>6, <1>7 DEF Settling

LEMMA NothingToSettle ==
  ASSUME NEW S, NEW tokens, \A t \in tokens : Rest(t.node), \A n \in Node : ~ Full(tokens, n)
  PROVE  Settling(S, tokens, <<>>)
<1>1. PICK none : none = <<>>
  OBVIOUS
<1>2. Len(none) = 0 /\ DOMAIN none = {}
  BY <1>1
<1>3. Settling(S, tokens, none)
  BY <1>2 DEF Settling, AtRest, HeadFull, EntriesHeld, EnteredOnce, Settled, JoinsFirst
<1>. QED BY <1>1, <1>3

LEMMA SettledAtFirst == \A Homes, S : Divides(Homes) /\ KernelInit => SettleInv(S)
<1>. SUFFICES ASSUME NEW Homes, NEW S, Divides(Homes), KernelInit PROVE SettleInv(S)
  OBVIOUS
<1>1. inst.tokens = {} /\ call = "idle"
  BY DEF KernelInit
<1>2. \A n \in Node : ~ Full({}, n)
  <2>. SUFFICES ASSUME NEW n \in Node, Joining(n) PROVE ~ (Cardinality(On({}, n)) >= InDegree(n))
    BY DEF Full
  <2>1. On({}, n) = {}
    BY DEF On
  <2>2. Cardinality(On({}, n)) = 0
    BY <2>1, FS_EmptySet
  <2>3. InDegree(n) \in Nat /\ InDegree(n) > 1
    BY HomesAreSets
  <2>. QED BY <2>2, <2>3
<1>3. Settling(S, {}, <<>>)
  BY <1>2, NothingToSettle
<1>. QED BY <1>1, <1>3 DEF SettleInv

LEMMA AdvanceReplaces ==
  ASSUME NEW Homes, Divides(Homes), NEW before, NEW k, TokensOk(before, k), NEW h, Dwelt(Homes, before, h),
         NEW t \in before, NEW n, n = t.node, NEW m \in Node, ~ Joining(n), Kind[n] # "END",
         NEW after, after = Advance(before, t, m), NEW g, Dwelt(Homes, after, g),
         \A x \in Node : Full(before, x) => x = n
  PROVE  Replaced(before, n, m, after)
<1>1. Moved(t, m).id = t.id /\ Moved(t, m).node = m
  BY Copied
<1>2. after = (before \ {t}) \cup {Moved(t, m)}
  BY DEF Advance
<1>3. TokensOk(after, k)
  BY AdvanceMoves
<1>4. \A v \in before : v.node = n => v = t
  BY AloneAtHome
<1>5. \A u \in after : u.node = m \/ (u.node # n /\ u \in before)
  BY <1>1, <1>2, <1>4
<1>6. \A v \in before : v.node = n \/ v \in after
  BY <1>2
<1>7. \E u \in after : u.node = m /\ (u \in before => m = n)
  BY <1>1, <1>2 DEF TokensOk
<1>8. \A u, v \in after : u.node = v.node /\ ~ Joining(u.node) /\ Kind[u.node] # "END" => u = v
  BY <1>3, AloneAtHome
<1>9. ASSUME NEW x \in Node, Full(after, x), x # m PROVE FALSE
  <2>1. Joining(x) /\ x # n
    BY <1>9 DEF Full
  <2>2. On(after, x) = On(before, x)
    BY <1>1, <1>2, <1>9, <2>1 DEF On
  <2>. QED BY <1>9, <2>1, <2>2 DEF Full
<1>. QED BY <1>5, <1>6, <1>7, <1>8, <1>9 DEF Replaced

LEMMA OneIsNotEnough ==
  ASSUME NEW Homes, Divides(Homes), NEW n \in Node, NEW tokens, On(tokens, n) = {}
  PROVE  ~ Full(tokens, n)
<1>1. Joining(n) => InDegree(n) \in Nat /\ InDegree(n) > 1
  BY HomesAreSets
<1>2. Cardinality(On(tokens, n)) = 0
  BY FS_EmptySet
<1>. QED BY <1>1, <1>2 DEF Full

LEMMA UnionReplaces ==
  ASSUME NEW Homes, Divides(Homes), NEW before, NEW k \in Nat, TokensOk(before, k), NEW n \in Node,
         NEW m \in Node, NEW b, NEW after, after = (before \ On(before, n)) \cup {Token(k + 1, m, b)},
         NEW l, TokensOk(after, l), NEW g, Dwelt(Homes, after, g),
         \A x \in Node : Full(before, x) => x = n
  PROVE  Replaced(before, n, m, after)
<1>1. PICK u : u = Token(k + 1, m, b)
  OBVIOUS
<1>2. u.id = k + 1 /\ u.node = m /\ after = (before \ On(before, n)) \cup {u}
  BY <1>1, Anew
<1>3. u \notin before
  BY <1>2 DEF TokensOk
<1>4. \A v \in after : v.node = m \/ (v.node # n /\ v \in before)
  BY <1>2 DEF On
<1>5. \A v \in before : v.node = n \/ v \in after
  BY <1>2 DEF On
<1>6. \E v \in after : v.node = m /\ (v \in before => m = n)
  BY <1>2, <1>3
<1>7. \A v, w \in after : v.node = w.node /\ ~ Joining(v.node) /\ Kind[v.node] # "END" => v = w
  BY AloneAtHome
<1>8. ASSUME NEW x \in Node, Full(after, x), x # m PROVE FALSE
  <2>1. CASE x = n
    <3>1. On(after, x) = {}
      BY <1>2, <1>8, <2>1 DEF On
    <3>. QED BY <1>8, <3>1, OneIsNotEnough
  <2>2. CASE x # n
    <3>1. On(after, x) = On(before, x)
      BY <1>2, <1>8, <2>2 DEF On
    <3>. QED BY <1>8, <2>2, <3>1 DEF Full
  <2>. QED BY <2>1, <2>2
<1>. QED BY <1>4, <1>5, <1>6, <1>7, <1>8 DEF Replaced

\* Places in the array follow the ids.
LEMMA PlacesFollowIds ==
  ASSUME NEW tokens, NEW m \in Nat, TokensOk(tokens, m)
  PROVE  /\ \A i \in DOMAIN ArrayOrder(tokens) :
              \E t \in tokens : Rank(tokens, t) = i /\ ArrayOrder(tokens)[i] = t.node
         /\ \A t, u \in tokens : Rank(tokens, t) <= Rank(tokens, u) => t.id <= u.id
<1>1. DOMAIN ArrayOrder(tokens) = 1 .. Cardinality(tokens)
  BY DEF ArrayOrder
<1>2. ASSUME NEW i \in 1 .. Cardinality(tokens)
      PROVE  \E t \in tokens : Rank(tokens, t) = i /\ ArrayOrder(tokens)[i] = t.node
  <2>1. PICK t : t = CHOOSE x \in tokens : Rank(tokens, x) = i
    OBVIOUS
  <2>2. t \in tokens /\ Rank(tokens, t) = i
    BY <2>1, PlacesTaken
  <2>3. ArrayOrder(tokens)[i] = t.node
    BY <2>1 DEF ArrayOrder
  <2>. QED BY <2>2, <2>3
<1>3. ASSUME NEW t \in tokens, NEW u \in tokens, u.id < t.id
      PROVE  ~ (Rank(tokens, t) <= Rank(tokens, u))
  <2>. DEFINE Below(x) == {v \in tokens : v.id < x.id}
  <2>1. Below(u) \subseteq Below(t) /\ u \in Below(t) /\ u \notin Below(u)
    BY <1>3 DEF TokensOk
  <2>2. IsFiniteSet(Below(u)) /\ IsFiniteSet(Below(t))
    BY FS_Subset DEF TokensOk
  <2>3. Cardinality(Below(u)) <= Cardinality(Below(t)) /\ Cardinality(Below(u)) # Cardinality(Below(t))
    BY <2>1, <2>2, FS_Subset
  <2>4. Cardinality(Below(u)) \in Nat /\ Cardinality(Below(t)) \in Nat
    BY <2>2, FS_CardinalityType
  <2>5. Rank(tokens, u) = Cardinality(Below(u)) + 1 /\ Rank(tokens, t) = Cardinality(Below(t)) + 1
    BY DEF Rank
  <2>. HIDE DEF Below
  <2>. QED BY <2>3, <2>4, <2>5
<1>4. ASSUME NEW t \in tokens, NEW u \in tokens, Rank(tokens, t) <= Rank(tokens, u)
      PROVE  t.id <= u.id
  <2>1. t.id \in Nat /\ u.id \in Nat
    BY DEF TokensOk
  <2>. QED BY <1>3, <1>4, <2>1
<1>. QED BY <1>1, <1>2, <1>4

\* A split is entered last, and what it enters is what there was, then its branches.
LEMMA SplitComesLast ==
  ASSUME NEW S, Settles(S), NEW tokens, NEW nodes \in Seq(Node), nodes # <<>>,
         NEW n \in Node, n = Head(nodes), Splitting(n), Settling(S, tokens, nodes)
  PROVE  Tail(nodes) = <<>> /\ Entered(nodes) = {n}
<1>1. ~ (nodes[1] \in S) /\ ~ Still(tokens, nodes[1])
  BY InTail DEF Settles, Still, Rest, Splitting, Activity, Requests
<1>2. ~ (Len(nodes) > 1)
  BY <1>1, InTail DEF Settling, Settled
<1>3. Len(nodes) = 1
  <2>1. PICK k \in Nat : k = Len(nodes) /\ 1 \in 1 .. k
    BY InTail
  <2>2. ~ (k > 1)
    BY <1>2, <2>1
  <2>3. k = 1
    BY <2>1, <2>2
  <2>. QED BY <2>1, <2>3
<1>4. Tail(nodes) = <<>>
  <2>1. Tail(nodes) \in Seq(Node)
    OBVIOUS
  <2>2. PICK back \in Seq(Node) : back = Tail(nodes)
    BY <2>1
  <2>3. Len(back) = 0
    BY <1>3, <2>2, InTail
  <2>. QED BY <2>2, <2>3
<1>. QED BY <1>4, InTail, NothingEntered DEF Entered

\* What a split enters, behind it.
Behind(tokens, n) == ArrayOrder({t \in tokens : t.node # n})

LEMMA SplitSettles ==
  ASSUME NEW Homes, Divides(Homes), NEW S, Settles(S), NEW before, NEW m \in Nat, TokensOk(before, m),
         NEW n \in Node, Splitting(n), AtRest(before, <<n>>), \A x \in Node : Full(before, x) => x = n,
         NEW after, after = (before \ On(before, n)) \cup Parts(m, n), NEW l \in Nat, TokensOk(after, l),
         NEW g, Dwelt(Homes, after, g)
  PROVE  Settling(S, after, Behind(after, n))
<1>. DEFINE left == {t \in after : t.node # n}
            nodes == ArrayOrder(left)
<1>1. TokensOk(left, l)
  BY TokensDropped
<1>2. PICK s \in Seq(Node) : s = Out[n]
  BY GraphAssumption
<1>3. DOMAIN Out[n] = 1 .. Len(Out[n])
  BY <1>2
<1>4. ASSUME NEW u \in after
      PROVE  \/ u \in before /\ u.node # n /\ u.id \in 1 .. m
             \/ u.id > m /\ u.node \in S /\ ~ Joining(u.node) /\ u.node # n
  <2>1. CASE u \in before \ On(before, n)
    BY <2>1 DEF On, TokensOk
  <2>2. CASE u \in Parts(m, n)
    <3>1. PICK i \in DOMAIN Out[n] : \E b : u = Token(m + i, Out[n][i], b)
      BY <1>3, <2>2 DEF Parts, Fresh
    <3>2. u.id = m + i /\ u.node = Out[n][i]
      BY <3>1, Anew
    <3>3. Out[n][i] \in S /\ ~ Joining(Out[n][i]) /\ Out[n][i] \in Node
      BY Targets DEF Settles
    <3>4. Out[n][i] # n
      BY <3>3 DEF Settles
    <3>. QED BY <1>3, <3>2, <3>3, <3>4
  <2>. QED BY <2>1, <2>2
<1>5. left = after
  BY <1>4
<1>. HIDE DEF left
<1>6. /\ nodes \in Seq(Node)
      /\ \A i \in DOMAIN nodes : \E t \in after : Rank(left, t) = i /\ nodes[i] = t.node
      /\ \A t, u \in after : Rank(left, t) <= Rank(left, u) => t.id <= u.id
      /\ \A t \in after : t.node \in Entered(nodes)
  <2>1. nodes \in Seq(Node)
    BY <1>1, ArrayHoldsNodes
  <2>2. /\ \A i \in DOMAIN nodes : \E t \in left : Rank(left, t) = i /\ nodes[i] = t.node
        /\ \A t, u \in left : Rank(left, t) <= Rank(left, u) => t.id <= u.id
    BY <1>1, PlacesFollowIds
  <2>3. \A t \in left : \E i \in DOMAIN nodes : nodes[i] = t.node
    BY <1>1, NoTokenLeftOut
  <2>. HIDE DEF nodes
  <2>. QED BY <1>5, <2>1, <2>2, <2>3 DEF Entered
<1>. HIDE DEF nodes
<1>7. ASSUME NEW x \in Node PROVE ~ Full(after, x)
  <2>. SUFFICES ASSUME Full(after, x) PROVE FALSE
    OBVIOUS
  <2>1. Joining(x) /\ x # n
    BY JoiningIsNoSplit DEF Full
  <2>2. On(after, x) = On(before, x)
    BY <1>4, <2>1 DEF On
  <2>. QED BY <2>1, <2>2 DEF Full
<1>8. ASSUME NEW t \in after, t \in before, t.node # n PROVE Still(after, t.node)
  <2>1. Rest(t.node)
    BY <1>8, EnteredOne DEF AtRest
  <2>. QED BY <1>7, <2>1 DEF Still, TokensOk
<1>9. EntriesHeld(after, nodes)
  BY <1>6 DEF EntriesHeld, On
<1>10. EnteredOnce(nodes)
  <2>. SUFFICES ASSUME NEW i \in DOMAIN nodes, NEW k \in DOMAIN nodes, i # k, nodes[i] = nodes[k],
                       ~ Joining(nodes[i]), Kind[nodes[i]] # "END"
                PROVE  FALSE
    BY DEF EnteredOnce
  <2>1. PICK t \in after : Rank(left, t) = i /\ nodes[i] = t.node
    BY <1>6
  <2>2. PICK u \in after : Rank(left, u) = k /\ nodes[k] = u.node
    BY <1>6
  <2>3. t = u
    BY <2>1, <2>2, AloneAtHome
  <2>. QED BY <2>1, <2>2, <2>3
<1>11. Settled(S, after, nodes)
  <2>. SUFFICES ASSUME NEW i \in DOMAIN nodes PROVE nodes[i] \in S \/ Still(after, nodes[i])
    BY DEF Settled
  <2>1. PICK t \in after : nodes[i] = t.node
    BY <1>6
  <2>. QED BY <1>4, <1>8, <2>1
<1>12. JoinsFirst(after, nodes)
  <2>. SUFFICES ASSUME NEW i \in DOMAIN nodes, NEW k \in DOMAIN nodes, i <= k, Joining(nodes[k])
                PROVE  Still(after, nodes[i])
    BY DEF JoinsFirst
  <2>1. PICK t \in after : Rank(left, t) = i /\ nodes[i] = t.node
    BY <1>6
  <2>2. PICK u \in after : Rank(left, u) = k /\ nodes[k] = u.node
    BY <1>6
  <2>3. t.id <= u.id
    BY <1>6, <2>1, <2>2
  <2>4. u.id \in 1 .. m
    BY <1>4, <2>2
  <2>5. t \in before /\ t.node # n
    <3>1. t.id \in Nat
      BY DEF TokensOk
    <3>. QED BY <1>4, <2>3, <2>4, <3>1
  <2>. QED BY <1>8, <2>1, <2>5
<1>. QED BY <1>6, <1>7, <1>9, <1>10, <1>11, <1>12 DEF Settling, AtRest, HeadFull, Behind, nodes, left

LEMMA EventSettles ==
  ASSUME NEW Homes, Divides(Homes), NEW S, TaskInv, TaskInv', HouseInv(Homes), SettleInv(S),
         Housed(Homes, run'.tokens, run'.counter, run'.status = "ACTIVE"), EventMade
  PROVE  Settling(S, run'.tokens, agenda')
<1>1. /\ TokensOk(inst.tokens, inst.made) /\ inst.made \in Nat /\ Settling(S, inst.tokens, <<>>)
      /\ \A t \in inst.tokens : Rest(t.node)
  BY NothingEntered DEF TaskInv, SettleInv, Settling, AtRest
<1>2. TokensOk(run'.tokens, run'.made)
  BY DEF TaskInv, CopyOk, EventMade
<1>3. PICK h : Dwelt(Homes, inst.tokens, h)
  BY DEF HouseInv, Housed
<1>4. PICK g : Dwelt(Homes, run'.tokens, g)
  BY DEF Housed
<1>5. ASSUME NEW x \in Node PROVE ~ Full(inst.tokens, x)
  BY <1>1 DEF Settling, HeadFull
<1>6. CASE /\ inst.status = "NEW" /\ run'.tokens = {Token(1, Out[Start][1], <<Start, 0>>)}
           /\ agenda' = <<Out[Start][1]>>
  <2>1. PICK m \in Node : m = Out[Start][1]
    BY FirstTarget, GraphAssumption
  <2>2. inst.tokens = {} /\ On(inst.tokens, Start) = {}
    BY <1>6 DEF HouseInv, On
  <2>3. TokensOk(inst.tokens, 0)
    BY <2>2, FS_EmptySet DEF TokensOk
  <2>4. run'.tokens = (inst.tokens \ On(inst.tokens, Start)) \cup {Token(0 + 1, m, <<Start, 0>>)}
    BY <1>6, <2>1, <2>2
  <2>5. Start \in Node
    BY GraphAssumption
  <2>6. Replaced(inst.tokens, Start, m, run'.tokens)
    BY <1>2, <1>4, <1>5, <2>3, <2>4, <2>5, UnionReplaces
  <2>7. PICK next : next = <<m>> /\ agenda' = next
    BY <1>6, <2>1
  <2>8. Settling(S, run'.tokens, <<m>>)
    BY <1>1, <2>6, BeginSettles
  <2>. QED BY <2>7, <2>8
<1>7. ASSUME NEW n \in Node, NEW t \in inst.tokens, t.node = n,
             Kind[n] \in {"HUMAN_TASK", "SERVICE_TASK", "SUB_PROCESS"},
             run'.tokens = Advance(inst.tokens, t, Out[n][1]), agenda' = <<Out[n][1]>>
      PROVE  Settling(S, run'.tokens, agenda')
  <2>1. PICK m \in Node : m = Out[n][1]
    BY <1>7, FirstTarget
  <2>2. ~ Joining(n) /\ Kind[n] # "END"
    BY <1>7 DEF Joining
  <2>3. Replaced(inst.tokens, n, m, run'.tokens)
    BY <1>1, <1>3, <1>4, <1>5, <1>7, <2>1, <2>2, AdvanceReplaces
  <2>4. PICK next : next = <<m>> /\ agenda' = next
    BY <1>7, <2>1
  <2>5. Settling(S, run'.tokens, <<m>>)
    BY <1>1, <2>3, BeginSettles
  <2>. QED BY <2>4, <2>5
<1>8. ASSUME NEW n \in Node, Kind[n] = "SERVICE_TASK", run'.tokens = inst.tokens \ On(inst.tokens, n),
             agenda' = <<>>
      PROVE  Settling(S, run'.tokens, agenda')
  <2>1. \A x \in Node : Joining(x) => On(run'.tokens, x) = On(inst.tokens, x)
    BY <1>8 DEF On, Joining
  <2>2. \A x \in Node : ~ Full(run'.tokens, x)
    BY <1>5, <2>1 DEF Full
  <2>3. \A t \in run'.tokens : Rest(t.node)
    BY <1>1, <1>8
  <2>4. Settling(S, run'.tokens, <<>>)
    BY <2>2, <2>3, NothingToSettle
  <2>. QED BY <1>8, <2>4
<1>. QED BY <1>6, <1>7, <1>8 DEF EventMade

\* Entering a node.
LEMMA EntrySettles ==
  ASSUME NEW Homes, Divides(Homes), NEW S, Settles(S), TaskInv, TaskInv', HouseInv(Homes), SettleInv(S),
         Housed(Homes, run'.tokens, run'.counter, run'.status = "ACTIVE"), NEW n, Entry(n)
  PROVE  Settling(S, run'.tokens, agenda')
<1>. DEFINE k == run.made
<1>1. /\ n \in Node /\ call # "idle" /\ call' # "idle" /\ agenda # <<>> /\ n = Head(agenda)
  BY DEF Entry
<1>2. /\ TokensOk(run.tokens, k) /\ k \in Nat /\ agenda \in Seq(Node) /\ Settling(S, run.tokens, agenda)
      /\ CountsOk(run.counter, run.tokens) /\ IsFiniteSet(run.tokens)
  BY <1>1 DEF TaskInv, CopyOk, Held, SettleInv, HouseInv, Housed, TokensOk
<1>3. TokensOk(run'.tokens, run'.made) /\ run'.made \in Nat
  BY <1>1 DEF TaskInv, CopyOk
<1>4. PICK h : Dwelt(Homes, run.tokens, h)
  BY <1>1 DEF HouseInv, Housed
<1>5. PICK g : Dwelt(Homes, run'.tokens, g)
  BY DEF Housed
<1>6. \A x \in Node : Full(run.tokens, x) => x = n
  BY <1>1, <1>2 DEF Settling, HeadFull
<1>7. CASE Parked(n)
  <2>1. ~ Full(run.tokens, n) /\ Rest(n) /\ agenda' = Tail(agenda)
    BY <1>1, <1>2, <1>7, OnlyFullFire DEF Parked, Full
  <2>2. /\ \A u \in run'.tokens : \E t \in run.tokens : u.node = t.node
        /\ \A t \in run.tokens : \E u \in run'.tokens : u.node = t.node
        /\ \A j \in Node : Joining(j) => On(run'.tokens, j) = On(run.tokens, j)
    <3>1. CASE run'.tokens = run.tokens
      BY <3>1
    <3>2. ASSUME NEW t \in run.tokens, t.node = n, n \in Activity,
                 run'.tokens = (run.tokens \ {t}) \cup {Asking(t)}
          PROVE  <2>2!:
      <4>1. Asking(t).node = t.node
        BY <1>2, Copied
      <4>. QED BY <3>2, <4>1 DEF On, Joining, Activity, Requests
    <3>. QED BY <1>7, <3>1, <3>2 DEF Parked
  <2>. QED BY <1>1, <1>2, <2>1, <2>2, ParkSettles
<1>8. CASE Ended(n)
  <2>1. Kind[n] = "END" /\ ~ Full(run.tokens, n) /\ agenda' = Tail(agenda)
    BY <1>8 DEF Ended, Full, Joining
  <2>2. /\ \A u \in run'.tokens : u \in run.tokens /\ u.node # n
        /\ \A t \in run.tokens : Kind[t.node] = "END" \/ t \in run'.tokens
    BY <1>8, <2>1 DEF Ended, On
  <2>3. \A j \in Node : Joining(j) => On(run'.tokens, j) = On(run.tokens, j)
    BY <2>2 DEF On, Joining
  <2>4. /\ \A u \in run'.tokens : \E t \in run.tokens : u.node = t.node
        /\ \A t \in run.tokens : Kind[t.node] = "END" \/ \E u \in run'.tokens : u.node = t.node
        /\ \A u \in run'.tokens : u.node = Head(agenda) => Rest(u.node)
    BY <1>1, <2>2
  <2>. QED BY <1>1, <1>2, <2>1, <2>3, <2>4, ParkSettles
<1>9. CASE Chosen(n)
  <2>1. PICK t \in run.tokens, i \in DOMAIN Out[n] :
          /\ t.node = n /\ run'.tokens = Advance(run.tokens, t, Out[n][i])
          /\ agenda' = <<Out[n][i]>> \o Tail(agenda)
    BY <1>9 DEF Chosen
  <2>2. PICK m \in Node : m = Out[n][i]
    BY <1>1, Targets
  <2>3. ~ Joining(n) /\ Kind[n] # "END" /\ ~ Still(run.tokens, n) /\ (n \in S => m \in S)
    BY <1>1, <1>9, <2>2 DEF Chosen, Joining, Still, Rest, Activity, Requests, Settles
  <2>4. Replaced(run.tokens, n, m, run'.tokens)
    BY <1>1, <1>2, <1>4, <1>5, <1>6, <2>1, <2>2, <2>3, AdvanceReplaces
  <2>5. agenda' = HeadBecomes(agenda, m)
    BY <2>1, <2>2 DEF HeadBecomes
  <2>. QED BY <1>1, <1>2, <2>3, <2>4, <2>5, MoveSettles
<1>10. CASE Divided(n)
  <2>1. /\ Splitting(n) /\ run'.tokens = (run.tokens \ On(run.tokens, n)) \cup Parts(k, n)
        /\ agenda' = ArrayOrder({t \in run'.tokens : t.node # n}) \o Tail(agenda)
    BY <1>10 DEF Divided
  <2>2. Tail(agenda) = <<>> /\ Entered(agenda) = {n}
    BY <1>1, <1>2, <2>1, SplitComesLast
  <2>3. AtRest(run.tokens, <<n>>)
    BY <1>2, <2>2, EnteredOne DEF Settling, AtRest
  <2>4. Settling(S, run'.tokens, Behind(run'.tokens, n))
    <3>1. PICK m, l : m = k /\ l = run'.made
      OBVIOUS
    <3>4. PICK before, after : before = run.tokens /\ after = run'.tokens
      OBVIOUS
    <3>2. /\ m \in Nat /\ TokensOk(before, m) /\ AtRest(before, <<n>>)
          /\ l \in Nat /\ TokensOk(after, l) /\ Dwelt(Homes, after, g)
          /\ after = (before \ On(before, n)) \cup Parts(m, n)
          /\ \A x \in Node : Full(before, x) => x = n
      BY <1>2, <1>3, <1>5, <1>6, <2>1, <2>3, <3>1, <3>4
    <3>3. Settling(S, after, Behind(after, n))
      BY <1>1, <2>1, <3>2, SplitSettles
    <3>. QED BY <3>3, <3>4
  <2>5. Behind(run'.tokens, n) \in Seq(Node)
    BY <1>3, TokensDropped, ArrayHoldsNodes DEF Behind
  <2>6. PICK nodes \in Seq(Node) : /\ nodes = ArrayOrder({t \in run'.tokens : t.node # n})
                                   /\ nodes = Behind(run'.tokens, n)
    BY <2>5 DEF Behind
  <2>7. nodes \o <<>> = nodes
    OBVIOUS
  <2>. QED BY <2>1, <2>2, <2>4, <2>6, <2>7
<1>11. CASE United(n)
  <2>1. /\ Joining(n) /\ JoinComplete(n)
        /\ agenda' = <<Out[n][1]>> \o Tail(agenda)
    BY <1>11 DEF United
  <2>0. PICK b : b = MergedBranch(On(run.tokens, n))
    OBVIOUS
  <2>2. PICK m \in Node : m = Out[n][1]
    BY <1>1, <2>1, FirstTarget DEF Joining
  <2>3. run'.tokens = (run.tokens \ On(run.tokens, n)) \cup {Token(k + 1, m, b)}
    BY <1>11, <2>0, <2>2 DEF United
  <2>4. Full(run.tokens, n)
    BY <1>1, <1>2, <2>1, OnlyFullFire
  <2>5. 1 \in DOMAIN Out[n]
    BY <1>1, <2>1, FirstTarget DEF Joining
  <2>6. Kind[n] # "END" /\ ~ Still(run.tokens, n) /\ (n \in S => m \in S)
    BY <2>1, <2>2, <2>4, <2>5 DEF Joining, Still, Settles
  <2>7. Replaced(run.tokens, n, m, run'.tokens)
    BY <1>1, <1>2, <1>3, <1>5, <1>6, <2>2, <2>3, UnionReplaces
  <2>8. agenda' = HeadBecomes(agenda, m)
    BY <2>1, <2>2 DEF HeadBecomes
  <2>. QED BY <1>1, <1>2, <2>6, <2>7, <2>8, MoveSettles
<1>. QED BY <1>7, <1>8, <1>9, <1>10, <1>11 DEF Entry

LEMMA CommitSettles ==
  ASSUME NEW S, TaskInv, SettleInv(S), Committed
  PROVE  SettleInv(S)'
<1>1. CASE /\ agenda = <<>> /\ call # "idle" /\ call' = "idle"
           /\ inst'.tokens = {Waiting(t) : t \in run.tokens}
  <2>1. TokensOk(run.tokens, run.made) /\ Settling(S, run.tokens, <<>>)
    BY <1>1 DEF TaskInv, CopyOk, SettleInv
  <2>2. PICK after : after = inst'.tokens /\ after = {Waiting(t) : t \in run.tokens}
    BY <1>1
  <2>3. /\ \A u \in after : \E t \in run.tokens : u = Waiting(t)
        /\ \A n : Cardinality(On(after, n)) = Cardinality(On(run.tokens, n))
    BY <2>1, <2>2, WaitingKeepsPlaces
  <2>4. \A t \in run.tokens : Waiting(t).node = t.node /\ Rest(t.node)
    BY <2>1, Copied, NothingEntered DEF Settling, AtRest
  <2>5. \A n \in Node : ~ Full(after, n)
    BY <2>1, <2>3 DEF Settling, HeadFull, Full
  <2>6. Settling(S, after, <<>>)
    BY <2>3, <2>4, <2>5, NothingToSettle
  <2>. QED BY <1>1, <2>2, <2>6 DEF SettleInv
<1>2. CASE call' = "idle" /\ inst'.tokens = inst.tokens
  BY <1>2 DEF SettleInv
<1>. QED BY <1>1, <1>2 DEF Committed

LEMMA SettlingInductive ==
  ASSUME NEW Homes, Divides(Homes), NEW S, Settles(S), TaskInv, TaskInv', HouseInv(Homes), HouseInv(Homes)',
         SettleInv(S), [KernelNext]_kernelVars
  PROVE  SettleInv(S)'
<1>1. ASSUME call' # "idle"
      PROVE  Housed(Homes, run'.tokens, run'.counter, run'.status = "ACTIVE")
  BY <1>1 DEF HouseInv
<1>2. CASE EventMade
  BY <1>1, <1>2, EventSettles DEF EventMade, SettleInv
<1>3. CASE Enter
  <2>1. PICK n : Entry(n)
    BY <1>3, EnterMakes
  <2>. QED BY <1>1, <2>1, EntrySettles DEF Entry, SettleInv
<1>4. CASE Committed
  BY <1>4, CommitSettles
<1>5. CASE UNCHANGED kernelVars
  BY <1>5 DEF kernelVars, SettleInv
<1>. QED BY <1>2, <1>3, <1>4, <1>5, EventMakes, CommitMakes DEF KernelNext

-----------------------------------------------------------------------------
(* What follows for such graphs.                                           *)

Sound(Homes, S) == TaskInv /\ KernelInv /\ BranchInv /\ HouseInv(Homes) /\ SettleInv(S)

\* A node that is entered, other than an END, holds a token: processNodeEntry never
\* returns InvalidState.
NoEntryBare ==
  agenda # <<>> /\ Kind[Head(agenda)] # "END" => On(run.tokens, Head(agenda)) # {}

LEMMA SettlingHolds ==
  ASSUME NEW S, TaskInv, SettleInv(S)
  PROVE  NoEntryBare /\ GatewaysHeld
<1>. SUFFICES ASSUME agenda # <<>>, Kind[Head(agenda)] # "END" PROVE On(run.tokens, Head(agenda)) # {}
  BY DEF NoEntryBare, GatewaysHeld
<1>1. call # "idle" /\ agenda \in Seq(Node)
  BY DEF TaskInv, Calling, CopyOk, Held
<1>2. 1 \in DOMAIN agenda /\ agenda[1] = Head(agenda)
  BY <1>1, InTail
<1>. QED BY <1>1, <1>2 DEF SettleInv, Settling, EntriesHeld

LEMMA HousesApart ==
  ASSUME NEW Homes, Divides(Homes), TaskInv, HouseInv(Homes), GatewaysHeld
  PROVE  SplitsAnew /\ AloneOnTask /\ AloneOnActivity
<1>1. inst.made \in Nat /\ TokensOk(inst.tokens, inst.made)
  BY DEF TaskInv
<1>2. PICK h : Dwelt(Homes, inst.tokens, h)
  BY DEF HouseInv, Housed
<1>3. ASSUME NEW t \in inst.tokens, NEW u \in inst.tokens, Kind[t.node] = "HUMAN_TASK", t.node = u.node
      PROVE  t = u
  <2>1. ~ Joining(t.node) /\ Kind[t.node] # "END"
    BY <1>3 DEF Joining
  <2>. QED BY <1>1, <1>2, <1>3, <2>1, AloneAtHome
<1>4. ASSUME call # "idle"
      PROVE  TokensOk(run.tokens, run.made) /\ \E g : Dwelt(Homes, run.tokens, g)
  BY <1>4 DEF TaskInv, CopyOk, HouseInv, Housed
<1>5. ASSUME call # "idle", NEW t \in run.tokens, NEW u \in run.tokens, t.node \in Activity, t.node = u.node
      PROVE  t = u
  <2>1. PICK g : Dwelt(Homes, run.tokens, g)
    BY <1>4, <1>5
  <2>2. ~ Joining(t.node) /\ Kind[t.node] # "END"
    BY <1>5 DEF Joining, Activity, Requests
  <2>. QED BY <1>4, <1>5, <2>1, <2>2, AloneAtHome
<1>6. ASSUME agenda # <<>>, Kind[Head(agenda)] = "PARALLEL_GATEWAY", IsSplit(Head(agenda)),
             NEW u \in run.tokens, u.node # Head(agenda)
      PROVE  u.branch[1] # Head(agenda)
  <2>1. call # "idle"
    BY <1>6 DEF TaskInv, Calling
  <2>2. PICK n \in Node : n = Head(agenda)
    BY <1>6, <2>1 DEF TaskInv, CopyOk, Held
  <2>3. Splitting(n)
    BY <1>6, <2>2 DEF Splitting
  <2>4. PICK t \in run.tokens : t.node = n
    BY <1>6, <2>2 DEF GatewaysHeld, On
  <2>5. PICK g : Dwelt(Homes, run.tokens, g)
    BY <1>4, <2>1
  <2>6. TokensOk(run.tokens, run.made)
    BY <1>4, <2>1
  <2>. QED BY <1>6, <2>2, <2>3, <2>4, <2>5, <2>6, SplitIsAlone
<1>7. SplitsAnew
  BY <1>6 DEF SplitsAnew
<1>8. AloneOnTask
  BY <1>3 DEF AloneOnTask
<1>9. AloneOnActivity
  BY <1>5 DEF AloneOnActivity
<1>. QED BY <1>7, <1>8, <1>9

LEMMA SoundAtFirst ==
  ASSUME NEW Homes, NEW S, Divides(Homes)
  PROVE  KernelInit => Sound(Homes, S)
BY TasksAtFirst, KernelInitially, BranchedAtFirst, HousedAtFirst, SettledAtFirst DEF Sound

LEMMA SoundInductive ==
  ASSUME NEW Homes, NEW S, Divides(Homes), Settles(S)
  PROVE  Sound(Homes, S) /\ [KernelNext]_kernelVars => Sound(Homes, S)'
<1>. SUFFICES ASSUME Sound(Homes, S), [KernelNext]_kernelVars PROVE Sound(Homes, S)'
  OBVIOUS
<1>1. TaskInv /\ KernelInv /\ BranchInv /\ HouseInv(Homes) /\ SettleInv(S)
  BY DEF Sound
<1>2. GatewaysHeld
  BY <1>1, SettlingHolds
<1>3. SplitsAnew
  BY <1>1, <1>2, HousesApart
<1>4. TaskInv' /\ KernelInv' /\ BranchInv'
  BY <1>1, <1>2, <1>3, TasksInductive, KernelInductive, BranchesInductive
<1>5. HouseInv(Homes)'
  BY <1>1, <1>2, <1>4, HousesInductive
<1>6. SettleInv(S)'
  BY <1>1, <1>4, <1>5, SettlingInductive
<1>. QED BY <1>4, <1>5, <1>6 DEF Sound

\* The kernel never fails with InvalidState on a graph whose branches divide and
\* settle: a node that is entered, other than an END, holds a token.
THEOREM EntriesFindTokens ==
  ASSUME NEW Homes, NEW S, Divides(Homes), Settles(S)
  PROVE  KernelSpec => []NoEntryBare
<1>1. Sound(Homes, S) => NoEntryBare
  BY SettlingHolds DEF Sound
<1>. QED BY SoundAtFirst, SoundInductive, <1>1, PTL DEF KernelSpec

LEMMA SoundKeepsApart ==
  ASSUME NEW Homes, NEW S, Divides(Homes), Settles(S)
  PROVE  KernelSpec => [](GatewaysHeld /\ SplitsAnew /\ AloneOnTask /\ AloneOnActivity)
<1>1. Sound(Homes, S) => GatewaysHeld /\ SplitsAnew /\ AloneOnTask /\ AloneOnActivity
  BY SettlingHolds, HousesApart DEF Sound
<1>. QED BY SoundAtFirst, SoundInductive, <1>1, PTL DEF KernelSpec

\* EE-06 on a graph whose branches divide and settle, with no condition on the runs
\* left: a branch never has two tokens.
THEOREM BlocksKeepBranches ==
  ASSUME NEW Homes, NEW S, Divides(Homes), Settles(S)
  PROVE  KernelSpec => []OneTokenPerBranch
BY SoundKeepsApart, OneBranchOneToken, PTL

\* On such a graph COMPLETED leaves no token, no open task and no join that counts.
THEOREM BlocksEndClean ==
  ASSUME NEW Homes, NEW S, Divides(Homes), Settles(S)
  PROVE  KernelSpec => []CompletedIsClean
BY SoundKeepsApart, CompletedLeavesNothing, PTL

-----------------------------------------------------------------------------
(* Joins do not wait for each other.  Of the tokens parked on joins one    *)
(* is parked on a join inside all the others' edges: that edge of its own  *)
(* join which is still empty would have to hold another.                   *)

\* What joins tokens are on: one whose homes cover least.
LEMMA SmallestJoin ==
  ASSUME NEW Homes, Divides(Homes), NEW tokens, tokens # {},
         \A t \in tokens : t.node \in Node /\ Joining(t.node)
  PROVE  \E t \in tokens : /\ IsFiniteSet(UNION Homes[t.node])
                           /\ \A u \in tokens : Cardinality(UNION Homes[t.node])
                                                  <= Cardinality(UNION Homes[u.node])
<1>. DEFINE T == {Cardinality(UNION Homes[t.node]) : t \in tokens}
            R == OpToRel(<, Nat)
<1>1. ASSUME NEW t \in tokens PROVE IsFiniteSet(UNION Homes[t.node])
  <2>1. IsFiniteSet(Homes[t.node])
    BY HomesAreSets
  <2>2. \A H \in Homes[t.node] : IsFiniteSet(H)
    BY DEF Divides
  <2>. QED BY <2>1, <2>2, FS_UNION
<1>2. T \subseteq Nat /\ T # {}
  BY <1>1, FS_CardinalityType
<1>3. IsWellFoundedOn(R, Nat)
  BY NatLessThanWellFounded
<1>4. \A x, y \in Nat : x < y => <<x, y>> \in R
  BY DEF OpToRel
<1>. HIDE DEF R
<1>5. PICK x \in T : \A y \in T : ~ (<<y, x>> \in R)
  <2>. HIDE DEF T
  <2>. QED BY <1>2, <1>3, WFMin
<1>6. \A y \in T : x <= y
  <2>. HIDE DEF T
  <2>. TAKE y \in T
  <2>1. x \in Nat /\ y \in Nat /\ ~ (<<y, x>> \in R)
    BY <1>2, <1>5
  <2>2. ~ (y < x)
    BY <1>4, <2>1
  <2>. QED BY <2>1, <2>2
<1>. QED BY <1>1, <1>5, <1>6

LEMMA SomeJoinFires ==
  ASSUME NEW Homes, Divides(Homes), NEW tokens, NEW m, TokensOk(tokens, m), tokens # {}, NEW h,
         Dwelt(Homes, tokens, h), Balanced(Homes, tokens, h), \A n \in Node : ~ Full(tokens, n),
         \A t \in tokens : Joining(t.node)
  PROVE  FALSE
<1>1. \A t \in tokens : t.node \in Node /\ h[t.id] \in Homes[t.node]
  BY DEF TokensOk, Dwelt
<1>2. PICK t \in tokens :
        /\ IsFiniteSet(UNION Homes[t.node])
        /\ \A u \in tokens : Cardinality(UNION Homes[t.node]) <= Cardinality(UNION Homes[u.node])
  BY <1>1, SmallestJoin
<1>3. PICK j \in Node : j = t.node /\ Joining(j) /\ h[t.id] \in Homes[j]
  BY <1>1
<1>4. PICK K \in Homes[j] : \A u \in On(tokens, j) : h[u.id] # K
  BY <1>3, FullHouse
<1>5. Lives(tokens, h, h[t.id])
  BY DEF Lives
<1>6. PICK u \in tokens : h[u.id] \subseteq K
  BY <1>3, <1>5 DEF Balanced, Lives
<1>7. PICK i \in Node : i = u.node /\ Joining(i) /\ h[u.id] \in Homes[i]
  BY <1>1
<1>8. \A H, L \in Homes[j] : H # {} /\ (H # L => H \cap L = {})
  BY <1>3, HomesAreSets
<1>9. i # j
  <2>. SUFFICES ASSUME i = j PROVE FALSE
    OBVIOUS
  <2>1. u \in On(tokens, j)
    BY <1>7 DEF On
  <2>. QED BY <1>4, <1>6, <1>7, <1>8, <2>1
<1>10. UNION Homes[i] \subseteq K
  BY <1>3, <1>6, <1>7, <1>9 DEF Divides, Encloses
<1>11. K \subseteq UNION Homes[j] /\ ~ (UNION Homes[j] \subseteq K)
  <2>1. t \in On(tokens, j)
    BY <1>3 DEF On
  <2>2. h[t.id] # {} /\ h[t.id] \cap K = {}
    BY <1>3, <1>4, <1>8, <2>1
  <2>. QED BY <1>3, <2>2
<1>12. PICK A, B : A = UNION Homes[i] /\ B = UNION Homes[j]
  OBVIOUS
<1>13. IsFiniteSet(B) /\ A \subseteq B /\ A # B
  BY <1>2, <1>3, <1>10, <1>11, <1>12
<1>14. Cardinality(A) \in Nat /\ Cardinality(B) \in Nat /\ Cardinality(A) < Cardinality(B)
  <2>1. IsFiniteSet(A) /\ Cardinality(A) <= Cardinality(B) /\ Cardinality(A) # Cardinality(B)
    BY <1>13, FS_Subset
  <2>2. Cardinality(A) \in Nat /\ Cardinality(B) \in Nat
    BY <1>13, <2>1, FS_CardinalityType
  <2>. QED BY <2>1, <2>2
<1>15. Cardinality(B) <= Cardinality(A)
  BY <1>2, <1>3, <1>7, <1>12
<1>. QED BY <1>14, <1>15

\* EE-07 on a graph whose branches divide and settle: an ACTIVE instance never has
\* all its tokens parked on joins, each waiting for what another join holds back.
THEOREM JoinsNeverWaitForEachOther ==
  ASSUME NEW Homes, NEW S, Divides(Homes), Settles(S)
  PROVE  KernelSpec => []ArrivedTokensLeave
<1>1. Sound(Homes, S) => ArrivedTokensLeave
  <2>. SUFFICES ASSUME Sound(Homes, S), inst.status = "ACTIVE",
                       \A t \in inst.tokens : Kind[t.node] = "PARALLEL_GATEWAY" /\ IsJoin(t.node)
                PROVE  FALSE
    BY DEF ArrivedTokensLeave
  <2>1. TokensOk(inst.tokens, inst.made) /\ inst.tokens # {}
    BY DEF Sound, TaskInv, KernelInv, ActiveHasToken
  <2>2. PICK h : Dwelt(Homes, inst.tokens, h) /\ Balanced(Homes, inst.tokens, h)
    BY DEF Sound, HouseInv, Housed
  <2>3. \A n \in Node : ~ Full(inst.tokens, n)
    BY DEF Sound, SettleInv, Settling, HeadFull
  <2>4. \A t \in inst.tokens : Joining(t.node)
    BY DEF Joining
  <2>. QED BY <2>1, <2>2, <2>3, <2>4, SomeJoinFires
<1>. QED BY SoundAtFirst, SoundInductive, <1>1, PTL DEF KernelSpec

-----------------------------------------------------------------------------
(* The task that a call completes is not entered again by it, when nothing *)
(* leads back to it at once.  What is still to be entered lies behind the  *)
(* task or holds a token that stays where it is.                           *)

Away(After) ==
  call \in Node =>
    /\ Kind[call] = "HUMAN_TASK"
    /\ \A t \in run.tokens : t.node # call
    /\ \A i \in DOMAIN agenda : agenda[i] \in After[call] \/ Still(run.tokens, agenda[i])

\* Such an entry touches no join.
LEMMA JoinsUntouched ==
  ASSUME NEW S, Settles(S), TaskInv, NEW n, Entry(n), Parked(n) \/ Ended(n) \/ Divided(n)
  PROVE  \A j \in Node : Joining(j) => On(run'.tokens, j) \subseteq On(run.tokens, j)
<1>1. TokensOk(run.tokens, run.made) /\ n \in Node
  BY DEF Entry, TaskInv, CopyOk
<1>2. CASE Parked(n)
  <2>1. CASE run'.tokens = run.tokens
    BY <2>1
  <2>2. ASSUME NEW t \in run.tokens, t.node = n, n \in Activity,
               run'.tokens = (run.tokens \ {t}) \cup {Asking(t)}
        PROVE  \A j \in Node : Joining(j) => On(run'.tokens, j) \subseteq On(run.tokens, j)
    <3>1. Asking(t).node = t.node
      BY <1>1, Copied
    <3>. QED BY <2>2, <3>1 DEF On, Joining, Activity, Requests
  <2>. QED BY <1>2, <2>1, <2>2 DEF Parked
<1>3. CASE Ended(n)
  BY <1>3 DEF Ended, On
<1>4. CASE Divided(n)
  <2>1. PICK s \in Seq(Node) : s = Out[n]
    BY <1>1, GraphAssumption
  <2>2. DOMAIN Out[n] = 1 .. Len(Out[n])
    BY <2>1
  <2>3. ASSUME NEW u \in Parts(run.made, n) PROVE ~ Joining(u.node)
    <3>1. PICK i \in DOMAIN Out[n] : \E b : u = Token(run.made + i, Out[n][i], b)
      BY <2>2 DEF Parts, Fresh
    <3>2. u.node = Out[n][i]
      BY <3>1, Anew
    <3>. QED BY <1>1, <1>4, <3>2 DEF Settles, Divided
  <2>. QED BY <1>4, <2>3 DEF Divided, On
<1>. QED BY <1>2, <1>3, <1>4

LEMMA EmptierIsNotFull ==
  ASSUME NEW Homes, Divides(Homes), NEW x \in Node, NEW before, NEW after, IsFiniteSet(before),
         Joining(x) => On(after, x) \subseteq On(before, x), Full(after, x)
  PROVE  Full(before, x)
<1>1. IsFiniteSet(On(before, x))
  BY FS_Subset DEF On
<1>2. Joining(x) /\ On(after, x) \subseteq On(before, x) /\ Cardinality(On(after, x)) >= InDegree(x)
  BY DEF Full
<1>3. /\ IsFiniteSet(On(after, x)) /\ Cardinality(On(after, x)) <= Cardinality(On(before, x))
  BY <1>1, <1>2, FS_Subset
<1>4. /\ Cardinality(On(after, x)) \in Nat /\ Cardinality(On(before, x)) \in Nat /\ InDegree(x) \in Nat
  BY <1>1, <1>2, <1>3, FS_CardinalityType, HomesAreSets
<1>5. Cardinality(On(before, x)) >= InDegree(x)
  BY <1>2, <1>3, <1>4
<1>. QED BY <1>2, <1>5 DEF Full

LEMMA EventAway ==
  ASSUME NEW Homes, Divides(Homes), NEW After, ~ ComesBack(After), TaskInv, TaskInv', HouseInv(Homes),
         EventMade
  PROVE  Away(After)'
<1>. SUFFICES ASSUME call' \in Node
              PROVE  /\ Kind[call'] = "HUMAN_TASK"
                     /\ \A u \in run'.tokens : u.node # call'
                     /\ \A i \in DOMAIN agenda' :
                          agenda'[i] \in After[call'] \/ Still(run'.tokens, agenda'[i])
  BY DEF Away, Still, Rest, Full, Joining, Activity, Requests
<1>1. PICK n \in Node, t \in inst.tokens :
        /\ t.node = n /\ Kind[n] = "HUMAN_TASK" /\ call' = n
        /\ run'.tokens = Advance(inst.tokens, t, Out[n][1]) /\ agenda' = <<Out[n][1]>>
  BY GraphAssumption DEF EventMade
<1>2. TokensOk(inst.tokens, inst.made)
  BY DEF TaskInv
<1>3. PICK m : m = Out[n][1] /\ m \in After[n] /\ m # n
  BY <1>1 DEF ComesBack
<1>4. PICK h : Dwelt(Homes, inst.tokens, h)
  BY DEF HouseInv, Housed
<1>5. ~ Joining(n) /\ Kind[n] # "END"
  BY <1>1 DEF Joining
<1>6. \A v \in inst.tokens : v.node = n => v = t
  BY <1>1, <1>2, <1>4, <1>5, AloneAtHome
<1>7. Moved(t, m).node = m
  BY <1>2, Copied
<1>8. \A u \in run'.tokens : u.node # n
  BY <1>1, <1>3, <1>6, <1>7 DEF Advance
<1>9. PICK next : next = <<m>> /\ agenda' = next
  BY <1>1, <1>3
<1>10. DOMAIN next = {1} /\ next[1] = m
  BY <1>9
<1>. QED BY <1>1, <1>3, <1>8, <1>9, <1>10

LEMMA EntryAway ==
  ASSUME NEW Homes, Divides(Homes), NEW S, Settles(S), NEW After, ~ ComesBack(After), TaskInv, TaskInv',
         HouseInv(Homes), SettleInv(S), SettleInv(S)', Away(After), NEW n, Entry(n), call \in Node
  PROVE  /\ \A u \in run'.tokens : u.node # call
         /\ \A i \in DOMAIN agenda' : agenda'[i] \in After[call] \/ Still(run'.tokens, agenda'[i])
<1>1. /\ n \in Node /\ call # "idle" /\ call' # "idle" /\ agenda # <<>> /\ n = Head(agenda)
  BY DEF Entry
<1>2. /\ TokensOk(run.tokens, run.made) /\ run.made \in Nat /\ agenda \in Seq(Node)
      /\ Settling(S, run.tokens, agenda) /\ IsFiniteSet(run.tokens)
  BY <1>1 DEF TaskInv, CopyOk, Held, SettleInv, TokensOk
<1>3. TokensOk(run'.tokens, run'.made) /\ run'.made \in Nat /\ agenda' \in Seq(Node)
  BY <1>1 DEF TaskInv, CopyOk, Held
<1>4. /\ \A t \in run.tokens : t.node # call
      /\ \A i \in DOMAIN agenda : agenda[i] \in After[call] \/ Still(run.tokens, agenda[i])
      /\ \A m \in After[call] : Kind[m] = "EXCLUSIVE_GATEWAY" \/ Splitting(m) \/ Joining(m) =>
           \A i \in DOMAIN Out[m] : Out[m][i] \in After[call]
      /\ call \notin After[call]
  BY DEF Away, ComesBack
<1>5. n \in After[call] \/ Still(run.tokens, n)
  BY <1>1, <1>2, <1>4, InTail
<1>6. \A x \in Node : Full(run'.tokens, x) => agenda' # <<>> /\ x = Head(agenda')
  BY <1>1 DEF SettleInv, Settling, HeadFull
<1>7. /\ \A i \in DOMAIN Tail(agenda) :
           Tail(agenda)[i] \in After[call] \/ Still(run.tokens, Tail(agenda)[i])
      /\ \A i \in DOMAIN Tail(agenda) : Tail(agenda)[i] \in Node
      /\ Tail(agenda) \in Seq(Node)
  BY <1>1, <1>2, <1>4, InTail
<1>8. CASE Parked(n) \/ Ended(n)
  <2>1. agenda' = Tail(agenda) /\ \A u \in run'.tokens : u.node # call
    <3>1. CASE Ended(n)
      BY <1>4, <3>1 DEF Ended
    <3>2. ASSUME NEW t \in run.tokens, run'.tokens = (run.tokens \ {t}) \cup {Asking(t)}
          PROVE  \A u \in run'.tokens : u.node # call
      <4>1. Asking(t).node = t.node
        BY <1>2, Copied
      <4>. QED BY <1>4, <3>2, <4>1
    <3>. QED BY <1>4, <1>8, <3>1, <3>2 DEF Parked
  <2>2. \A x \in Node : Still(run.tokens, x) => Still(run'.tokens, x)
    BY <1>2, <1>8, JoinsUntouched, EmptierIsNotFull DEF Still
  <2>. QED BY <1>7, <2>1, <2>2
<1>9. ASSUME NEW m \in Node, m \in After[call], agenda' = HeadBecomes(agenda, m)
      PROVE  \A i \in DOMAIN agenda' : agenda'[i] \in After[call] \/ Still(run'.tokens, agenda'[i])
  <2>1. PICK next, nodes : next = HeadBecomes(nodes, m) /\ next = agenda' /\ nodes = agenda
    BY <1>9
  <2>5. nodes \in Seq(Node) /\ nodes # <<>> /\ next = HeadBecomes(nodes, m)
    BY <1>1, <1>2, <2>1
  <2>6. /\ next # <<>> /\ Head(next) = m /\ DOMAIN next = DOMAIN nodes /\ next[1] = m
        /\ \A i \in DOMAIN nodes : i # 1 => next[i] = nodes[i]
    BY <2>5, HeadReplaced
  <2>2. /\ next # <<>> /\ Head(next) = m /\ DOMAIN next = DOMAIN agenda /\ next[1] = m
        /\ \A i \in DOMAIN agenda : i # 1 => next[i] = agenda[i]
    BY <2>1, <2>6
  <2>. SUFFICES ASSUME NEW i \in DOMAIN next, i # 1, next[i] \notin After[call]
                PROVE  Still(run'.tokens, next[i])
    BY <1>9, <2>1, <2>2
  <2>3. next[i] \in Node /\ Still(run.tokens, next[i])
    BY <1>2, <1>4, <2>2
  <2>4. ~ Full(run'.tokens, next[i])
    BY <1>6, <1>9, <2>1, <2>2, <2>3
  <2>. QED BY <2>3, <2>4 DEF Still
<1>10. CASE Chosen(n)
  <2>1. PICK t \in run.tokens, i \in DOMAIN Out[n] :
          /\ t.node = n /\ run'.tokens = Advance(run.tokens, t, Out[n][i])
          /\ agenda' = <<Out[n][i]>> \o Tail(agenda)
    BY <1>10 DEF Chosen
  <2>2. PICK m \in Node : m = Out[n][i]
    BY <1>1, Targets
  <2>3. n \in After[call] /\ Kind[n] = "EXCLUSIVE_GATEWAY"
    BY <1>5, <1>10 DEF Chosen, Still, Rest, Activity, Requests
  <2>4. m \in After[call]
    BY <1>4, <2>2, <2>3
  <2>5. Moved(t, m).node = m
    BY <1>2, Copied
  <2>6. \A u \in run'.tokens : u.node # call
    BY <1>4, <2>1, <2>2, <2>4, <2>5 DEF Advance
  <2>7. agenda' = HeadBecomes(agenda, m)
    BY <2>1, <2>2 DEF HeadBecomes
  <2>. QED BY <1>9, <2>4, <2>6, <2>7
<1>11. CASE United(n)
  <2>0. PICK b : b = MergedBranch(On(run.tokens, n))
    OBVIOUS
  <2>1. PICK m \in Node : m = Out[n][1]
    BY <1>1, <1>11, FirstTarget DEF United, Joining
  <2>2. PICK u : u = Token(run.made + 1, m, b)
    OBVIOUS
  <2>3. /\ run'.tokens = (run.tokens \ On(run.tokens, n)) \cup {u}
        /\ agenda' = <<m>> \o Tail(agenda) /\ Joining(n) /\ JoinComplete(n)
    BY <1>11, <2>0, <2>1, <2>2 DEF United
  <2>4. Full(run.tokens, n)
    BY <1>1, <1>2, <2>3, OnlyFullFire DEF HouseInv, Housed
  <2>5. 1 \in DOMAIN Out[n]
    BY <1>1, <2>3, FirstTarget DEF Joining
  <2>6. m \in After[call]
    BY <1>4, <1>5, <2>1, <2>3, <2>4, <2>5 DEF Still
  <2>7. u.node = m
    BY <2>2, Anew
  <2>8. \A v \in run'.tokens : v.node # call
    BY <1>4, <2>3, <2>6, <2>7
  <2>9. agenda' = HeadBecomes(agenda, m)
    BY <2>3 DEF HeadBecomes
  <2>. QED BY <1>9, <2>6, <2>8, <2>9
<1>12. CASE Divided(n)
  <2>1. /\ Splitting(n) /\ run'.tokens = (run.tokens \ On(run.tokens, n)) \cup Parts(run.made, n)
        /\ agenda' = ArrayOrder({t \in run'.tokens : t.node # n}) \o Tail(agenda)
    BY <1>12 DEF Divided
  <2>2. Tail(agenda) = <<>> /\ Entered(agenda) = {n}
    BY <1>1, <1>2, <2>1, SplitComesLast
  <2>3. PICK left : left = {t \in run'.tokens : t.node # n}
    OBVIOUS
  <2>4. TokensOk(left, run'.made)
    BY <1>3, <2>3, TokensDropped
  <2>5. PICK nodes \in Seq(Node) : nodes = ArrayOrder(left)
    BY <1>3, <2>4, ArrayHoldsNodes
  <2>6. nodes \o <<>> = nodes
    OBVIOUS
  <2>7. agenda' = nodes
    BY <2>1, <2>2, <2>3, <2>5, <2>6
  <2>8. \A i \in DOMAIN nodes : \E t \in left : nodes[i] = t.node
    BY <1>3, <2>4, <2>5, ArrayHoldsNodes
  <2>9. n \in After[call]
    BY <1>5, <2>1 DEF Still, Rest, Splitting, Activity, Requests
  <2>10. ASSUME NEW t \in run'.tokens
         PROVE  t \in run.tokens \/ t.node \in After[call]
    <3>1. CASE t \in Parts(run.made, n)
      <4>1. PICK s \in Seq(Node) : s = Out[n]
        BY <1>1, GraphAssumption
      <4>2. DOMAIN Out[n] = 1 .. Len(Out[n])
        BY <4>1
      <4>3. PICK i \in DOMAIN Out[n] : \E b : t = Token(run.made + i, Out[n][i], b)
        BY <3>1, <4>2 DEF Parts, Fresh
      <4>4. t.node = Out[n][i]
        BY <4>3, Anew
      <4>. QED BY <1>4, <2>1, <2>9, <4>4
    <3>. QED BY <2>1, <3>1
  <2>11. ASSUME NEW t \in left, t.node \notin After[call]
         PROVE  Still(run'.tokens, t.node)
    <3>1. t \in run.tokens /\ t.node # n /\ t.node \in Node
      BY <1>2, <2>3, <2>10, <2>11 DEF TokensOk
    <3>2. Rest(t.node)
      BY <1>2, <2>2, <3>1 DEF Settling, AtRest
    <3>3. ~ Full(run.tokens, t.node)
      BY <1>1, <1>2, <3>1 DEF Settling, HeadFull
    <3>4. ~ Full(run'.tokens, t.node)
      BY <1>2, <1>12, <3>1, <3>3, JoinsUntouched, EmptierIsNotFull
    <3>. QED BY <3>2, <3>4 DEF Still
  <2>12. \A u \in run'.tokens : u.node # call
    BY <1>4, <2>10
  <2>. QED BY <2>7, <2>8, <2>11, <2>12
<1>. QED BY <1>8, <1>10, <1>11, <1>12 DEF Entry

LEMMA AwayInductive ==
  ASSUME NEW Homes, NEW S, NEW After, Divides(Homes), Settles(S), ~ ComesBack(After),
         Sound(Homes, S), Sound(Homes, S)', Away(After), [KernelNext]_kernelVars
  PROVE  Away(After)'
<1>1. /\ TaskInv /\ TaskInv' /\ HouseInv(Homes) /\ HouseInv(Homes)' /\ SettleInv(S) /\ SettleInv(S)'
  BY DEF Sound
<1>2. CASE EventMade
  BY <1>1, <1>2, EventAway
<1>3. CASE Enter
  <2>1. PICK n : Entry(n)
    BY <1>1, <1>3, EnterMakes
  <2>2. call' = call
    BY <2>1 DEF Entry
  <2>3. CASE call \in Node
    <3>1. /\ \A u \in run'.tokens : u.node # call
          /\ \A i \in DOMAIN agenda' : agenda'[i] \in After[call] \/ Still(run'.tokens, agenda'[i])
      BY <1>1, <2>1, <2>3, EntryAway
    <3>. QED BY <2>2, <2>3, <3>1 DEF Away, Still, Rest, Full, Joining, Activity, Requests
  <2>4. CASE call \notin Node
    BY <2>2, <2>4 DEF Away
  <2>. QED BY <2>3, <2>4
<1>4. CASE Committed
  BY <1>4, GraphAssumption DEF Committed, Away
<1>5. CASE UNCHANGED kernelVars
  BY <1>5 DEF kernelVars, Away, Still, Rest, Full, Joining, Activity, Requests
<1>. QED BY <1>1, <1>2, <1>3, <1>4, <1>5, EventMakes, CommitMakes DEF KernelNext

LEMMA NobodyComesBack ==
  ASSUME NEW S, NEW After, TaskInv, SettleInv(S), Away(After)
  PROVE  NotEnteredAgain
<1>. SUFFICES ASSUME agenda # <<>>, Kind[Head(agenda)] = "HUMAN_TASK" PROVE Head(agenda) # call
  BY DEF NotEnteredAgain
<1>1. PICK t \in run.tokens : t.node = Head(agenda)
  BY SettlingHolds DEF NoEntryBare, On
<1>2. Head(agenda) \in Node
  BY <1>1 DEF TaskInv, Calling, CopyOk, TokensOk
<1>. QED BY <1>1, <1>2 DEF Away

\* EE-03 on a graph whose branches divide and settle and whose choices do not lead
\* back at once: each token on a HUMAN_TASK has its task row, each row its token.
THEOREM BlocksMatchRows ==
  ASSUME NEW Homes, NEW S, NEW After, Divides(Homes), Settles(S), ~ ComesBack(After)
  PROVE  KernelSpec => []TasksMatchTokens
<1>1. KernelInit => Away(After)
  BY GraphAssumption DEF KernelInit, Away
<1>2. Sound(Homes, S) /\ Sound(Homes, S)' /\ Away(After) /\ [KernelNext]_kernelVars => Away(After)'
  BY AwayInductive
<1>3. Sound(Homes, S) /\ Away(After) => NotEnteredAgain
  BY NobodyComesBack DEF Sound
<1>4. KernelSpec => []NotEnteredAgain
  BY SoundAtFirst, SoundInductive, <1>1, <1>2, <1>3, PTL DEF KernelSpec
<1>. QED BY SoundKeepsApart, <1>4, RowsMatchTokens, PTL

-----------------------------------------------------------------------------
(* Intents, exactly.  A token on an activity has asked once, or not at all *)
(* while its node is still to be entered.                                  *)

OnceAsked(t, nodes) ==
  t.node \in Activity => t.intents = IF t.node \in Entered(nodes) THEN 0 ELSE 1

OnceInv ==
  /\ \A t \in inst.tokens : OnceAsked(t, <<>>)
  /\ call # "idle" => \A t \in run.tokens : OnceAsked(t, agenda)

LEMMA OnceAtFirst == KernelInit => OnceInv
<1>1. KernelInit => inst.tokens = {} /\ call = "idle"
  BY DEF KernelInit
<1>. QED BY <1>1 DEF OnceInv

LEMMA AloneAmong ==
  ASSUME NEW Homes, Divides(Homes), NEW tokens, NEW m, TokensOk(tokens, m), NEW counter, NEW active,
         Housed(Homes, tokens, counter, active),
         NEW t \in tokens, NEW u \in tokens, t.node = u.node, t.node \in Activity
  PROVE  t = u
<1>1. PICK h : Dwelt(Homes, tokens, h)
  BY DEF Housed
<1>2. ~ Joining(t.node) /\ Kind[t.node] # "END"
  BY DEF Joining, Activity, Requests
<1>. QED BY <1>1, <1>2, AloneAtHome

LEMMA EventAsksOnce ==
  ASSUME NEW Homes, Divides(Homes), TaskInv, TaskInv', HouseInv(Homes)', OnceInv, EventMade
  PROVE  \A u \in run'.tokens : OnceAsked(u, agenda')
<1>1. TokensOk(inst.tokens, inst.made) /\ TokensOk(run'.tokens, run'.made)
  BY DEF TaskInv, CopyOk, EventMade
<1>2. Housed(Homes, run'.tokens, run'.counter, run'.status = "ACTIVE")
  BY DEF HouseInv, EventMade
<1>3. CASE /\ run'.tokens = {Token(1, Out[Start][1], <<Start, 0>>)} /\ agenda' = <<Out[Start][1]>>
  <2>1. PICK m : m = Out[Start][1]
    OBVIOUS
  <2>2. PICK next : next = <<m>> /\ agenda' = next
    BY <1>3, <2>1
  <2>3. Entered(next) = {m}
    BY <2>2, EnteredOne
  <2>. QED BY <1>3, <2>1, <2>2, <2>3, Anew DEF OnceAsked
<1>4. ASSUME NEW n \in Node, NEW t \in inst.tokens, t.node = n,
             run'.tokens = Advance(inst.tokens, t, Out[n][1]), agenda' = <<Out[n][1]>>
      PROVE  \A u \in run'.tokens : OnceAsked(u, agenda')
  <2>1. PICK m : m = Out[n][1]
    OBVIOUS
  <2>2. PICK next : next = <<m>> /\ agenda' = next
    BY <1>4, <2>1
  <2>3. Entered(next) = {m}
    BY <2>2, EnteredOne
  <2>4. PICK v : v = Moved(t, m) /\ v.node = m /\ v.intents = 0 /\ v.id = t.id
    BY <1>1, Copied
  <2>5. run'.tokens = (inst.tokens \ {t}) \cup {v}
    BY <1>4, <2>1, <2>4 DEF Advance
  <2>6. ASSUME NEW u \in inst.tokens, u # t, u.node \in Activity PROVE u.node # m
    <3>. SUFFICES ASSUME u.node = m PROVE FALSE
      OBVIOUS
    <3>1. u = v
      BY <1>1, <1>2, <2>4, <2>5, <2>6, AloneAmong
    <3>. QED BY <1>1, <2>4, <2>6, <3>1 DEF TokensOk
  <2>7. ASSUME NEW u \in inst.tokens, u # t PROVE OnceAsked(u, next)
    BY <2>3, <2>6, <2>7, NothingEntered DEF OnceInv, OnceAsked
  <2>8. OnceAsked(v, next)
    BY <2>3, <2>4 DEF OnceAsked
  <2>. QED BY <2>2, <2>5, <2>7, <2>8
<1>5. CASE agenda' = <<>> /\ run'.tokens \subseteq inst.tokens
  BY <1>5 DEF OnceInv
<1>. QED BY <1>3, <1>4, <1>5 DEF EventMade

\* A token arrives at m in place of those on n; the others are where they were.
LEMMA ArrivalAsksOnce ==
  ASSUME NEW Homes, Divides(Homes), NEW before, NEW after, NEW l, TokensOk(after, l), NEW counter, NEW active,
         Housed(Homes, after, counter, active), NEW n, NEW m, NEW nodes \in Seq(Node), nodes # <<>>,
         n = Head(nodes), n \notin Activity, m \in Node,
         \A t \in before : OnceAsked(t, nodes), NEW v \in after, v.node = m, v.intents = 0,
         \A u \in after : u = v \/ u \in before
  PROVE  \A u \in after : OnceAsked(u, HeadBecomes(nodes, m))
<1>1. PICK next : next = HeadBecomes(nodes, m)
  OBVIOUS
<1>2. Entered(next) = {m} \cup Entered(Tail(nodes))
  BY <1>1, HeadReplaced
<1>3. Entered(nodes) \subseteq {n} \cup Entered(Tail(nodes)) /\ Entered(Tail(nodes)) \subseteq Entered(nodes)
  BY InTail
<1>4. OnceAsked(v, next)
  BY <1>2 DEF OnceAsked
<1>5. ASSUME NEW u \in after, u # v PROVE OnceAsked(u, next)
  <2>. SUFFICES ASSUME u.node \in Activity PROVE u.intents = IF u.node \in Entered(next) THEN 0 ELSE 1
    BY DEF OnceAsked
  <2>1. u.node # m
    BY <1>5, AloneAmong
  <2>2. u.node \in Entered(next) <=> u.node \in Entered(nodes)
    BY <1>2, <1>3, <2>1
  <2>. QED BY <1>5, <2>2 DEF OnceAsked
<1>. QED BY <1>1, <1>4, <1>5

LEMMA EntryAsksOnce ==
  ASSUME NEW Homes, Divides(Homes), AsksOnce(Homes), NEW S, Settles(S), TaskInv, TaskInv',
         HouseInv(Homes), HouseInv(Homes)', SettleInv(S), AskedInv, OnceInv, NEW n, Entry(n)
  PROVE  \A u \in run'.tokens : OnceAsked(u, agenda')
<1>. DEFINE k == run.made
<1>1. /\ n \in Node /\ call # "idle" /\ call' # "idle" /\ agenda # <<>> /\ n = Head(agenda)
  BY DEF Entry
<1>2. /\ TokensOk(run.tokens, k) /\ k \in Nat /\ agenda \in Seq(Node) /\ Settling(S, run.tokens, agenda)
      /\ \A t \in run.tokens : OnceAsked(t, agenda) /\ HasAsked(t, agenda)
      /\ Housed(Homes, run.tokens, run.counter, run.status = "ACTIVE")
      /\ CountsOk(run.counter, run.tokens) /\ IsFiniteSet(run.tokens)
  BY <1>1 DEF TaskInv, CopyOk, Held, SettleInv, OnceInv, AskedInv, HouseInv, Housed, TokensOk
<1>3. /\ TokensOk(run'.tokens, run'.made) /\ run'.made \in Nat
      /\ Housed(Homes, run'.tokens, run'.counter, run'.status = "ACTIVE")
  BY <1>1 DEF TaskInv, CopyOk, HouseInv
<1>. HIDE DEF k
<1>4. /\ Entered(agenda) \subseteq {n} \cup Entered(Tail(agenda))
      /\ Entered(Tail(agenda)) \subseteq Entered(agenda) /\ n \in Entered(agenda)
  BY <1>1, <1>2, InTail DEF Entered
<1>5. ASSUME NEW u \in run.tokens, u.node \in Activity => u.node # n
      PROVE  OnceAsked(u, Tail(agenda))
  BY <1>2, <1>4, <1>5 DEF OnceAsked
<1>6. CASE Parked(n)
  <2>1. agenda' = Tail(agenda)
    BY <1>6 DEF Parked
  <2>2. CASE run'.tokens = run.tokens /\ n \notin Activity
    BY <1>5, <2>1, <2>2
  <2>3. ASSUME NEW t \in run.tokens, t.node = n, n \in Activity,
               run'.tokens = (run.tokens \ {t}) \cup {Asking(t)}
        PROVE  \A u \in run'.tokens : OnceAsked(u, agenda')
    <3>1. Asking(t).node = n /\ Asking(t).intents = t.intents + 1 /\ t.intents = 0
      BY <1>2, <1>4, <2>3, Copied DEF OnceAsked
    <3>2. n \notin Entered(Tail(agenda))
      <4>1. PICK nodes \in Seq(Node) : nodes = agenda
        BY <1>2
      <4>2. nodes # <<>> /\ n = Head(nodes)
        BY <1>1, <4>1
      <4>3. /\ 1 \in DOMAIN nodes /\ nodes[1] = n
            /\ \A i \in DOMAIN Tail(nodes) :
                 i \in Nat /\ i > 0 /\ i + 1 \in DOMAIN nodes /\ Tail(nodes)[i] = nodes[i + 1]
        BY <4>2, InTail
      <4>4. ~ Joining(n) /\ Kind[n] # "END"
        BY <2>3 DEF Joining, Activity, Requests
      <4>5. \A i \in DOMAIN nodes : i # 1 => nodes[i] # n
        BY <1>2, <4>1, <4>3, <4>4 DEF Settling, EnteredOnce
      <4>6. \A i \in DOMAIN Tail(nodes) : i + 1 # 1 /\ Tail(nodes)[i] # n
        BY <4>3, <4>5
      <4>. QED BY <4>1, <4>6 DEF Entered
    <3>3. OnceAsked(Asking(t), Tail(agenda))
      BY <3>1, <3>2 DEF OnceAsked
    <3>4. ASSUME NEW u \in run.tokens, u # t, u.node \in Activity PROVE u.node # n
      BY <1>2, <2>3, <3>4, AloneAmong
    <3>. QED BY <1>5, <2>1, <2>3, <3>3, <3>4
  <2>4. ASSUME NEW t \in run.tokens, t.node = n, t.waiting, n \in Activity PROVE FALSE
    BY <1>2, <1>4, <2>4 DEF OnceAsked, HasAsked
  <2>5. Kind[n] = "SUB_PROCESS" => n \in Activity
    BY <1>1, GraphAssumption DEF Activity, Requests
  <2>. QED BY <1>6, <2>2, <2>3, <2>4, <2>5 DEF Parked
<1>7. CASE Ended(n)
  <2>1. agenda' = Tail(agenda) /\ run'.tokens \subseteq run.tokens /\ n \notin Activity
    BY <1>7 DEF Ended, Activity, Requests
  <2>. QED BY <1>5, <2>1
<1>8. ASSUME NEW m \in Node, n \notin Activity, agenda' = HeadBecomes(agenda, m),
             NEW v \in run'.tokens, v.node = m, v.intents = 0,
             \A u \in run'.tokens : u = v \/ u \in run.tokens
      PROVE  \A u \in run'.tokens : OnceAsked(u, agenda')
  <2>0. PICK before, after : before = run.tokens /\ after = run'.tokens
    OBVIOUS
  <2>1. PICK nodes \in Seq(Node) : nodes = agenda
    BY <1>2
  <2>2. PICK l, counter, active : TokensOk(after, l) /\ Housed(Homes, after, counter, active)
    BY <1>3, <2>0
  <2>3. /\ nodes # <<>> /\ n = Head(nodes) /\ \A t \in before : OnceAsked(t, nodes)
        /\ v \in after /\ \A u \in after : u = v \/ u \in before
    BY <1>1, <1>2, <1>8, <2>0, <2>1
  <2>4. \A u \in after : OnceAsked(u, HeadBecomes(nodes, m))
    BY <1>8, <2>2, <2>3, ArrivalAsksOnce
  <2>. QED BY <1>8, <2>0, <2>1, <2>4
<1>9. CASE Chosen(n)
  <2>1. PICK t \in run.tokens, i \in DOMAIN Out[n] :
          /\ t.node = n /\ run'.tokens = Advance(run.tokens, t, Out[n][i])
          /\ agenda' = <<Out[n][i]>> \o Tail(agenda)
    BY <1>9 DEF Chosen
  <2>2. PICK m \in Node : m = Out[n][i]
    BY <1>1, Targets
  <2>3. PICK v : v = Moved(t, m) /\ v.node = m /\ v.intents = 0
    BY <1>2, Copied
  <2>4. v \in run'.tokens /\ \A u \in run'.tokens : u = v \/ u \in run.tokens
    BY <2>1, <2>2, <2>3 DEF Advance
  <2>5. agenda' = HeadBecomes(agenda, m) /\ n \notin Activity
    BY <1>9, <2>1, <2>2 DEF HeadBecomes, Chosen, Activity, Requests
  <2>. QED BY <1>8, <2>3, <2>4, <2>5
<1>10. CASE United(n)
  <2>0. PICK b : b = MergedBranch(On(run.tokens, n))
    OBVIOUS
  <2>1. PICK m \in Node : m = Out[n][1]
    BY <1>1, <1>10, FirstTarget DEF United, Joining
  <2>2. PICK v : v = Token(k + 1, m, b)
    OBVIOUS
  <2>3. /\ run'.tokens = (run.tokens \ On(run.tokens, n)) \cup {v}
        /\ agenda' = <<m>> \o Tail(agenda) /\ n \notin Activity
    BY <1>10, <2>0, <2>1, <2>2 DEF United, Joining, Activity, Requests, k
  <2>4. v.node = m /\ v.intents = 0
    BY <2>2, Anew
  <2>5. agenda' = HeadBecomes(agenda, m)
    BY <2>3 DEF HeadBecomes
  <2>6. v \in run'.tokens /\ \A u \in run'.tokens : u = v \/ u \in run.tokens
    BY <2>3
  <2>. QED BY <1>8, <2>3, <2>4, <2>5, <2>6
<1>11. CASE Divided(n)
  <2>1. /\ Splitting(n) /\ run'.tokens = (run.tokens \ On(run.tokens, n)) \cup Parts(k, n)
        /\ agenda' = ArrayOrder({t \in run'.tokens : t.node # n}) \o Tail(agenda)
    BY <1>11 DEF Divided, k
  <2>2. Tail(agenda) = <<>>
    BY <1>1, <1>2, <2>1, SplitComesLast
  <2>3. PICK left : left = {t \in run'.tokens : t.node # n}
    OBVIOUS
  <2>4. TokensOk(left, run'.made)
    BY <1>3, <2>3, TokensDropped
  <2>5. PICK nodes \in Seq(Node) : nodes = ArrayOrder(left)
    BY <1>3, <2>4, ArrayHoldsNodes
  <2>6. nodes \o <<>> = nodes
    OBVIOUS
  <2>7. agenda' = nodes
    BY <2>1, <2>2, <2>3, <2>5, <2>6
  <2>8. \A t \in left : t.node \in Entered(nodes)
    BY <1>3, <2>4, <2>5, NoTokenLeftOut DEF Entered
  <2>9. n \notin Activity
    BY <2>1 DEF Splitting, Activity, Requests
  <2>10. PICK t \in run.tokens : t.node = n
    <3>1. On(run.tokens, n) # {}
      BY <1>1, <2>1, SettlingHolds DEF NoEntryBare, Splitting
    <3>. QED BY <3>1 DEF On
  <2>11. ASSUME NEW u \in run.tokens, u.node \in Activity PROVE FALSE
    <3>1. PICK h : Dwelt(Homes, run.tokens, h)
      BY <1>2 DEF Housed
    <3>2. u.id # t.id
      BY <1>2, <2>9, <2>10, <2>11 DEF TokensOk
    <3>3. h[u.id] \cap h[t.id] = {} /\ h[u.id] \in Homes[u.node] /\ h[t.id] \in Homes[n]
      BY <2>10, <3>1, <3>2 DEF Dwelt
    <3>4. h[t.id] \cap h[u.id] # {}
      BY <1>1, <2>1, <2>11, <3>3 DEF AsksOnce
    <3>. QED BY <3>3, <3>4
  <2>12. ASSUME NEW u \in Parts(k, n), u \in run'.tokens PROVE OnceAsked(u, nodes)
    <3>1. PICK i, b : u = Token(k + i, Out[n][i], b)
      BY DEF Parts, Fresh
    <3>2. u.intents = 0
      BY <3>1, Anew
    <3>3. u.node \in Activity => u.node \in Entered(nodes)
      BY <2>3, <2>8, <2>9, <2>12
    <3>. QED BY <3>2, <3>3 DEF OnceAsked
  <2>13. ASSUME NEW u \in run.tokens PROVE OnceAsked(u, nodes)
    BY <2>11 DEF OnceAsked
  <2>. QED BY <2>1, <2>7, <2>12, <2>13
<1>. QED BY <1>6, <1>7, <1>9, <1>10, <1>11 DEF Entry

LEMMA CommitAsksOnce ==
  ASSUME TaskInv, OnceInv, Committed
  PROVE  OnceInv'
<1>1. CASE /\ agenda = <<>> /\ call # "idle" /\ call' = "idle"
           /\ inst'.tokens = {Waiting(t) : t \in run.tokens}
  <2>1. TokensOk(run.tokens, run.made) /\ \A t \in run.tokens : OnceAsked(t, <<>>)
    BY <1>1 DEF TaskInv, CopyOk, OnceInv
  <2>2. \A t \in run.tokens : OnceAsked(Waiting(t), <<>>)
    BY <2>1, Copied DEF OnceAsked
  <2>3. \A u \in inst'.tokens : OnceAsked(u, <<>>)
    BY <1>1, <2>2
  <2>. QED BY <1>1, <2>3 DEF OnceInv, OnceAsked, Entered, Activity, Requests
<1>2. CASE call' = "idle" /\ inst'.tokens = inst.tokens
  BY <1>2 DEF OnceInv, OnceAsked, Entered, Activity, Requests
<1>. QED BY <1>1, <1>2 DEF Committed

LEMMA OnceInductive ==
  ASSUME NEW Homes, NEW S, Divides(Homes), Settles(S), AsksOnce(Homes),
         Sound(Homes, S), Sound(Homes, S)', AskedInv, OnceInv, [KernelNext]_kernelVars
  PROVE  OnceInv'
<1>1. /\ TaskInv /\ TaskInv' /\ HouseInv(Homes) /\ HouseInv(Homes)' /\ SettleInv(S)
  BY DEF Sound
<1>2. ASSUME inst' = inst, \A u \in run'.tokens : OnceAsked(u, agenda')
      PROVE  OnceInv'
  BY <1>2 DEF OnceInv, OnceAsked, Entered, Activity, Requests
<1>3. CASE EventMade
  <2>1. \A u \in run'.tokens : OnceAsked(u, agenda')
    BY <1>1, <1>3, EventAsksOnce
  <2>. QED BY <1>2, <1>3, <2>1 DEF EventMade
<1>4. CASE Enter
  <2>1. PICK n : Entry(n)
    BY <1>1, <1>4, EnterMakes
  <2>2. \A u \in run'.tokens : OnceAsked(u, agenda')
    BY <1>1, <2>1, EntryAsksOnce
  <2>. QED BY <1>2, <2>1, <2>2 DEF Entry
<1>5. CASE Committed
  BY <1>1, <1>5, CommitAsksOnce
<1>6. CASE UNCHANGED kernelVars
  BY <1>6 DEF kernelVars, OnceInv, OnceAsked, Entered, Activity, Requests
<1>. QED BY <1>1, <1>3, <1>4, <1>5, <1>6, EventMakes, CommitMakes DEF KernelNext

\* SCH-01, EXP-301 on a graph whose branches divide and settle and where no activity
\* waits beside a split: a token that waits for a timer, an effect or a child has asked
\* exactly once, as the requirements have it; any other, one on a sync_inline service
\* among them, for nothing.
AskedExactlyOnce == \A t \in inst.tokens : t.intents = IF Requests(t.node) THEN 1 ELSE 0

THEOREM BlocksAskOnce ==
  ASSUME NEW Homes, NEW S, Divides(Homes), Settles(S), AsksOnce(Homes)
  PROVE  KernelSpec => [](AskedExactlyOnce /\ SingleIntent)
<1>1. Sound(Homes, S) => TaskInv /\ GatewaysHeld /\ AloneOnActivity
  BY SettlingHolds, HousesApart DEF Sound
<1>2. AskedInv /\ OnceInv /\ Sound(Homes, S) /\ Sound(Homes, S)' /\ [KernelNext]_kernelVars => OnceInv'
  BY OnceInductive
<1>3. Sound(Homes, S) /\ AskedInv /\ OnceInv => AskedExactlyOnce
  <2>. SUFFICES ASSUME Sound(Homes, S), AskedInv, OnceInv, NEW t \in inst.tokens
                PROVE  t.intents = IF Requests(t.node) THEN 1 ELSE 0
    BY DEF AskedExactlyOnce
  <2>1. t.node \in Node
    BY DEF Sound, TaskInv, TokensOk
  <2>. QED BY <2>1, NothingEntered DEF AskedInv, OnceInv, HasAsked, OnceAsked, Activity
<1>4. AskedExactlyOnce => SingleIntent
  BY DEF AskedExactlyOnce, SingleIntent
<1>. QED
  BY SoundAtFirst, SoundInductive, AskedAtFirst, AskedInductive, OnceAtFirst, <1>1, <1>2, <1>3, <1>4, PTL
     DEF KernelSpec
=============================================================================
