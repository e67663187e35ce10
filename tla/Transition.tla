----------------------------- MODULE Transition -----------------------------
(***************************************************************************)
(* The execution kernel (src/src/engine/transition.zig): transition()      *)
(* moves the tokens of one instance over the definition graph, and its     *)
(* caller (instance.zig, completeTask) persists what it returns.           *)
(*                                                                         *)
(* processNodeEntry is recursive.  Its pending calls are the sequence      *)
(* `agenda`, a stack whose head is the node being entered, and every entry *)
(* is one step.  Nothing interleaves with those steps: the call works on   *)
(* its own copy of the state, `run`, and the persisted state `inst`        *)
(* changes only in Persist (or not at all, when the call returns an error).*)
(***************************************************************************)
EXTENDS Naturals, FiniteSets, Sequences

CONSTANTS
  Node,        \* the nodes of the definition graph
  Kind,        \* Kind[n]: its node_type
  Out,         \* Out[n]: targets of its outgoing edges, in the order of the edges
  Default,     \* EXCLUSIVE_GATEWAYs that have a default edge
  SyncInline,  \* SERVICE_TASKs marked sync_inline
  Start,       \* the START node
  MaxToken     \* bound: no event is applied once this many tokens were made

Kinds == {"START", "END", "HUMAN_TASK", "TIMER", "SERVICE_TASK", "SUB_PROCESS",
          "EXCLUSIVE_GATEWAY", "PARALLEL_GATEWAY"}

\* The part of validateGraph the kernel relies on.
ASSUME GraphAssumption ==
  /\ Node \cap {"idle", "start", "other"} = {}   \* a task event is named by its node
  /\ Kind \in [Node -> Kinds]
  /\ Out \in [Node -> Seq(Node)]
  /\ Start \in Node /\ Kind[Start] = "START" /\ Out[Start] # <<>>
  /\ \A n \in Node : (Kind[n] # "END") => (Out[n] # <<>>)
  /\ Default \subseteq Node
  /\ SyncInline \subseteq {n \in Node : Kind[n] = "SERVICE_TASK"}
  /\ MaxToken \in Nat

InDegree(n) ==
  Cardinality(UNION {{<<m, i>> : i \in {j \in DOMAIN Out[m] : Out[m][j] = n}} : m \in Node})

VARIABLES
  inst,     \* the persisted instance: [status, tokens, counter, tasks, made]
  run,      \* the copy transition() works on: [status, tokens, counter, pending, made]
  agenda,   \* the nodes processNodeEntry still has to enter
  call      \* "idle", or the kind of event being applied

kernelVars == <<inst, run, agenda, call>>

\* A token's branch_id is <<gateway, edge index>>; the root branch is <<Start, 0>>.
\* `id` orders the tokens array; `intents` counts the timers, effects or child
\* starts requested for the token since it arrived at its node (history only).
Token(id, n, b) == [id |-> id, node |-> n, branch |-> b, waiting |-> FALSE, intents |-> 0]
NoArrival == [received |-> 0, expected |-> 0]

KernelInit ==
  /\ inst = [status |-> "NEW", tokens |-> {}, counter |-> [n \in Node |-> NoArrival],
             tasks |-> {}, made |-> 0]
  /\ run = [status |-> "NEW", tokens |-> {}, counter |-> [n \in Node |-> NoArrival],
            pending |-> {}, made |-> 0]
  /\ agenda = <<>>
  /\ call = "idle"

-----------------------------------------------------------------------------
On(tokens, n) == {t \in tokens : t.node = n}
First(tokens) == CHOOSE t \in tokens : \A u \in tokens : t.id <= u.id
Rank(tokens, t) == Cardinality({u \in tokens : u.id < t.id}) + 1
ArrayOrder(tokens) ==
  [i \in 1 .. Cardinality(tokens) |-> (CHOOSE t \in tokens : Rank(tokens, t) = i).node]

\* A token moved along an edge keeps its branch and its place in the array.
Moved(t, n) == [t EXCEPT !.node = n, !.waiting = FALSE, !.intents = 0]
Advance(tokens, t, n) == (tokens \ {t}) \cup {Moved(t, n)}

\* completeTask recomputes pending_task_nodes from the tokens it has read.
TaskNodes(tokens) == {t.node : t \in {u \in tokens : Kind[u.node] = "HUMAN_TASK"}}

-----------------------------------------------------------------------------
(* The events.                                                             *)

Begin(kind, tokens, pending, status, entered) ==
  /\ call = "idle"
  /\ inst.made < MaxToken
  /\ run' = [status |-> status, tokens |-> tokens, counter |-> inst.counter,
             pending |-> pending, made |-> IF kind = "start" THEN 1 ELSE inst.made]
  /\ agenda' = entered
  /\ call' = kind
  /\ UNCHANGED inst

InstanceStarted ==
  /\ inst.status = "NEW"
  /\ LET n == Out[Start][1]
     IN Begin("start", {Token(1, n, <<Start, 0>>)}, {}, "ACTIVE", <<n>>)

\* The token that continues is the first one on the node, whoever's branch it is.
Continue(kind, n, pending, candidates) ==
  /\ inst.status = "ACTIVE"
  /\ candidates # {}
  /\ LET next == Out[n][1]
     IN Begin(kind, Advance(inst.tokens, First(candidates), next), pending,
              inst.status, <<next>>)

TaskCompleted(n) ==
  /\ n \in inst.tasks
  /\ Continue(n, n, TaskNodes(inst.tokens) \ {n}, On(inst.tokens, n))

\* service_task_completed, and effect_completed for the async path.
ServiceCompleted(n) ==
  /\ Kind[n] = "SERVICE_TASK"
  /\ Continue("other", n, TaskNodes(inst.tokens), On(inst.tokens, n))

SubProcessCompleted(n) ==
  /\ Kind[n] = "SUB_PROCESS"
  /\ \E t \in On(inst.tokens, n) :
       t.waiting /\ Continue("other", n, TaskNodes(inst.tokens), {t})

\* effect_failed: ERROR, and every token on the service task is dropped.
EffectFailed(n) ==
  /\ Kind[n] = "SERVICE_TASK" /\ inst.status = "ACTIVE"
  /\ On(inst.tokens, n) # {}
  /\ Begin("other", inst.tokens \ On(inst.tokens, n), TaskNodes(inst.tokens), "ERROR", <<>>)

-----------------------------------------------------------------------------
(* processNodeEntry, one action per kind of node.                          *)

Entering(n, kind) == agenda # <<>> /\ n = Head(agenda) /\ Kind[n] = kind

Park(n) == agenda' = Tail(agenda) /\ UNCHANGED <<inst, call>>

\* An END removes every token on it; without a token elsewhere than on an END
\* the instance is complete and keeps none.
EnterEndKeepsStatus(n) ==
  /\ Entering(n, "END")
  /\ run' = [run EXCEPT !.tokens = @ \ On(@, n)]
  /\ Park(n)
EnterEndCompletes(n) ==
  /\ Entering(n, "END")
  /\ run' = [run EXCEPT !.tokens = {}, !.status = "COMPLETED"]
  /\ Park(n)
EnterEnd(n) ==
  /\ Entering(n, "END")
  /\ LET rest == run.tokens \ On(run.tokens, n)
         active == \E t \in rest : Kind[t.node] # "END"
     IN run' = IF active THEN [run EXCEPT !.tokens = rest]
                         ELSE [run EXCEPT !.tokens = {}, !.status = "COMPLETED"]
  /\ Park(n)

EnterHumanTask(n) ==
  /\ Entering(n, "HUMAN_TASK")
  /\ run' = [run EXCEPT !.pending = @ \cup {n}]
  /\ Park(n)

\* TIMER, SUB_PROCESS, SERVICE_TASK: an intent for the first token on the node.
Intend(n, wanted) ==
  LET t == First(On(run.tokens, n))
  IN /\ On(run.tokens, n) # {}
     /\ run' = IF wanted
                 THEN [run EXCEPT !.tokens = (@ \ {t}) \cup {[t EXCEPT !.intents = @ + 1]}]
                 ELSE run
     /\ Park(n)

EnterTimer(n) == Entering(n, "TIMER") /\ Intend(n, TRUE)
EnterSubProcess(n) ==
  Entering(n, "SUB_PROCESS") /\ Intend(n, ~ First(On(run.tokens, n)).waiting)
EnterServiceTaskAlways(n) == Entering(n, "SERVICE_TASK") /\ Intend(n, TRUE)

\* A sync_inline service task emits no effect: its caller runs the service.
EnterServiceTask(n) ==
  /\ Entering(n, "SERVICE_TASK")
  /\ IF n \in SyncInline THEN UNCHANGED run /\ Park(n) ELSE Intend(n, TRUE)

\* Conditions are abstract: any edge may be the first whose condition holds.
EnterExclusive(n) ==
  /\ Entering(n, "EXCLUSIVE_GATEWAY")
  /\ On(run.tokens, n) # {}
  /\ \E i \in DOMAIN Out[n] :
       /\ run' = [run EXCEPT !.tokens = Advance(@, First(On(@, n)), Out[n][i])]
       /\ agenda' = <<Out[n][i]>> \o Tail(agenda)
  /\ UNCHANGED <<inst, call>>

IsSplit(n) == Len(Out[n]) > 1 /\ InDegree(n) <= 1
IsJoin(n) == ~ IsSplit(n) /\ InDegree(n) > 1

BranchWithoutIndex(n, i) == <<n, 1>>
BranchId(n, i) == <<n, i>>

\* A split replaces the tokens on the gateway by one per outgoing edge and then
\* enters the node of EVERY token that is not on the gateway.
EnteredAfterSplit(n, tokens) == ArrayOrder({t \in tokens : t.node # n})

EnterSplit(n) ==
  /\ Entering(n, "PARALLEL_GATEWAY") /\ IsSplit(n)
  /\ LET fresh == {Token(run.made + i, Out[n][i], BranchId(n, i)) : i \in DOMAIN Out[n]}
         tokens == (run.tokens \ On(run.tokens, n)) \cup fresh
     IN /\ run' = [run EXCEPT !.tokens = tokens, !.made = @ + Len(Out[n])]
        /\ agenda' = EnteredAfterSplit(n, tokens) \o Tail(agenda)
  /\ UNCHANGED <<inst, call>>

\* updateJoinCounter: the peak of the tokens seen parked, the number expected
\* fixed by the first arrival.  No branch is ever cancelled in this tree.
Arrived(n) ==
  LET now == Cardinality(On(run.tokens, n))
      c == run.counter[n]
  IN [received |-> IF now > c.received THEN now ELSE c.received,
      expected |-> IF c.expected = 0 THEN InDegree(n) ELSE c.expected]

JoinOvercomplete(n) == Arrived(n).received > Arrived(n).expected
JoinComplete(n) == Arrived(n).received >= Arrived(n).expected

EnterJoinParks(n) ==
  /\ Entering(n, "PARALLEL_GATEWAY") /\ IsJoin(n)
  /\ ~ JoinComplete(n)
  /\ run' = [run EXCEPT !.counter[n] = Arrived(n)]
  /\ Park(n)

\* The merged token takes the branch of edge 1 if it is there, else the least.
MergedBranch(tokens) ==
  IF \E t \in tokens : t.branch[2] = 1
    THEN First({t \in tokens : t.branch[2] = 1}).branch
    ELSE First({t \in tokens : \A u \in tokens : t.branch[2] <= u.branch[2]}).branch

\* clearJoinCounter.
Cleared(n) == NoArrival

EnterJoinFires(n) ==
  /\ Entering(n, "PARALLEL_GATEWAY") /\ IsJoin(n)
  /\ JoinComplete(n)
  /\ LET here == On(run.tokens, n)
     IN run' = [run EXCEPT !.tokens = (@ \ here)
                               \cup {Token(run.made + 1, Out[n][1], MergedBranch(here))},
                           !.counter[n] = Cleared(n),
                           !.made = @ + 1]
  /\ agenda' = <<Out[n][1]>> \o Tail(agenda)
  /\ UNCHANGED <<inst, call>>

\* A parallel gateway with one edge in and one out parks its token.
EnterOther(n) ==
  /\ Entering(n, "PARALLEL_GATEWAY") /\ ~ IsSplit(n) /\ ~ IsJoin(n)
  /\ UNCHANGED run
  /\ Park(n)

Enter ==
  \E n \in Node :
    \/ EnterEnd(n) \/ EnterHumanTask(n) \/ EnterTimer(n) \/ EnterSubProcess(n)
    \/ EnterServiceTask(n) \/ EnterExclusive(n) \/ EnterSplit(n)
    \/ EnterJoinParks(n) \/ EnterJoinFires(n) \/ EnterOther(n)

-----------------------------------------------------------------------------
(* The caller.                                                             *)

\* A task row for each pending node that had none before; the children started
\* for the SUB_PROCESS tokens; terminal states keep nothing open.
Waiting(t) == [t EXCEPT !.waiting = Kind[t.node] = "SUB_PROCESS"]

NewTaskNodes == TaskNodes(run.tokens)
OldTaskNodes == IF call = "start" THEN {} ELSE TaskNodes(inst.tokens)

Persist ==
  /\ call # "idle" /\ agenda = <<>>
  /\ inst' = [status |-> run.status,
              tokens |-> {Waiting(t) : t \in run.tokens},
              counter |-> run.counter,
              tasks |-> (inst.tasks \ {call}) \cup (run.pending \ OldTaskNodes),
              made |-> run.made]
  /\ call' = "idle"
  /\ UNCHANGED <<run, agenda>>

Return(status) ==
  /\ inst' = [inst EXCEPT !.status = status]
  /\ agenda' = <<>> /\ call' = "idle"
  /\ UNCHANGED run

\* InvalidState: the entered node has no token.  The transaction is rolled back.
TokenMissing ==
  /\ agenda # <<>>
  /\ Kind[Head(agenda)] \in {"TIMER", "SUB_PROCESS", "EXCLUSIVE_GATEWAY"}
  /\ On(run.tokens, Head(agenda)) = {}
  /\ Return(inst.status)

\* NoMatchingEdge: rolled back, then setInstanceError (create just fails).
NoMatchingEdge ==
  /\ agenda # <<>>
  /\ Kind[Head(agenda)] = "EXCLUSIVE_GATEWAY" /\ Head(agenda) \notin Default
  /\ Return(IF call = "start" THEN inst.status ELSE "ERROR")

KernelNext ==
  \/ InstanceStarted
  \/ \E n \in Node : TaskCompleted(n) \/ ServiceCompleted(n)
                     \/ SubProcessCompleted(n) \/ EffectFailed(n)
  \/ Enter
  \/ Persist
  \/ TokenMissing
  \/ NoMatchingEdge

KernelSpec == KernelInit /\ [][KernelNext]_kernelVars

-----------------------------------------------------------------------------
(* Properties.                                                             *)

\* EE-03: each token on a HUMAN_TASK has its PENDING task row and each row its
\* token, so that no user completes a task nobody waits for and none is missing.
TasksMatchTokens == inst.status = "ACTIVE" => inst.tasks = TaskNodes(inst.tokens)

\* EE-03 as the requirement has it: a token that enters a HUMAN_TASK has a PENDING
\* task created for it.  Not so when a choice leads back to the task just completed.
EnteredTaskHasRow == inst.status = "ACTIVE" => TaskNodes(inst.tokens) \subseteq inst.tasks

\* EE-06: a split makes one token per outgoing edge; a branch never has two.
OneTokenPerBranch ==
  \A t, u \in inst.tokens : t.branch = u.branch => t = u

\* The nodes that ask for something: a timer, an effect, a child.
Requests(n) == Kind[n] \in {"TIMER", "SERVICE_TASK", "SUB_PROCESS"} /\ n \notin SyncInline

\* What is reached from a node without entering the barred ones.
Reached(n, barred) ==
  LET steps[k \in Nat] ==
        IF k = 0 THEN {n} \ barred
        ELSE LET before == steps[k - 1]
             IN before \cup (UNION {{Out[m][i] : i \in DOMAIN Out[m]} : m \in before} \ barred)
  IN steps[Cardinality(Node)]

\* Where a token may wait while another one enters a split: the two come from two
\* edges of an earlier split, and no join behind the later split holds up the first.
BesideSplit ==
  LET Split == {n \in Node : Kind[n] = "PARALLEL_GATEWAY" /\ IsSplit(n)}
      JoinsBehind(s) == {j \in Reached(s, {}) : Kind[j] = "PARALLEL_GATEWAY" /\ IsJoin(j)}
      Beside(p, s) == {i \in DOMAIN Out[p] : \E k \in DOMAIN Out[p] \ {i} : s \in Reached(Out[p][k], {})}
  IN UNION {UNION {Reached(Out[p][i], JoinsBehind(s)) : i \in Beside(p, s)} : p \in Split, s \in Split}

\* SCH-01, EXP-301: a token that waits has asked for its timer, effect or child when
\* it arrived, and once only unless a split beside it has entered its node again; a
\* token on any other node, a sync_inline service among them, has asked for nothing.
SingleIntent ==
  \A t \in inst.tokens :
    IF Requests(t.node) THEN t.intents > 0 /\ (t.intents > 1 => t.node \in BesideSplit)
                        ELSE t.intents = 0

\* EE-07: when every token left has arrived at a join, some join fires.
ArrivedTokensLeave ==
  inst.status = "ACTIVE" =>
    ~ (\A t \in inst.tokens : Kind[t.node] = "PARALLEL_GATEWAY" /\ IsJoin(t.node))

\* COMPLETED leaves nothing open: no token, no task, no half-filled join.
CompletedIsClean ==
  inst.status = "COMPLETED" =>
    /\ inst.tokens = {} /\ inst.tasks = {}
    /\ \A n \in Node : inst.counter[n] = NoArrival

\* An ACTIVE instance can always be reached by an event: it holds a token.
ActiveHasToken == inst.status = "ACTIVE" => inst.tokens # {}

\* Users complete their tasks, services answer, and transition() terminates.
Fairness ==
  /\ WF_kernelVars(InstanceStarted) /\ WF_kernelVars(Enter) /\ WF_kernelVars(Persist)
  /\ \A n \in Node : /\ WF_kernelVars(TaskCompleted(n)) /\ WF_kernelVars(ServiceCompleted(n))
                     /\ WF_kernelVars(SubProcessCompleted(n))
FairSpec == KernelSpec /\ Fairness

\* A parallel gateway with one edge in and one out never lets its token go.
HeldForGood ==
  \E t \in inst.tokens :
    Kind[t.node] = "PARALLEL_GATEWAY" /\ ~ IsSplit(t.node) /\ ~ IsJoin(t.node)

\* Under that fairness every instance of a block-structured graph ends, unless
\* such a gateway holds one of its tokens.
EveryInstanceEnds == <>(inst.status \in {"COMPLETED", "ERROR"} \/ HeldForGood)
=============================================================================
