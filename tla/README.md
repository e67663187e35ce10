# R-Co in TLA+

A verification project for R-Co, a multi-tenant BPM server written in Zig over
PostgreSQL (`src/src`), and its web client in TypeScript and React (`src/web/src`). It
holds TLA+ models of the parts where processes meet in the database, and of the
client's pages, where requests, polls and answers meet what the user does next; TLC
configurations that check them on small instances; and theorems checked by TLAPS for
every value of the constants. Source paths are written from the root of the project
tree: code is `src/src/...` and `src/web/src/...`, migrations are
`src/migrations/...`, requirements are `src/docs/requirements/...` and
`src/docs/requirements.yaml` (below `docs/requirements.yaml`), design notes are
`src/src/design/...` (below `design/...`). A bare file name
below is that of the one file of this name in the component under discussion.

Contents: 1 the system, 2 modules and code, 3 runs, 4 bounds and fairness,
5 proofs, 6 disagreements found, 7 what is not modelled, 8 plan.

## 1. The system

A server process runs HTTP threads, one timer poll thread, effect workers, BPM
consumers and several sweepers. Several nodes run the same program against one
database with a schema per tenant. Threads and nodes share nothing else than the
tables, so the interesting interleavings are those of transactions, and the
interesting failures are a node that dies between two transactions and a
statement that fails inside one.

| Component | State | Operations | What makes it correct |
|---|---|---|---|
| Execution kernel, `engine/transition.zig` | tokens, join counters, pending tasks of one instance | `transition()` for every event; `processNodeEntry` recursively | runs to quiescence, one token a branch, joins fire once and when complete, END completes exactly when nothing is left |
| Instance requests, `engine/instance.zig`, `tasks/store.zig` | `instance_projections`, `tasks`, events | `create`, `completeTask`, `cancelInstance`, `setInstanceError` | completions are serialised, terminal states final, tasks and tokens agree |
| Timer scheduler, `scheduler/` | `timers`, `dead_letter_items` | poll, fire, rearm, count an error, dead-letter, cancel | a timer fires once, none survives its instance, each settles |
| Re-entry ordering, `ordering/` | `plat_effect_completion`, `plat_correlation_cursor` | record, claim, guard, apply, advance, sweep | completions of a correlation are applied in sequence and once; gaps are dead-lettered |
| Effects, `effects/` | `effects_outbox`, `instance_waits` | insert, deliver, retry, dead-letter, re-enter | each effect is delivered and its result re-enters the instance once |
| Outbox gate, `outbox/`, `api/middleware/outbox_cap.zig` | depth cache, gate rows, refusal queue | refresh, close, reopen, refuse, flush | the gate opens again; no refusal is lost below the capacity |
| Sub-processes, `engine/instance.zig` | `sub_process_links` | start, propagate completion, error, cancel | a parent waits only for a child that will tell it |
| Event store, snapshots, reconstruction | events, snapshots | append, snapshot, replay | replay equals the projection |
| Definitions, promotion, rollback, sandbox pool, `definition/` | versions, reviews, sandbox quota | save, activate, review, promote, roll back, claim, release | one ACTIVE version, what was reviewed is what is promoted, the quota holds |
| Migrations, provisioning, fan-out, back-fill | control rows, advisory locks | run, resume, retry | a `done` row means its DDL committed |
| Onboarding, `api/routes/onboarding.zig`, `identity/onboarding.zig` | `onboarding_registry`, tenant, schema, realm, host name | POST, saga, compensate, GET | a completed tenant is there as a whole and is its own |
| Tenants, identity, OIDC | tenants, realms, users | reset, delete, cut over | no user outlives a tenant |
| Designer, `web/.../definitions`, `components/canvas`, `stores/` | drawing, history, draft, conflict, cached definitions | edit, undo, lay out, save, merge, leave | no edit is lost unasked; undo and redo only move |
| Sign-in, `web/src/auth`, `api/client.ts` | session, token, OIDC manager | guard, look up, redirect, exchange, renew, sign out | only the callback signs in; nobody is anonymous unawares |
| Instance pages, `web/.../instances` | cached instance, board, timeline; filters in the address | open, poll, cancel, start, load more | the page comes to show what is so |
| Onboarding pages, `web/.../admin/onboarding` | form and key, timer, result | submit, poll, give up, start over | the timer stops, the outcome is shown |
| Rows to work on, `web/.../{dlq,tasks,admin,definitions}` | cached list and detail, dialogs, overlay | thirty operations on eleven pages | users see the outcome of their work |
| Paged lists, `web/.../{AuditLogPage,DlqPage}` | filter, stack of cursors, cached pages | filter, next, previous | paging to the end misses nothing |
| Middleware, routes, expression language, Lua, WebAssembly, simulation, entities, repository, packs, secrets, observability | mostly none of their own | request by request | sequential |

How they meet:

* A request that completes a task calls the kernel on a copy of the projection
  and writes the result, the event, the new tasks, timers and waits in one
  transaction. It holds the projection row, `FOR UPDATE NOWAIT`.
* The poll thread holds a timer row (`FOR UPDATE SKIP LOCKED`) and then
  writes the projection. A cancel holds the projection and then writes the timers.
* An effect worker records a completion; a consumer applies it under a row lock and an
  advisory lock; a sweeper buries what waits behind a gap.
* The end of a child instance is propagated to its parent after its own commit.
* A page of the client reads through the TanStack query cache: an entry is loaded when
  a component observes it, polled by some pages, and marked stale by the answer of a
  mutation. A request outlives the page that sent it, and its answer acts on what
  is on the screen by then. Other users change the server meanwhile.
* Every request carries the one token of `api/client.ts`. An answer 401 takes it
  away and sends the browser to the identity provider (Keycloak), which
  comes back to the callback page; all memory of the page is gone each time.
* The onboarding pages POST a form with an idempotency key and poll with GET, while a
  detached thread of the server runs the saga over PostgreSQL and Keycloak.

`PROJECT.json` lists every component with its files, and each hazard at the line
where it bites. A hazard without a property says which planned module is to cover it.

## 2. Modules and code

### EffectOrder, Ordering, MCOrdering, OrderingProofs

`EffectOrder` is the promise: a completion arrives, is applied only as the
successor of the last applied one, or is buried; correlations are independent. It
knows no consumers, locks or transactions.

`Ordering` is `ordering/mod.zig`, `cursor.zig`, `consumer.zig` and `sweeper.zig`,
one action per database statement.

| Model | Code |
|---|---|
| `status`, `aged` | `plat_effect_completion.status`, `received_at` past the gap timeout |
| `cursor`, `log` | `plat_correlation_cursor.applied_seq`, events EXECUTION_EFFECT_APPLIED |
| `pc`, `claim` | how far each consumer is in `runOneCycle`, the row it holds |
| `Claim`, `GuardAcquired`, `InOrder`, `MarkApplied`, `AdvanceCursor`, `Commit` | `claimNextPending`, `tryExecuteGuard`, `readOrInitCursor` and the order guard, `applyCompletion`, `advanceCursor`, COMMIT |
| `GuardBusy`, `OutOfOrder`, `ConsumerFails` | the deferrals and failures: ROLLBACK drops every write and both locks |
| `SweepSelect`, `SweepList`, `SweepBegin`, `SweepLock`, `SweepCommit`, `SweepReturn` | `sweepStalledCorrelations`: the select, the list read before BEGIN, the UPDATE that takes its rows one by one, COMMIT, the list handed to the caller |

Uncommitted writes are visible to nobody, so the model makes them in `Commit`. The
claim query orders by correlation and sequence; correlations are numbers to
have that order. `RowLocked` is `FOR UPDATE SKIP LOCKED`, and `Hash` is
`hashtext`: two correlations may share a key. An effect that never completes is a
row in `Lost`.

### Transition, Blocks, MCTransition

`engine/transition.zig` and the part of `completeTask` that persists its result.
`inst` is the persisted instance, `run` the copy `transition()` works on and
`agenda` the pending recursive calls of `processNodeEntry`, each entry a step.
Events (`InstanceStarted`, `TaskCompleted`, `ServiceCompleted`,
`SubProcessCompleted`, `EffectFailed`) begin a call; `EnterEnd`, `EnterHumanTask`,
`EnterTimer`, `EnterSubProcess`, `EnterServiceTask`, `EnterExclusive`, `EnterSplit`,
`EnterJoinParks`, `EnterJoinFires` and `EnterOther` are the branches of
`processNodeEntry`; `Persist`, `TokenMissing` and `NoMatchingEdge` end it. Ids are
ordered because "the first token on the node" is what the code takes. `intents`
is history: how often an activity was requested for the token since it arrived. A service
task marked `sync_inline` (`SyncInline`) emits no effect when it is entered; its token waits all
the same, until the caller has run the service and applies the answer. `Requests` says which nodes
ask for something, `BesideSplit` where a token may wait while another enters a split.

Abstracted: conditions (any edge may be the first that holds), variable
transforms, event payloads. `EnterExclusive` also takes the first of several true
edges, so it allows at least what the code does. Left out: `cancelled_branch_ids`,
which nothing in the tree fills. `GraphAssumption` is what `validateGraph`
guarantees of a definition and the kernel relies on.

`Blocks` adds no behaviour: its predicates speak of the definition graph alone and say for
which graphs the theorems of section 5 hold without a condition on the run. Each takes a
certificate, a function or a set that is easy to give for a graph drawn in blocks: `Divides(Homes)`
(a split divides what a join unites again), `Settles(S)` (no split directly behind a split, no
branch that starts with a join), `ComesBack(After)` (a choice leads back at once to the task just
completed), `AsksOnce(Homes)` (no activity waits beside a split). `validateGraph` asks for none of
these. `MCTransition` gives certificates for the blocks of the graph it checks, the part behind
P1, and `BlockAssumption` has TLC evaluate all four predicates on them.

### Instance, MCInstance, InstanceProofs

`completeTask`, `cancelInstance` and `setInstanceError` as concurrent requests on
one instance, and the row statements of `tasks/store.zig` they make. `ReadTask` and
`ReadProjection` are the reads before the transaction (steps a to c2 of
`completeTask`), `Lock` is step f, `Complete` the statements up to COMMIT,
`Abandon` every early return and crash. `Violation` and `SetInstanceError` are the
rollback and the ERROR status written in another transaction; `LockToCancel` and
`Cancel` are `cancelInstance`. `copy` is what the request has read, `stale` is history:
whether a commit overwrote a newer projection.

The definition is a split into `Branch` branches of `Length` human tasks, a join
and an END; `Transition` has the kernel in full. A completion writes the
position of *every* token from its copy, as the UPDATE of `active_tokens` does.
`InstanceProofs` extends `Instance` and `Blocks`, and so `Transition`, and has the proofs of both; the
specification of the kernel is therefore `KernelSpec` (`KernelInit`, `KernelNext`).

### Scheduler, MCScheduler, SchedulerProofs

`scheduler/scheduler.zig`, `store.zig` and `recurrence.zig` for the timers of
one instance. `rows` is `timers.status`, `due` the timers whose time has come in
the order of the claim query (settled ones stay in it, the query skips them), `held` the row locks, `lock` the projection row. `Claim`, `AppendEvent`, `Fire` are the
transaction of `processNextDueTimer`, with the rearm of a recurrence in `Fire`;
`FireFails`, `StatementFails` its failures; `Count`, `ReadCount`, `MarkFailed` are
`handleTimerFireError` with its second and third transactions. `LockInstance`,
`StartTimer`, `FindTimers`, `CloseInstance` are the requests that arm or cancel
timers. `AbortNode` and `AbortRequest` are the deadlock detector of PostgreSQL.

The writes of a fire are made in the one step `Fire`: row and projection are both
locked by then. The lock on the instance's event sequence is always taken with the
projection's and is one lock with it. `errors` stops at `Limit` + 1, since the
code compares it with `Limit` only. A closed instance may also be in ERROR; that
status neither arms nor cancels timers and is left out.

### UndoLine, Canvas, Editor, MCEditor, EditorProofs

`UndoLine` is the promise of an undo history: versions on one line, of which the
user looks at one. `Canvas` is `ProcessCanvas.tsx`, `PropertyPanel.tsx`,
`ConditionDialog.tsx` and `canvasHistoryStore.ts`; `Editor` extends it to
`DefinitionEditorPage.tsx` with `ConflictResolver.tsx`, the hooks of
`useDefinitions.ts` and the draft store.

| Model | Code |
|---|---|
| `line` | `snapshots`, the drawing, `future` of the history store |
| `dialog`, `chosen`, `edited`, `layout` | condition dialog, selection, panel, an ELK layout under way |
| `asked` | the trigger counters of the page and the refs the canvas compares them with |
| `page`, `visit`, `cache`, `loading` | the address, the mounted instance, the queries |
| `saves`, `conflict`, `draft`, `blocked` | PATCH and POST in flight, the 409 shown, the mirrored draft, `useBlocker` |
| `AddNode`, `Connect`, `EditCondition`, `RemoveNode`, `AutoLayout`, `LayoutDone`, `Undo`, `Redo`, ... | the handlers of the canvas |
| `Save`, `Store`, `SaveOk`, `SaveRefused`, `SaveMerged`, `Discard` | `handleSave`, the server, its answers, the two ways out of a conflict |
| `Navigate`, `ProceedAnyway`, `Stay`, `Reload` | the guard and what it cannot hold back |

A drawing is which gateways, sub-processes and edges exist, which edges carry a
condition and which sub-processes an interface the designer rejects. `opened`, the drawing
last loaded or saved, is history.

### Session, Paging, MCSession, SessionProofs

`Session` is `AuthProvider.tsx`, `ProtectedRoute.tsx`, `OidcManager.ts`,
`tenantConfig.ts`, the callback and the token of `api/client.ts`. `asks` are the
continuations that wait for `getOidcManager`, `calls` the tokens of requests in
flight, `good` those the server accepts, `latch` the guard's `redirecting`.
Opening a page or coming back from the provider (`Loads`) forgets everything else.

`Paging` is the audit log and the dead-letter list: `filter` and `stack` of the page,
`entries` the query of each filter and cursor, `rows` the server's table.
`SetAuditFilter` and `SetDlqFilter` differ as the pages do: the second keeps its
cursor until `ApplyFilters`. `walk` is history: the rows owed to who pages from
the first page to the last, and those seen. The two share no state:
`MCSession` and `SessionProofs` extend both, and a behaviour of the run keeps to one. The
specification of `Paging` is therefore `PagingSpec`.

### QueryCache, InstancePages, BoardFilters, MCInstancePages, InstancePagesProofs

`QueryCache` is one entry of the cache as `main.tsx` configures it; its operators are
used by all the modules of pages. It is external: taken from how the pages use TanStack
Query. A refetch joins a first load and replaces a later one, and a mark on an entry
nobody observes only marks it.

`InstancePages` is `InstanceBoardPage.tsx`, `InstanceDetailPage.tsx` and
`useInstances.ts`: the board with the start dialog; the page of one instance with its
polls, tabs and timeline; `Confirm`, `CancelOk`, `CancelFails` are the optimistic
cancellation with its rollback. `place` says what is on the screen: the board, the instance
followed, one that was just started, or anything else; `own` of a request says whether the component
that sent it still is there. The router mounts the page of an instance once for all of them
(`router.tsx:56`, without a key): from one instance to another it keeps its tab, timeline, cursor and
dialog (`Kept`), from and to any other page they are gone (`Reset`). `carried` is history: the
timeline was begun on the page of another instance. `BoardFilters` is the address
of the board: the filter bar, the typeahead, the version query and the start dialog
write it; `borrowed` is history. Its specification is `BoardSpec`; `MCInstancePages` and
`InstancePagesProofs` extend both modules.

### Onboarding, OnboardingPages, MCOnboarding, OnboardingProofs

`Onboarding` is the server: `Claim` inserts the registry row and spawns the thread,
`MakeTenant`, `MakeSchema`, `MakeRealm`, `MakeAccess`, `BindHost`, `Complete` are the
saga, `Fails` and `Undo` its compensation in the reverse order, `Crash` the loss of the
process, `Looked` GET with its probe of the realm. `OnboardingPages` extends it to form,
progress and result page: `Submit`, `Receive`, `Accepted`, `Refused` the POST; `Tick`, `Look`,
`StillPending`, `Ended`, `Miss` the poll; `Verdict` is the status code a repeated POST is answered
with, the one the saga recorded, also for a row that was failed afterwards; `timers` counts intervals that run, `held`
says whether `intervalRef` knows one.

### Desk, MCDesk, DeskProofs

Eleven pages of one kind: dead letters, webhooks, task inbox, tenants, one tenant, groups,
tokens, services, users, definitions, modules. The definitions are there twice, with the history of a
row open in a panel, and with a search whose result takes the place of the list. `Page` is their
table: for each operation its control (where it is offered, for rows in what state, whether the dialog
closes at once or when served, which operations in flight disable it) and its mutation
(what it makes of the row, which entries it marks, always or while the panel is open, and what it does
afterwards). The actions are those all of them have: `Go`, `Serve`, `Accepted`, `Refused`, `Poll`,
`OpenPanel`, `Leave`, and `OthersChange`. `Status` is the set of statuses the table
mentions, so that a row has a type.

`Serve` is the server: it carries out what the row allows (`Allowed`), never a claim, and it never
carries out what its router hides (`Behind`, `Readable`: `main.zig:1097` answers 404 to
`/api/v1/admin` before the handlers are reached). The latter depends on the budget: `routed` stands for
a server without that branch, so that the pages behind it can be checked at all. `had` of a request is
history: which entries had data when it was sent. `another` is the users' page at the address of a user
that is not followed, where creating one ends. `Forgotten` names the queries that show an
operation's outcome and that the code does not mark (section 6, item 12).

## 3. The runs

Passing runs:

| Run | Question | Answer |
|---|---|---|
| `ordering_safety` | Two consumers that may fail at any statement, a sweeper that may stop half-way, two correlations with one hash key, three completions each in any order: is the order kept? | `AppliedPrefix`: the engine sees 1..applied_seq, once each. `ReportedIsSettled`: a completion named in a dead-letter entry is never applied afterwards, although the list is read before the transaction that buries. `InOrderApplication`: the protocol implements `EffectOrder`. 0.8 million states |
| `ordering_live` | Does a deferred row at the head of the claim order starve others for ever? | `EveryRowSettles`: not while only the tail of a sequence is lost; every row is applied or buried |
| `transition_graphs` | A first choice leads to blocks (a split of three branches, a split in a branch, a choice with a merge, a second END, a service, a sub-process) or to what `validateGraph` also permits (a loop through tasks, a timer, a degenerate gateway, a task before nested splits, a choice that matches nothing; a service and a `sync_inline` one that wait beside a task before a split) | `TasksMatchTokens`: each task token has its task row. `SingleIntent`: who waits for a timer, an effect or a child has asked on arrival, once only unless beside a split; nobody else has asked. `OneTokenPerBranch`, `ArrivedTokensLeave`, `CompletedIsClean`, `ActiveHasToken`, `EveryInstanceEnds`: tokens, branches and joins agree in every order of events; the instance ends and leaves nothing open, unless a degenerate gateway holds a token |
| `instance_requests` | Two completions, two cancels and failures in any order | `TokensTrailTasks`, `CompletedMeansDone`, `NothingOpenAfterCancel`, `LogMatchesRows`, `TerminalIsFinal`. `LossNeedsStaleCopy`: what it takes to lose an update |
| `scheduler_timers` | Two nodes, a recurrence of two, a timer that can never fire, a completion, a cancel, a fault at any point | `FiredOnce`, `ClosedHasNoPending`, `SeriesContinues`, `RetriedFirst`, `SettledForGood`, `EveryTimerSettles` |
| `web_editor` | Edits, undo, layouts and dialogs that end late, a canvas mounted again, saves answered after further edits, elsewhere, with a 409 or never, while others save or release | `OneLine`: the canvas implements `UndoLine`. `HistoryBounded`: the depth holds across undo and redo. `ConflictKeepsEdits`: a refused drawing stays until the user decides |
| `web_session` | Lookups that fail or overtake each other, a 401 for an old token, a renewal that ends after the session, redirections that race; and the paged lists | `OnlyCallbackSignsIn`, `NoSilentAnonymity`: a session without a token is on its way out. `GuardRedirects`: nobody stays on a page without a session. `NoRowSkipped`: paging to the end misses no row that was there throughout |
| `web_instances` | Cancellations that overtake polls and each other, pages left and opened again, a start answered elsewhere, also on the page of another instance, which is not mounted again, late timeline pages, the address with two writers | `NoPhantomCancel`: the optimistic status does not survive its request. `FeedIsWhole`: the timeline has its pages in order, and of this instance unless it was begun on another's page. `StatusCatchesUp`, `AddressFits` |
| `web_onboarding` | Two sagas that meet in a host name, fail, are undone and die; submissions and status requests lost, late or overtaken | `CompletedIsWhole`, `NoLeakedTimer`, `OutcomeShown` |
| `web_desk` | Two operations that overlap, changes by others, failures, panels and dialogs left and opened again, on each of eleven pages, lists, panels and search; groups and users also as the server routes them | `OwnWorkShown`: no entry that nothing will refresh is older than one's own answered operation, but for the queries named in `Forgotten`. `NothingClaimedInVain`: the dead-letter page's overlay. `InboxCatchesUp` |

Two runs TLC refutes, each a statement of the documentation (section 6):
`transition_rework` and `web_unsaved`.

Each property of a passing run has in `PROJECT.json` a mutant: an operator
of the module that is the mapped one with a plausible slip (a guard on the row
in place of the correlation, a re-check left out, `=` for `>=`, a late answer that does
not ask who is on the screen). Put in its place it makes TLC refute the property. Such
an operator stands directly before the one it varies, and no action uses it.

`CHECK_DEADLOCK FALSE` is set throughout: an instance ends, every completion is
applied, every timer settles, a page waits for its user or a budget is used up, and then
nothing is left to do. That nothing stops earlier is what the liveness properties
say.

## 4. Bounds and fairness

*Ordering.* `MaxSeq` = 3 gives a row before, at and after the cursor, so that
a gap, its successor and the successor's successor exist at once. Two correlations
are the least that can collide or starve each other, two consumers the least that can
race; they are symmetric and the set is used as a symmetry in the safety run only.
`ordering_live` has one consumer, because two that try alternately can find the
execute guard held for ever.
Fairness: the poll loops and the 60 s sweep run for ever (weak); an UPDATE
that waits for a row gets it when it becomes free again and again (strong,
PostgreSQL queues the waiters); an effect that is not lost completes and rows grow old
(weak, the worker and the clock).

*Transition.* The state space is that of the graphs of `MCTransition`; `MaxToken`
bounds the loop, no event is applied once that many tokens were made. The graphs
have each kind of node, each gateway both as split and join, one edge in
and out, nesting, a loop, and a second END; in one (P5) services wait beside a split, and
the intent that is repeated there (section 6, item 3) does occur.
Fairness: users complete tasks, services and children answer; the call itself
terminates, since the graphs have no cycle of gateways alone (weak, each).

*Instance.* Two branches of two tasks let a completion follow another in its own
and in the other branch; two requests of each kind are the least that race.
Requests repeat without bound, so that no number of completions is assumed.

*Scheduler.* `Limit` = 1, `Total` = 2, `MaxFaults` = 1, two nodes, one request
of each kind. One retry limit, one rearm and one fault at any point suffice
to have a timer counted by one node and fired by another, and a recurrence end. The
faults are bounded since a database that fails at every attempt settles nothing.
Fairness: weak for a poll thread that can go on and for a request inside its
transaction; strong for the steps that wait for a row lock (`AppendEvent`,
`Count`, `MarkFailed`), which PostgreSQL queues. Requests need not arrive.

*The client's pages.* What the user, other users and the network may do is
bounded by budgets. `Budgets` is a set of them and a behaviour keeps to one: long
editing, overlapping saves or failing queries are each explored deeply, without their
product. The MC modules name what each family is for.

* Designer: one gateway, one sub-process, a history of `MaxDepth` = 2, which three
  edits overflow; up to two saves in flight, one visit to another address, one change
  by another user.
* Session: two tokens, reused when nobody holds them, so sessions repeat without
  bound. Two are needed: the one the client holds and that of an older request or of
  the renewal.
* Lists: five rows in pages of two, two filters that are sent and one that is not, up to
  three pages read and four moves, one row added or removed or one failed request.
* Instances: two cancellations, so that one meets the optimistic status of the other,
  one start, whose instance's page may replace that of the instance followed, a timeline of two
  pages for each, up to three visits, one failed query.
* Onboarding: two keys and two forms with different slugs and one host. (server
  failures, lost requests, forms, overlapping status requests) are (1, 0, 2, 1), (2, 0, 1, 1)
  or (0, 3, 1, 2): a saga and its compensation may both fail; three misses are what the
  page gives up after.
* Desk: one row, two operations (`Slots` = 2), one change by others, one
  failure, the page opened once more. One operation is allowed where its panel multiplies
  the states. Groups and users have a budget for the server with and one for the server without
  the branch that hides them; 1.2 million states in all.

Fairness: `Session` has the effects of the guard, the lookup and the browser's redirection
(weak: they are promises and page loads that end). Nothing is assumed of the user, the renewal or
the server's verdict. `Onboarding` has the interval and the answers of each status request
(weak: fetch ends with an answer or an error; the tab is visible). `InstancePages` and `Desk`
have the polls (weak) and, for entries that are polled, that the server reads and
answers (strong): a poll every two seconds replaces a request in flight, so a server
that always takes longer is never heard. Retried failures are bounded. `Editor` has answers
(weak), which makes the counterexample of its refuted run one of requests that are
answered; its properties are safety properties.

## 5. The proofs

TLAPS checks about 13000 obligations in eight modules, without an unproved step: 43 theorems.
33 of the 40 properties that the runs check are stated by one, every invariant among them. The
assumptions are
those of the modules, which TLC evaluates on every run (`BlockAssumption` too, which no proof uses: it
shows that the conditions of the theorems on block graphs can be met):

| Assumption | Says | Why |
|---|---|---|
| `OrderingAssumption`, `SchedulerAssumption`, `InstanceAssumption`, `MaxDepthAssumption` | limits are numbers, processes are distinct from each other and from "nobody", a split has finitely many branches | configuration of the server and of the store |
| `GraphAssumption` | the graph starts at a START, and only an END has no edge | `validateGraph` accepts no other |
| `TokensAreDistinct`, `NoneIsNothing`, `NoneIsNoAnswer`, `StartsAreNoPages` | the value for "there is none" is not a token, a registry row, an answer; a started instance is not one of the pages | `null` and `undefined` are none of these; ids are no addresses |
| `PagingParameters` | pages are not empty, "no filter" is a filter, a row is not `None` | the constants of the two pages |
| `DeskAssumption` | budgets name pages of the table and statuses of rows; a row is not `None` | the table is the code's; `undefined` is no row |

**OrderingProofs.** `TypeCorrect`, `AppliesInSequence`, `ReportsAreFinal` and
`Refinement`, for any number of consumers, correlations and completions, any hash
function, any losses. `AppliedPrefix` alone is not inductive: a commit must find the
claimed row next to the cursor, and nothing in the property says that it is still
PENDING or that the cursor stood still since the guard. `IInv` adds `ClaimsHold` (a
claimed row is PENDING, claimed once, and not in the sweeper's hands),
`OneInsideCorrelation` (two consumers past the execute guard have different keys),
`OrderHolds` (what passed the order guard is still next: the
cursor moves only under the execute guard) and `SweepHolds` (the sweeper
holds PENDING rows). `ReportsAreFinal` needs what becomes of a list that is older than the
transaction (`ListHolds`): what it names existed when it was read, so it is settled, or still PENDING and
then locked or to be locked by the sweep; at the commit nothing PENDING is left of it. For
the refinement a commit is `Apply`, a sweep's commit
`Bury`, an insert `Arrive`, and every other step stutters.

**InstanceProofs.** `TypeCorrect`, `NoTokenAhead`, `CompletedIsDone`,
`CancelClosesTasks` and `ClosedForGood`, for any number of requests, branches and tasks. The
copy is what makes them hard: a commit writes tokens read before the lock. The
invariant says of every copy what it says of the rows, and that it may only be
behind them: `CopiesTrailTasks` (every task behind a copied token is
COMPLETED), `CopiesNameTasks`, `TasksInOrder` (a branch's tasks are created one
after the other) and `LockCovers` (a request in its transaction holds the
lock and, for a completion, the instance is ACTIVE). Tasks never stop being
COMPLETED while the instance is ACTIVE, which keeps old copies true. `LogCountsRows` and
`OnlyStaleCopiesLose` are invariants on top of it. The first needs counting: appending an event
adds one occurrence of it and of nothing else (`AppendOccurrences`), and a commit
completes exactly one task, because the task it was asked for is still PENDING under the
lock. The second says that tokens and open tasks agree until a commit has overwritten a
newer projection: the lost update (section 6, item 4) has that cause and no other.

The kernel, in the same module: `NeverStranded`, for every definition graph: an ACTIVE
instance holds a token. The invariant `KernelInv` carries the same fact of the copy, `run`, and
that a call is under way while nodes are being entered. It rests on `validateGraph`: a node
that is not an END has an edge, so an advance replaces the token and a split makes
at least one. `EveryTaskHasItsToken` and `TokenIdsAreKeys`, for every graph too: a task row is on
a node where a token stands, and ids are distinct. The code writes rows from the nodes it
visits and tokens from the array, and the two could drift apart. `TaskInv` says why they do not:
within a call (`CopyOk`) every task node still to be entered has a token, and a token on a task
does not move until the call is over. For a split that takes the order of the array: with
distinct ids each place holds one token (`PlacesTaken`, by counting ranks), so what is entered is
the node of a token that is there (`ArrayHoldsNodes`), and no token is left out (`NoTokenLeftOut`).

The other properties of the kernel are not true of every graph that `GraphAssumption` admits.
What is proved of them, for every graph, is under which condition on the calls they hold: the
condition is a state formula that names the cause, and each theorem has the form
`KernelSpec /\ []Condition => []Property`. All conditions hold in every state of `transition_graphs`,
loops and the task before two splits included.

| Theorem | Property | Condition | Without it |
|---|---|---|---|
| `RowsMatchTokens` | `TasksMatchTokens` | `NotEnteredAgain`: no call enters the task it completes; `AloneOnTask`: no two tokens wait on one task | the first: `transition_rework`; the second: a branch that meets another at a task, where completing one token's task closes the row of both |
| `CompletedLeavesNothing` | `CompletedIsClean` | `GatewaysHeld`: a parallel gateway that a call enters holds a token | a split whose second edge leads to a join that its first, a split too, completes: the join fires, is entered again without a token, counts 0 of 2, and the instance completes |
| `OneBranchOneToken` | `OneTokenPerBranch` | `GatewaysHeld`, and `SplitsAnew`: a split is entered when no token is out on its branches | a split directly followed by two splits: the second is entered twice |
| `WaitsHaveAsked` | `NoneForgotten`, the lower half of `SingleIntent`: a token on a node that `Requests` has asked, any other, on a `sync_inline` service too, has not | `AloneOnActivity`: within a call no two tokens wait on one activity | two branches that meet at a timer: the first token asks twice, the second never |

`RowInv` follows a task from the visit to the row: a token on a task has a row, or is in
`pending`, or its node is still to be entered (`RowsOwed`). `CleanInv` says that a join that has
counted holds a token (`CountsParked`), so a counter cannot outlive the last one. `BranchInv`
needs that `mergedBranch` returns a branch of one of the tokens it merges (`MergedIsOne`), whichever
rule picks it. `AskedInv` is `RowsOwed` for intents, and remembers that who waits for a child has
asked for it, because then a second entry of the SUB_PROCESS asks for nothing.

For graphs that satisfy the predicates of `Blocks`, the conditions are proved too. These theorems
speak of every graph and every run of `KernelSpec`, and assume only certificates:

| Theorem | Property | Graph |
|---|---|---|
| `EntriesFindTokens` | `NoEntryBare`: a node that is entered, other than an END, holds a token (no InvalidState) | `Divides(Homes)`, `Settles(S)` |
| `BlocksKeepBranches` | `OneTokenPerBranch` | the same |
| `BlocksEndClean` | `CompletedIsClean` | the same |
| `JoinsNeverWaitForEachOther` | `ArrivedTokensLeave` | the same |
| `BlocksMatchRows` | `TasksMatchTokens` | and `~ ComesBack(After)` |
| `BlocksAskOnce` | `AskedExactlyOnce`, and with it `SingleIntent` | and `AsksOnce(Homes)` |

*Homes* replace the picture of nested blocks by sets. `Homes[n]` are sets that a token on n may
own; a split divides the home of its token among the targets, a join has one home per edge,
apart from each other, and unites them. `HouseInv` says that the tokens own homes of their
nodes which do not meet (`Dwelt`), hence no two are on one node unless it is a join or an END
(`AloneAtHome`), and that a token alive on a branch of a split keeps the split from being entered. It
also says, while the instance is ACTIVE, that within the edges of a join there is a token within
each or within none (`Balanced`); a join therefore never waits for an edge that nothing
can come along. That part is what `Portions` and `Encloses` are for: a split within an edge stays within it, or
fills all edges, and nothing starts or ends between a split and its join. And it keeps the counters (`CountsOk`): a
join has counted no more tokens than it holds, so that it fires when, and only when, it is
`Full` (`OnlyFullFire`), with a token in each home (`FullHouse`).

`SettleInv` follows the agenda, which the homes say nothing about. A split enters the node of *every*
token, those that rest in other branches included, and joins among them; an entry must
still find its token when its turn comes. `Settling`: all tokens rest or will be entered
(`AtRest`), the one join that may be full is entered next (`HeadFull`), no node but a join or an END is left
twice (`EnteredOnce`), a join to be entered later comes after nodes that rest only (`JoinsFirst`), and while
several nodes are left no split is among them (`Settled`). `JoinsFirst` is true because the array
keeps the order of the ids: what was there before a split is entered before its branches
(`PlacesFollowIds`). The two invariants need each other and the earlier ones, and are inductive together
(`Sound`, `SoundInductive`): `SettleInv` gives that gateways hold tokens, with which `HouseInv` is
kept, and the next state's homes keep `SettleInv`.

Of joins that hold all tokens and are not full, take one whose homes cover least (`SmallestJoin`): it
lacks a token in one home, and as it has one in another, `Balanced` puts a token within the lacking
one. That token is on a join inside it, which covers less (`SomeJoinFires`). For
`BlocksMatchRows`, `Away` says that what is still to be entered lies in `After` of the task completed
or rests; for `BlocksAskOnce`, `OnceInv` says that a token on a node that asks has asked once, or not at
all while its node is still to be entered, and that no other token has asked. TLC has checked `HouseInv`, `SettleInv`, `Away` and
`OnceInv` on the graph of `BlockAssumption`.

Each predicate excludes graphs on which the property fails. A join that one choice of a branch
bypasses does not divide: the other branches' tokens then wait for good (`ArrivedTokensLeave`). A split
whose edge leads to a split does not settle: the second is entered twice. The graph of
`transition_rework` comes back. A timer or a service beside a split asks again (section 6, item 3):
there `AskedExactlyOnce` fails, and `SingleIntent` says so. The predicates are
sufficient, not necessary: `transition_graphs` checks the properties on graphs outside them too.

**SchedulerProofs.** `TypeCorrect`, `FiresOnce`, `NoneOutlives`, `SeriesUnbroken`,
`GivenUpLast` and `SettlesOnce`, for any number of nodes, requests, series,
repetitions and faults. Two locks carry the argument. `NodesHold` and `HeldToFire`: a
timer that a node has claimed is locked by it and nobody else, hence still pending
when it fires. `AppendedLocks` and `RequestLocks`: a pending row is written only by who
holds the projection, so that what a request has found is still all there is when
it closes the instance, and a node with an event appended has an ACTIVE one.
`CountRead` remembers that a node about to dead-letter a timer has read a count that was
high enough. `SeriesContinues` is needed for `FiredOnce`: the row a fire arms again must be new.

**SessionProofs.** `NobodySilentlyAnonymous` and `CallbackSignsIn`, for any set of
tokens. A session is set one step after its token: between the two, a 401 for an older
request would leave a session without one. The invariant `ExchangeHeld` says why it
cannot: until the callback page has set the session, it has asked for one manager,
sent no request and renewed nothing, so what the exchange brought is still there.
Elsewhere each loss of a token also asks for a redirection.

The paged lists, in the same module: `NothingSkipped`, for any number of rows, page size and filters. Cached
pages of different ages agree on nothing, so the invariant is about single pages:
each is whole (`PagesAreWhole`: what it leaves out is below the cursor it hands
out), and the cursors of the stack descend (`Descending`). Then a row owed to the walk has been
seen or is below the cursor shown (`RestAhead`), and on the last page nothing is
below.

**InstancePagesProofs.** `OptimismEnds`, for any number of cancellations, starts and visits.
`onMutate` writes CANCELLED before the server has been asked, and cancellations overlap
polls, rollbacks and each other. `OptimismIsMarked` makes the property inductive:
while none is pending, a CANCELLED that the server does not say is marked invalid, hence
asked for again; `ReadsAreTrue`: what is read as CANCELLED is so.
`TimelineInOrder`, for any number of pages: the feed holds the pages up to the last one
applied, in their order and once each, and all of one instance, the one on the screen, unless the page
was kept from another instance's with its timeline begun (`carried`). An answer is applied when the page at the cursor has data,
so the invariant has to say that a page wanted and not applied has none yet (`NotYetThere`).

The address of the board, in the same module: `AddressesFit`. The version the page holds is that of the
definition in the address whenever it holds one (`VersionOfAddress`), because a change of the
definition drops it; a late answer therefore cannot put a version beside another
definition.

**OnboardingProofs.** `CompletedTenants` and `TimersStop`, for any keys, forms, slugs, hosts,
failures and overlaps. Compensation deletes by name, and names are shared: the danger
is a saga that takes back what another has made. `Owner` and `Nested` exclude it: who
has a realm to take back has the tenant, and is the one registered for its slug; a tenant is
taken back last. `Done` and `Whole` say what lies behind a saga at each step. The pages
belong to the invariant since GET writes the registry: what they ask about must be
known to the server (`PostsInv`, `GetsInv`, `AddressInv`). For `TimersStop` it is
`TimerInv`: an interval that runs is the one the ref holds.

**EditorProofs.** `DepthHolds`, `CanvasIsOneLine` and `RefusedDrawingStays`, for any nodes, depth,
definitions, saves and budget. `CanvasIsOneLine` is the refinement of `UndoLine`: a change without a
snapshot is `Amend`, one with a snapshot `Fork`, which also drops what no longer fits; deleting a
node with its edges pushes two snapshots and is one `Fork(2)`; undo and redo are `Back` and `Forth`,
loading and saving `Forget`; whatever else the page does leaves the line alone. Only a step
that mounts the canvas is excepted, since it may replay a trigger (section 6, item 8). The
invariant is `EditorInv`: the stacks are well formed and within the depth, the panel, the dialog
and late layouts hold things a drawing may have, and while the canvas is mounted no conflict is
shown. The last part is what `RefusedDrawingStays` rests on: a conflict takes the canvas
away, and with it every handler that could draw.

**DeskProofs.** `OwnWorkIsShown` and `ClaimsAreHeld`, for all eleven pages, any number of requests
that overlap and any budget. `OwnWorkShown` says nothing of an entry that is being asked for
again, and a read that began before the operation could end after it. `CaughtUp` in `DeskInv`
therefore says of each answered operation that an entry due to show it (`Due`: it does show it, is
not forgotten, and had data when the operation was sent) is as new, or
marked, or asked for again, *and that what has been read for it is as new*. Three facts keep
it. `EntrySteps`: no operation on the query cache makes an entry older with respect to
anything the row has reached. `MarkedAnew`: marking an entry that is on the screen and has data
replaces a request in flight; that it has data is `SendsSeen`: what had data when the request was
sent still has, because no entry loses it. `TableFits`, page by page: each mutation
marks every entry in which its outcome is seen, but for the four that the code forgets. For the
dead-letter page `Claims` adds that no other page has an overlay.

The theorems on `Paging`, `BoardFilters` and `Transition` are about these modules by themselves.

*Only model-checked:* liveness and whatever mentions ENABLED (`EveryRowSettles`,
`EveryInstanceEnds`, `EveryTimerSettles`, `GuardRedirects`, `StatusCatchesUp`, `OutcomeShown`,
`InboxCatchesUp`); and, on graphs that are not blocks, `ArrivedTokensLeave` and the upper half of
`SingleIntent` (once only, unless beside a split).

## 6. Where code and documentation disagree

`transition_rework`. `completeTask` creates task rows for the nodes that are pending after
the call and were not before it. When a choice leads straight back to the task just
completed, its node is in both sets: no row is created, and the instance waits for a task
nobody can see. EE-03 wants a task for each token that enters a HUMAN_TASK, and PD-02 permits
the cycle; the loop in `iss601_state_snapshots_test.zig` has two tasks, where it does not
happen. (`instance.zig:2213`, `src/docs/requirements/EE-03.md:14`)

`web_unsaved`. `handleSave` clears the dirty flag when its answer arrives, whatever was
drawn in between. Those edits leave the page without a question; PD-UI-14 wants unsaved
changes announced. (`DefinitionEditorPage.tsx:303`, `src/docs/requirements/PD-UI-14.md:12`)

The rest was seen while modelling and has no run. First the server:

1. Sweeper: the stalled correlations are selected before the transaction that buries
   them. A predecessor that arrives in between is buried too, though `sweeper.zig:53-55`
   says the next expected completion must not be. An error on a later correlation frees the
   list of those already committed DEAD: they never reach the dead-letter queue (ORD-03).
2. A correlation whose first completion is lost is never swept: its cursor row is rolled
   back with each deferral and the sweeper's query joins on it. `claimNextPending` always
   takes the head of the order: a deferred row of a low correlation delays the
   others until it is buried.
3. Kernel: a split enters every token's node again, so that a timer that waits in another
   branch is created a second time (SCH-01), and a service asked a second time: the graph behind P5 in
   `transition_graphs` has that state. A split directly followed by two splits, a branch that
   bypasses a join, and a gateway with several edges in and out leave joins waiting or
   branches doubled; two branches that meet at a timer share one token's intent; a join entered again
   after it fired leaves its count in a COMPLETED instance. `validateGraph` permits these graphs. A cycle of gateways alone recurses without end.
4. `completeTask` reads the projection before it locks it, and writes all of it. Two
   completions of different tasks: the second undoes the first (EE-12,
   `design/engine.md`). `instance_requests` shows what does hold: no task is completed
   twice, no token gets ahead, and a loss takes a stale copy. The call of
   `persistEmittedEventsInTx`, which EE-06 relies on, is missing; the payload of
   `task_completed` is `{}`, so a replay (EE-11) has nothing to go by.
5. Scheduler: between the count of the last error and the dead-letter entry another node
   may fire the timer; the entry is written all the same. A firing node locks timer, then
   projection; a cancel projection, then timers: `design/engine.md` 9b calls a deadlock
   impossible. PostgreSQL resolves it, and `EveryTimerSettles` includes both outcomes.
   An escalation timer that fails is not counted and stays first in the order.
6. Onboarding: a crash, a result that cannot be recorded or a thread that cannot be spawned
   leaves the row pending for ever, and its key with it. Compensation deletes a realm the
   saga found instead of created (OIDC-18); a realm whose roles fail is not taken back; a
   compensation that fails is swallowed and blocks the slug. A row that is failed since its realm is
   missing keeps the code 201 (`routes/onboarding.zig:119-121`, `366-374`), so the same key sent
   again is answered as a success and the page moves on to it.
7. Promotion: `rollback.zig:286-293` compares a definition's uuid with the process key
   reviews store, so it supersedes none.

The client:

8. Designer: mounting the canvas again replays triggers of the toolbar (`OneLine` says
   nothing of a step that mounts it). A condition edited takes no snapshot, a cancelled connection
   leaves one of nothing. Deleting by key and double click ignore `isReadOnly`. PATCH sends
   no version, and an edit of another user saved meanwhile is overwritten. "Refetch
   latest" never clears the conflict; a merge is not validated; a discarded draft is made
   again. The draft store ignores the definition's id and lives in memory. A
   duplicate of a new definition leaves its conflict for ever. PD-UI-14 speaks of PUT.
9. Session: a 401 for an old token takes the new one away. A renewal during the sign-out
   puts the token back while there is no session. A fall-back of the tenant's
   configuration stays until the page is reloaded. Signing out and the guard's redirection
   race (`AuthProvider.tsx:124-128`, `ProtectedRoute.tsx:11-20`, SH-04). The configuration
   is asked for several times at once (`docs/requirements.yaml:6400`: once per session). The
   query cache is not cleared on sign-out.
10. Instances: polling every 2 s replaces a slower request, which is never heard. Start can be
   pressed again during the second refresh. The answer navigates to the new instance
   even if the dialog was closed. The start dialog takes the definition of the
   address, whatever its own name field reads, and keeps the filter bar's cursor.
   The page of an instance is not mounted again when only the id in the address changes
   (`router.tsx:56`): the timeline keeps the other instance's pages, `lastAppliedCursor` keeps the new
   instance's page of that cursor from being shown, "Load more" mixes the two, and a cancellation dialog
   left open is now about the new instance. A start answered late does that by itself.
   `usePolling` counts a failed refresh as one.
11. Onboarding pages: one key for all submissions of a mount (`docs/requirements.yaml:6480`
   and `design/onboarding_gui.md:126` want a new one). Late answers navigate after the page
   was left. "Three consecutive errors" counts late ticks.
12. Rows: a first load in flight is joined, so an answer read before an operation may be the
   one that stays; an answer closes the dialog that is open by then, also another's. The
   timer of the tenant's form leaves the page after one has left it. The form's
   difference overwrites another user's change. The overlay of a retried dead letter stays.
   Queries are forgotten: the user's own on deactivation (`UsersPage.tsx:212-213`), a group's
   members on its deletion, a definition's versions and the search on activation and archiving
   (`useDefinitions.ts:46-66`; the page shows them, `DefinitionListPage.tsx:55-65`).
   Deactivating a user sends `is_active`, which `handlePatchUser` (`identity.zig:149-220`) does not
   read: it answers with success and nothing has changed. Creating a user goes to a made-up id
   `temp-<time>` if it fails, and in either case, like an import, leaves the page one is on by then.
   The claim button posts to `/tasks/:id/assign` with an empty body, which the server always refuses
   for want of a user (`tasks.zig:651-654`; `/claim` is at 536).
   `main.zig:1097` answers 404 to all of `/api/v1/admin` but `module-shares`, before the handlers of
   groups, services and new users at 1257; the list of modules has no handler, and that of a module's
   shares answers 405. Retrying a dead letter of a cancelled instance discards it and is refused
   (`dlq/store.zig:410-415`). The secret of a token is lost
   when two are issued (ADM-UI-07). Revoking a share sends DELETE twice.
   `UsersPage` says "Saved" before the answer, and a refetch overwrites what is being typed.
   The dead-letter filters use an old cursor until Apply is pressed; status and search
   of that page are ignored by the server.
13. Promotions, which no route shows: the body carries `approved_by`, which the server
   refuses with 422; it expects nested fields where the server sends flat ones.

## 7. Not modelled

Listed by component in `PROJECT.json`. On the server: parts with state that wait for
their module (section 8); pure computation (expressions, graph validation, query
compiler, canonical forms); input and output (routes, adapters, formatting,
metrics); runtimes for scripts (Lua, WebAssembly), which run inside one step of the
kernel. On the client: the fields of forms and their checks, the history scrubber, which
only reads and never leaves the last event, health and metrics, which are drawn as
polled, promotions, which are not routed, the second set of user pages, and layout.

Of the components that are modelled, `Instance` leaves out the start and propagation of
sub-processes and the snapshot at the end; `Scheduler` escalation timers, the startup
sweep's advisory lock and the parsing of repeat expressions; `Onboarding` exhausted
memory and validation of the input; `Canvas` positions, labels and the other kinds of nodes;
`Session` the restoring of a stored session for browser tests; `Desk` the fields of the
forms, the one-time secret and paging by offset, whose pages of different ages may
indeed skip a row.

## 8. Plan

Done are the core of the server, the client's pages and onboarding on both sides. What is left,
in the order of what most can go wrong:

1. `Effects`: workers, attempts, the dead-letter path and `reenterEffectResult`,
   with an abstract specification (an effect's result re-enters at most once, and in
   the end once), composed with `Ordering`.
2. `SubProcess`: a child created inside its parent's uncommitted transaction, and
   propagation after its own commit; invariant: a WAITING link names a child that will
   still tell its parent.
3. `Scheduler`: escalation timers against claim, completion and reassignment of
   the task, with the proofs extended to them.
4. `OutboxGate`: depth cache, gate and low-water mark, the refusal ring.
5. `Definition`: versions, review, promotion and rollback with their digests;
   `SandboxPool`: claim, release and reaper against the quota.
6. `MigrationFanout`: control rows committed with the DDL, resume, retry.
7. `EventStore`: append with an expected version, snapshots, and replay compared
   with `Transition`.
8. Proofs: the fencing of re-entry once `Effects` is there; certificates computed from a
   graph, so that `validateGraph` could warn of a definition that has none.

To check a module: `tlc -config <Run>.cfg <MCModule>`, to prove one:
`tlapm <Module>Proofs.tla`.
