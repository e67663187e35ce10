-------------------------------- MODULE Desk --------------------------------
(***************************************************************************)
(* The pages an operator works from: each shows rows, offers operations on *)
(* them, asks the server and then marks what its queries hold as stale.    *)
(* One row is followed, on one page, which may be left and opened again.   *)
(* What the pages differ in is a table: the control an operation is        *)
(* started from, and the mutation that carries it out.                     *)
(***************************************************************************)
EXTENDS QueryCache, FiniteSets

CONSTANTS
    Slots,    \* a page sends at most this many requests of its own
    Budgets   \* how much may happen: [page, starts, panel, ages,
              \* sends, others, faults, visits], and routed (see Behind)

VARIABLES
    budget,         \* the member of Budgets that bounds this behaviour
    shown,          \* the page is on the screen
    panel,          \* and with it the detail of the row
    another,        \* the users' page shows some other user, not the list
    dialog,         \* the operation whose dialog is open, or "none"
    overlay,        \* what the dead-letter page shows instead of the row's status
    leaving,        \* a timer will leave the page for the list of tenants
    row,            \* the server's row: [status, at], at counting its changes
    list, detail,   \* the query cache
    sends,          \* [Slot -> [pc, op, at, own, seen, had]], in the order they were sent
    visits, faults  \* pages opened and requests failed so far

vars == <<budget, shown, panel, another, dialog, overlay, leaving, row, list, detail, sends, visits, faults>>

-----------------------------------------------------------------------------
(* Controls.  An operation is offered on the page, on the row of the list, *)
(* on the open panel or on what the panel has loaded, for a row in one of  *)
(* the statuses "from".  Its dialog closes as the request is sent or when  *)
(* it is served; a pending mutation disables what "blocks" names.  A group *)
(* or a shared module is "active" while empty and "full" with a member.    *)
Control(on, from, dialogCloses, blocks) ==
    [on |-> on, from |-> from, closes |-> dialogCloses, blocks |-> blocks]

Open == {"pending", "retrying"}
Present == {"active", "paused", "full"}

RetryButton        == Control("list", Open, "no dialog", {"send"})
DiscardDialog      == Control("list", Open, "at once", {"ask"})
ClaimButton        == Control("detail", {"queued", "taken"}, "no dialog", {"send"})
CompleteButton     == Control("detail", {"mine"}, "no dialog", {"send"})
DeactivateDialog   == Control("list", {"active"}, "when served", {"ask", "send"})
ReactivateDialog   == Control("list", {"paused"}, "when served", {"ask", "send"})
SaveTenantForm     == Control("list", Present, "no dialog", {"send"})
NewGroupForm       == Control("page", {}, "when served", {})
AddMemberButton    == Control("panel", {}, "no dialog", {"send"})
RemoveMemberButton == Control("detail", {"full"}, "no dialog", {})
DeleteGroupDialog  == Control("list", {"active"}, "at once", {})
IssueTokenForm     == Control("page", {}, "when served", {})
RevokeTokenDialog  == Control("list", {"active"}, "at once", {})
RegisterForm       == Control("page", {}, "when served", {"send"})
ScopeDialog        == Control("list", Present, "when served", {"send"})
RemoveDialog       == Control("list", Present, "when served", {"send"})
SubscribeForm      == Control("page", {}, "when served", {})
PauseButton        == Control("list", {"active"}, "no dialog", {})
ResumeButton       == Control("list", {"paused"}, "no dialog", {})
UnsubscribeButton  == Control("list", Present, "no dialog", {})
NewUserForm        == Control("page", {}, "when served", {"send"})
SaveUserButton     == Control("panel", {}, "no dialog", {})
DismissUserDialog  == Control("panel", {}, "at once", {})
NewDefinitionForm  == Control("page", {}, "when served", {"send"})
ImportInput        == Control("page", {}, "no dialog", {})
ActivateButton     == Control("list", {"draft"}, "no dialog", {})
ArchiveButton      == Control("list", {"active", "deprecated"}, "no dialog", {})
PublishButton      == Control("list", {"draft"}, "no dialog", {"send"})
GrantDialog        == Control("panel", {}, "when served", {"send"})
RevokeShareDialog  == Control("detail", {"full"}, "when served", {"send"})

-----------------------------------------------------------------------------
(* Mutations: the status they bring about ("" for none of interest), the   *)
(* entries their success marks, always or while the panel is open, and     *)
(* what it does to the page.                                               *)
Mutation(name, to, marks) ==
    [name |-> name, to |-> to, marks |-> marks, open |-> {}, after |-> "stay"]
WhileOpen(mutation, entries) == [mutation EXCEPT !.open = entries]
Then(mutation, after) == [mutation EXCEPT !.after = after]

Both == {"list", "detail"}

(* The server takes the entry out of the queue on both.                    *)
Retry        == Mutation("retry", "gone", {"list"})
Discard      == Mutation("discard", "gone", {"list"})
Complete     == Mutation("complete", "completed", Both)
Claim        == Mutation("claim", "mine", Both)
Deactivate   == Mutation("lifecycle", "paused", {"list"})
Reactivate   == Mutation("lifecycle", "active", {"list"})
SaveTenant   == Then(Mutation("patch", "", {"list"}), "leave later")
CreateGroup  == Mutation("create", "", {"list"})
(* The groups page marks its queries only while the group is open.         *)
AddMember    == WhileOpen(Mutation("add", "full", {}), Both)
RemoveMember == WhileOpen(Mutation("remove", "active", {}), Both)
DeleteGroup  == Mutation("delete", "gone", {"list"})
IssueToken   == Mutation("create", "", {"list"})
RevokeToken  == Mutation("revoke", "gone", {"list"})
Register     == Mutation("create", "", {"list"})
UpdateScope  == Mutation("scope", "", {"list"})
RemoveService == Mutation("delete", "gone", {"list"})
Subscribe    == Mutation("create", "", {"list"})
Pause        == Mutation("update", "paused", {"list"})
Resume       == Mutation("update", "active", {"list"})
Unsubscribe  == Mutation("delete", "gone", {"list"})
CreateUser   == Then(Mutation("create", "", {"list"}), "another")
SaveUserOfList == Mutation("save", "", {"list"})
SaveUser     == WhileOpen(Mutation("save", "", {"list"}), {"detail"})
(* handlePatchUser reads "status"; the "is_active" it is sent is ignored.  *)
DismissUser  == Mutation("dismiss", "", {"list"})
CreateDefinition == Then(Mutation("create", "", Both), "leave")
Import       == Then(Mutation("import", "", Both), "leave anyhow")
(* The history of a row and what a search has found are marked by neither. *)
Activate     == Mutation("activate", "active", {"list"})
Archive      == Mutation("archive", "archived", {"list"})
Publish      == Then(Mutation("publish", "active", Both), "open panel")
Grant        == Mutation("grant", "full", {"detail"})
RevokeShare  == Then(Mutation("revoke", "active", {"detail"}), "send again")
RevokeAgain  == Mutation("again", "active", {"detail"})

Row(control, mutation) == [control |-> control, mutation |-> mutation]

Page == [
    dlq         |-> [retry |-> Row(RetryButton, Retry), discard |-> Row(DiscardDialog, Discard)],
    inbox       |-> [claim |-> Row(ClaimButton, Claim), complete |-> Row(CompleteButton, Complete)],
    tenants     |-> [deactivate |-> Row(DeactivateDialog, Deactivate),
                     reactivate |-> Row(ReactivateDialog, Reactivate)],
    tenant      |-> [save |-> Row(SaveTenantForm, SaveTenant)],
    groups      |-> [create |-> Row(NewGroupForm, CreateGroup), add |-> Row(AddMemberButton, AddMember),
                     remove |-> Row(RemoveMemberButton, RemoveMember),
                     delete |-> Row(DeleteGroupDialog, DeleteGroup)],
    tokens      |-> [issue |-> Row(IssueTokenForm, IssueToken), revoke |-> Row(RevokeTokenDialog, RevokeToken)],
    services    |-> [register |-> Row(RegisterForm, Register), scope |-> Row(ScopeDialog, UpdateScope),
                     remove |-> Row(RemoveDialog, RemoveService)],
    webhooks    |-> [subscribe |-> Row(SubscribeForm, Subscribe), pause |-> Row(PauseButton, Pause),
                     resume |-> Row(ResumeButton, Resume), unsubscribe |-> Row(UnsubscribeButton, Unsubscribe)],
    users       |-> [create |-> Row(NewUserForm, CreateUser), save |-> Row(SaveUserButton, SaveUser),
                     dismiss |-> Row(DismissUserDialog, DismissUser)],
    definitions |-> [create |-> Row(NewDefinitionForm, CreateDefinition), import |-> Row(ImportInput, Import),
                     activate |-> Row(ActivateButton, Activate), archive |-> Row(ArchiveButton, Archive)],
    search      |-> [activate |-> Row(ActivateButton, Activate), archive |-> Row(ArchiveButton, Archive)],
    modules     |-> [publish |-> Row(PublishButton, Publish), grant |-> Row(GrantDialog, Grant),
                     revoke |-> Row(RevokeShareDialog, RevokeShare),
                     again |-> Row(RevokeShareDialog, RevokeAgain)]]

-----------------------------------------------------------------------------
Status == {"pending", "retrying", "discarded", "queued", "taken", "mine", "completed",
           "draft", "active", "deprecated", "archived", "paused", "full", "gone"}

RowType == [status : Status, at : Nat]

(* Budgets are for pages of the table, and a row is not the lack of one.   *)
ASSUME DeskAssumption ==
    /\ \A b \in Budgets : b.page \in DOMAIN Page /\ b.starts \subseteq Status
    /\ None \notin RowType

Slot == 1..Slots
Unsent == [pc |-> "idle", op |-> "none", at |-> 0, own |-> FALSE, seen |-> FALSE, had |-> {}]
Ops == DOMAIN Page[budget.page]
Of(o) == Page[budget.page][o]

Init ==
    /\ budget \in Budgets
    /\ shown = FALSE /\ panel = FALSE /\ another = FALSE /\ dialog = "none" /\ overlay = "none" /\ leaving = FALSE
    /\ \E s \in budget.starts : row = [status |-> s, at |-> 0]
    /\ list = Blank /\ detail = Blank
    /\ sends = [s \in Slot |-> Unsent] /\ visits = 0 /\ faults = 0

(* A query that was never asked has no entry to mark.                      *)
Marked(e, observed) == IF e = Blank THEN e ELSE Invalidated(e, observed)

-----------------------------------------------------------------------------
(* Opening and leaving the page, its panel and its dialogs.                *)

Appear(aged) ==
    /\ ~shown /\ visits < budget.visits /\ visits' = visits + 1 /\ (aged => budget.ages)
    /\ shown' = TRUE /\ list' = Observed(list, aged)
    /\ UNCHANGED <<budget, panel, another, dialog, overlay, leaving, row, detail, sends, faults>>

(* What the components of the page keep goes with them; the mutations and  *)
(* their callbacks do not.                                                 *)
Left ==
    /\ shown' = FALSE /\ panel' = FALSE /\ another' = FALSE /\ dialog' = "none" /\ overlay' = "none"
    /\ sends' = [s \in Slot |-> [sends[s] EXCEPT !.own = FALSE]]

Leave ==
    /\ shown /\ Left
    /\ UNCHANGED <<budget, leaving, row, list, detail, visits, faults>>

(* EditTenantPage's timer is not cleared: it leaves whatever page is shown.*)
LeaveLater ==
    /\ leaving /\ leaving' = FALSE /\ Left
    /\ UNCHANGED <<budget, row, list, detail, visits, faults>>

Pending(s) == sends[s].pc \in {"sent", "served", "refused"}

(* A mutation follows the last rendering of its page until another of its  *)
(* kind replaces it: "seen" is the panel as its callback will find it.     *)
Last(s) == \A t \in Slot : t > s /\ sends[t].pc # "idle"
              => Of(sends[t].op).mutation.name # Of(sends[s].op).mutation.name
Following(f, open) ==
    [s \in Slot |-> IF sends[s].own /\ Pending(s) /\ Last(s) THEN [f[s] EXCEPT !.seen = open] ELSE f[s]]
Rendered(open) == Following(sends, open)

Listed == shown /\ Surface(list) = "success" /\ list.data # None

(* A user is named by the address; a search is typed beside the list.      *)
OpenPanel(aged) ==
    /\ ~panel /\ budget.panel /\ (aged => budget.ages)
    /\ IF budget.page \in {"users", "search"} THEN shown ELSE Listed
    /\ panel' = TRUE /\ detail' = Observed(detail, aged) /\ sends' = Rendered(TRUE)
    /\ another' = FALSE
    /\ UNCHANGED <<budget, shown, dialog, overlay, leaving, row, list, visits, faults>>

ClosePanel ==
    /\ panel /\ panel' = FALSE /\ sends' = Rendered(FALSE)
    /\ UNCHANGED <<budget, shown, another, dialog, overlay, leaving, row, list, detail, visits, faults>>

Back ==
    /\ another /\ another' = FALSE
    /\ UNCHANGED <<budget, shown, panel, dialog, overlay, leaving, row, list, detail, sends, visits, faults>>

(* While the user searches, what was found takes the place of the list.    *)
Rows == IF budget.page = "search" /\ panel THEN detail ELSE list

(* normalizeStatus: what the page was told last outweighs what it loaded.  *)
Displayed == IF overlay # "none" THEN overlay ELSE Rows.data.status

(* The users' page shows the list with its form, or one user.              *)
OnScreen(o) ==
    budget.page = "users" => IF Of(o).control.on = "page" THEN ~panel /\ ~another ELSE panel

Offered(o) ==
    CASE Of(o).control.on = "page"   -> shown /\ OnScreen(o)
      [] Of(o).control.on = "list"   -> /\ Listed /\ Rows.data # None /\ Rows.data.status # "gone"
                                        /\ Displayed \in Of(o).control.from
      [] Of(o).control.on = "panel"  -> panel
      [] Of(o).control.on = "detail" -> panel /\ detail.data # None /\ detail.data.status \in Of(o).control.from

Blocked(o, what) ==
    /\ what \in Of(o).control.blocks
    /\ \E s \in Slot : Pending(s) /\ sends[s].own /\ Of(sends[s].op).mutation.name = Of(o).mutation.name

Ask(o) ==
    /\ dialog = "none" /\ Of(o).control.closes # "no dialog" /\ o # "again"
    /\ Offered(o) /\ ~Blocked(o, "ask") /\ dialog' = o
    /\ UNCHANGED <<budget, shown, panel, another, overlay, leaving, row, list, detail, sends, visits, faults>>

Dismiss ==
    /\ dialog # "none" /\ dialog' = "none"
    /\ UNCHANGED <<budget, shown, panel, another, overlay, leaving, row, list, detail, sends, visits, faults>>

-----------------------------------------------------------------------------
(* A request, from its control to its answer.                              *)

(* The entries that have data.                                             *)
Entry(k) == IF k = "list" THEN list ELSE detail
Held == {k \in Both : Entry(k).data # None}

Request(o) == [pc |-> "sent", op |-> o, at |-> 0, own |-> TRUE, seen |-> panel, had |-> Held]
Sent(o, s) == [sends EXCEPT ![s] = Request(o)]
FreeSlot(s) == sends[s].pc = "idle" /\ s <= budget.sends /\ \A t \in Slot : t < s => sends[t].pc # "idle"

(* What the dead-letter page shows of a row while it is retried, discarded.*)
Claimed == [retry |-> "retrying", discard |-> "discarded"]

(* The buttons of a dialog stay what they were when it was opened; without *)
(* one the request is sent from the control itself.                        *)
Go(o, s) ==
    /\ FreeSlot(s) /\ ~Blocked(o, "send") /\ o # "again"
    /\ IF Of(o).control.closes = "no dialog" THEN Offered(o) ELSE dialog = o /\ OnScreen(o)
    /\ sends' = Sent(o, s)
    /\ dialog' = IF Of(o).control.closes = "at once" THEN "none" ELSE dialog
    /\ overlay' = IF budget.page = "dlq" THEN Claimed[o] ELSE overlay
    /\ UNCHANGED <<budget, shown, panel, another, leaving, row, list, detail, visits, faults>>

(* main.zig answers 404 to all of /api/v1/admin but module-shares, before  *)
(* it comes to the handlers of groups, services and users: what is routed  *)
(* is the server without that branch, what is not is the server there is.  *)
Hidden == {"groups", "services", "modules"}
Behind(o) == budget.page \in Hidden \/ (budget.page = "users" /\ o = "create")
Readable == budget.routed \/ budget.page \notin Hidden

(* The server carries out what the row still allows.  A claim is sent to   *)
(* handleAssign, which misses the name of a user in it.                    *)
Allowed(o) == /\ o # "claim" /\ (Behind(o) => budget.routed)
              /\ Of(o).control.from = {} \/ row.status \in Of(o).control.from
Changed(o) == [status |-> IF Of(o).mutation.to = "" THEN row.status ELSE Of(o).mutation.to, at |-> row.at + 1]

(* A retry for an instance that was cancelled discards the entry and is    *)
(* refused.                                                                *)
Serve(s) ==
    /\ sends[s].pc = "sent"
    /\ \/ /\ Allowed(sends[s].op) /\ row' = Changed(sends[s].op)
          /\ sends' = [sends EXCEPT ![s].pc = "served", ![s].at = row.at + 1]
       \/ /\ row' = row \/ (sends[s].op = "retry" /\ Allowed("retry") /\ row' = Changed("retry"))
          /\ sends' = [sends EXCEPT ![s].pc = "refused"]
    /\ UNCHANGED <<budget, shown, panel, another, dialog, overlay, leaving, list, detail, visits, faults>>

OthersChange(status) ==
    /\ row.at < budget.others /\ row' = [status |-> status, at |-> row.at + 1]
    /\ UNCHANGED <<budget, shown, panel, another, dialog, overlay, leaving, list, detail, sends, visits, faults>>

(* onSuccess marks what the operation has changed, also when its page is   *)
(* gone, and closes the dialog there is by then.                           *)
Marks(s) == LET m == Of(sends[s].op).mutation
            IN m.marks \union (IF sends[s].seen THEN m.open ELSE {})

(* Both revocations of a share end with its dialog.                        *)
Closes(o) == /\ Of(o).control.closes = "when served"
             /\ dialog = IF o = "again" THEN "revoke" ELSE o

(* Creating a user ends at the address of another one, in any case and     *)
(* wherever one is by then.                                                *)
Moved(o) == Of(o).mutation.after = "another"

Accepted(s) ==
    LET o == sends[s].op
        after == Of(o).mutation.after
        over == [sends EXCEPT ![s].pc = "accepted", ![s].seen = @ /\ panel]
        stay == after # "leave anyhow" /\ ~(sends[s].own /\ after = "leave")
        open == panel \/ (sends[s].own /\ after = "open panel")
    IN /\ sends[s].pc = "served"
       /\ shown' = ((shown \/ Moved(o)) /\ stay) /\ panel' = (open /\ stay /\ ~Moved(o))
       /\ another' = ((another \/ Moved(o)) /\ stay)
       /\ list' = LET marked == IF "list" \in Marks(s) THEN Marked(list, shown') ELSE list
                  IN IF shown' /\ ~shown THEN Observed(marked, FALSE) ELSE marked
       /\ detail' = LET marked == IF "detail" \in Marks(s) THEN Marked(detail, panel') ELSE detail
                    IN IF panel' /\ ~panel THEN Observed(marked, FALSE) ELSE marked
       /\ dialog' = IF ~stay \/ (sends[s].own /\ Closes(o))
                    THEN "none" ELSE dialog
       /\ leaving' = (leaving \/ after = "leave later")
       /\ IF ~stay THEN sends' = [t \in Slot |-> [over[t] EXCEPT !.own = FALSE]]
          ELSE IF Moved(o) THEN sends' = Following(over, FALSE)
          ELSE IF after = "send again" /\ sends[s].own /\ \E t \in Slot : sends[t].pc = "idle"
          THEN \E t \in Slot : /\ sends[t].pc = "idle" /\ \A u \in Slot : u < t => sends[u].pc # "idle"
                               /\ sends' = [over EXCEPT ![t] = Request("again")]
          ELSE sends' = over
       /\ UNCHANGED <<budget, overlay, row, visits, faults>>

(* A request is refused, or it or its answer is lost.  The dialog stays,   *)
(* and the dead-letter page forgets what it showed for the row.            *)
FailedAsShown(s) ==
    /\ Pending(s)
    /\ IF sends[s].pc = "refused" THEN UNCHANGED faults ELSE faults < budget.faults /\ faults' = faults + 1
    /\ sends' = [sends EXCEPT ![s].pc = "failed"]
    /\ UNCHANGED <<budget, shown, panel, another, dialog, overlay, leaving, row, list, detail, visits>>

Refused(s) ==
    LET moved == Moved(sends[s].op)
        over == [sends EXCEPT ![s].pc = "failed"]
    IN /\ Pending(s)
       /\ IF sends[s].pc = "refused" THEN UNCHANGED faults ELSE faults < budget.faults /\ faults' = faults + 1
       /\ sends' = IF moved THEN Following(over, FALSE) ELSE over
       /\ shown' = (shown \/ moved) /\ panel' = (panel /\ ~moved) /\ another' = (another \/ moved)
       /\ list' = IF shown' /\ ~shown THEN Observed(list, FALSE) ELSE list
       /\ overlay' = IF sends[s].own THEN "none" ELSE overlay
       /\ dialog' = IF sends[s].own /\ sends[s].op = "again" /\ Closes("again") THEN "none" ELSE dialog
       /\ UNCHANGED <<budget, leaving, row, detail, visits>>

-----------------------------------------------------------------------------
(* The queries.                                                            *)

PollUnlessFailed ==
    /\ ~list.failed
    /\ budget.page = "inbox" /\ shown /\ list.request = "idle" /\ list' = Requested(list)
    /\ UNCHANGED <<budget, shown, panel, another, dialog, overlay, leaving, row, detail, sends, visits, faults>>

(* useTaskInbox asks every ten seconds; a request in flight goes on.       *)
Poll ==
    /\ budget.page = "inbox" /\ shown /\ list.request = "idle" /\ list' = Requested(list)
    /\ UNCHANGED <<budget, shown, panel, another, dialog, overlay, leaving, row, detail, sends, visits, faults>>

(* The window gets the focus back after the data has aged, or the user     *)
(* asks again where the page shows an error.                               *)
Focus ==
    /\ shown /\ budget.ages /\ list' = Observed(list, TRUE)
    /\ detail' = IF panel THEN Observed(detail, TRUE) ELSE detail
    /\ UNCHANGED <<budget, shown, panel, another, dialog, overlay, leaving, row, sends, visits, faults>>

TryAgain ==
    /\ shown /\ Surface(list) = "error" /\ list' = Refetched(list)
    /\ UNCHANGED <<budget, shown, panel, another, dialog, overlay, leaving, row, detail, sends, visits, faults>>

ServerReads ==
    /\ Readable
    /\ \/ list.request = "asked" /\ list' = ReadAt(list, row) /\ UNCHANGED detail
       \/ detail.request = "asked" /\ detail' = ReadAt(detail, row) /\ UNCHANGED list
    /\ UNCHANGED <<budget, shown, panel, another, dialog, overlay, leaving, row, sends, visits, faults>>

Answer ==
    /\ \/ list.request = "read" /\ list' = Answered(list) /\ UNCHANGED detail
       \/ detail.request = "read" /\ detail' = Answered(detail) /\ UNCHANGED list
    /\ UNCHANGED <<budget, shown, panel, another, dialog, overlay, leaving, row, sends, visits, faults>>

AnswerFails ==
    /\ IF ~Readable THEN UNCHANGED faults ELSE faults < budget.faults /\ faults' = faults + 1
    /\ \/ list.request # "idle" /\ list' = Failed(list) /\ UNCHANGED detail
       \/ detail.request # "idle" /\ detail' = Failed(detail) /\ UNCHANGED list
    /\ UNCHANGED <<budget, shown, panel, another, dialog, overlay, leaving, row, sends, visits>>

-----------------------------------------------------------------------------
Next ==
    \/ (\E aged \in BOOLEAN : Appear(aged) \/ OpenPanel(aged))
    \/ Leave \/ LeaveLater \/ ClosePanel \/ Back \/ Dismiss
    \/ (\E o \in Ops : Ask(o) \/ \E s \in Slot : Go(o, s))
    \/ (\E s \in Slot : Serve(s) \/ Accepted(s) \/ Refused(s))
    \/ (\E s \in budget.starts : OthersChange(s))
    \/ Poll \/ Focus \/ TryAgain \/ ServerReads \/ Answer \/ AnswerFails

Fairness == WF_vars(Poll) /\ SF_vars(ServerReads /\ list' # list) /\ SF_vars(Answer /\ list' # list)

Spec == Init /\ [][Next]_vars /\ Fairness

-----------------------------------------------------------------------------
(* The entries that show what an operation changes: that of a new row is   *)
(* the list, that of a module's shares is the panel alone.                 *)
Panelled == {"inbox", "groups", "users", "definitions", "search", "modules"}
Shows(o) == IF Of(o).control.on = "page" \/ budget.page \notin Panelled THEN {"list"}
            ELSE IF o \in {"grant", "revoke", "again"} THEN {"detail"} ELSE Both

(* What the code does not mark: the detail of a user it has deactivated,   *)
(* the members of a group it has deleted, and the history and the search   *)
(* that show a definition it has activated or archived.                    *)
Forgotten(o) == IF o \in {"dismiss", "delete", "activate", "archive"} THEN {"detail"} ELSE {}

(* A user sees the outcome of their own work.  While the page stays open,  *)
(* no entry that nothing will refresh is older than an operation on its    *)
(* row that was answered, whatever polls, panels and answers overtook it.  *)
(* It is about the entries that had data when the operation was sent: a    *)
(* first load that is in flight when a mutation is answered is joined, not *)
(* replaced, and may leave what it read before.  What was done on a panel, *)
(* or is shown by one, is meant only if the panel is open at the answer:   *)
(* a closed one is not asked for again, and a group is not marked at all.  *)
OwnWorkShown ==
    \A s \in Slot :
        /\ sends[s].pc = "accepted" /\ sends[s].own
        /\ Of(sends[s].op).control.on \in {"panel", "detail"} => sends[s].seen
        => \A k \in (Shows(sends[s].op) \ Forgotten(sends[s].op)) \intersect sends[s].had :
              /\ k = "detail" => sends[s].seen
              /\ Entry(k).request = "idle" /\ ~Entry(k).invalid
              => Entry(k).data.at >= sends[s].at

(* The dead-letter page claims for a row only what was asked of the server *)
(* and not refused, also when a retry and a discard of it overlap.         *)
NothingClaimedInVain ==
    overlay # "none" => \E s \in Slot : sends[s].own /\ (Pending(s) \/ sends[s].pc = "accepted")

(* The inbox catches up with the server while it stays open, whatever      *)
(* fails on the way.                                                       *)
InboxCatchesUp ==
    [](budget.page = "inbox" /\ row.at = 1 => <>(~shown \/ (list.data # None /\ list.data.at >= 1)))
=============================================================================
