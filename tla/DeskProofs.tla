----------------------------- MODULE DeskProofs -----------------------------
(***************************************************************************)
(* The pages of rows, for any number of requests that overlap, any budget  *)
(* and any order of what the server, others and the user do.               *)
(*   An entry catches up with an operation: once the operation is answered *)
(* the entry is marked, or being asked for again, or as new; a read that   *)
(* began before the operation cannot get in between, because marking an    *)
(* entry that is on the screen and has data replaces the request.          *)
(*   The dead-letter page shows an outcome only for a request of its own.  *)
(***************************************************************************)
EXTENDS Desk, TLAPS

EntryType == [data : RowType \union {None}, request : {"idle", "asked", "read"},
              read : RowType \union {None}, failed : BOOLEAN, invalid : BOOLEAN]

SendType == [pc : {"idle", "sent", "served", "refused", "accepted", "failed"},
             op : Ops \union {"none"}, at : Nat, own : BOOLEAN, seen : BOOLEAN, had : SUBSET Both]

Loaded(e) == e.data # None

DeskType ==
    /\ budget \in Budgets
    /\ shown \in BOOLEAN /\ panel \in BOOLEAN
    /\ dialog \in Ops \union {"none"}
    /\ row \in RowType
    /\ list \in EntryType /\ (list.request = "read" => list.read \in RowType)
    /\ detail \in EntryType /\ (detail.request = "read" => detail.read \in RowType)
    /\ sends \in [Slot -> SendType]

(* No entry loses its data: what a request found loaded stays so.          *)
OffersSeen ==
    /\ panel => shown
    /\ dialog # "none" => shown

SendsSeen ==
    \A s \in Slot : /\ sends[s].pc # "idle" => sends[s].op \in Ops
                    /\ \A k \in sends[s].had : Loaded(Entry(k))
                    /\ sends[s].own => shown
                    /\ sends[s].at <= row.at

(* Nothing older than n is on the screen for good, or about to be.         *)
Fresh(e, n) ==
    /\ Loaded(e) /\ e.request = "idle" /\ ~e.invalid => e.data.at >= n
    /\ e.request = "read" => e.read.at >= n

Watched(s) == /\ sends[s].pc = "accepted" /\ sends[s].own
              /\ Of(sends[s].op).control.on \in {"panel", "detail"} => sends[s].seen

Due(s) == {k \in (Shows(sends[s].op) \ Forgotten(sends[s].op)) \intersect sends[s].had :
             k = "detail" => sends[s].seen}

CaughtUp == \A s \in Slot : Watched(s) => \A k \in Due(s) : Fresh(Entry(k), sends[s].at)

Claims == overlay # "none" => budget.page = "dlq" /\ NothingClaimedInVain

DeskInv == DeskType /\ OffersSeen /\ SendsSeen /\ CaughtUp /\ Claims

-----------------------------------------------------------------------------
(* The table: an operation marks every entry that shows its outcome, but   *)
(* those it forgets.                                                       *)
RowFits(p, o, c, m) ==
    /\ m.to \in Status \union {""}
    /\ c.on \in {"page", "list", "panel", "detail"}
    /\ (p \notin Panelled \/ c.on = "page" \/ o \notin {"grant", "revoke", "again"})
         => "list" \in m.marks \/ ("list" \in m.open /\ c.on \in {"panel", "detail"})
    /\ (p \in Panelled /\ c.on # "page" /\ o \notin {"dismiss", "delete", "activate", "archive"})
         => "detail" \in m.marks \/ ("detail" \in m.open)
    /\ m.after = "send again" => p = "modules"
    /\ m.after = "another" => c.on = "page"
    /\ p = "dlq" => m.after = "stay"
    /\ o # "none"

Fits(p, o) == RowFits(p, o, Page[p][o].control, Page[p][o].mutation)

LEMMA RowParts == \A c, m : Row(c, m).control = c /\ Row(c, m).mutation = m
BY DEF Row

LEMMA TableFits ==
    ASSUME NEW p \in DOMAIN Page, NEW o \in DOMAIN Page[p]
    PROVE  Fits(p, o)
<1>1. CASE p = "dlq"
  <2>1. Page["dlq"] = [retry |-> Row(RetryButton, Retry),
                      discard |-> Row(DiscardDialog, Discard)]
    BY DEF Page
  <2>2. RowFits("dlq", "retry", RetryButton, Retry)
    BY DEF RowFits, Panelled, Status, RetryButton, Retry, Control, Mutation
  <2>3. RowFits("dlq", "discard", DiscardDialog, Discard)
    BY DEF RowFits, Panelled, Status, DiscardDialog, Discard, Control, Mutation
  <2>4. QED BY <1>1, <2>1, <2>2, <2>3, RowParts DEF Fits
<1>2. CASE p = "inbox"
  <2>1. Page["inbox"] = [claim |-> Row(ClaimButton, Claim),
                        complete |-> Row(CompleteButton, Complete)]
    BY DEF Page
  <2>2. RowFits("inbox", "claim", ClaimButton, Claim)
    BY DEF RowFits, Panelled, Status, ClaimButton, Claim, Control, Mutation, Both
  <2>3. RowFits("inbox", "complete", CompleteButton, Complete)
    BY DEF RowFits, Panelled, Status, CompleteButton, Complete, Control, Mutation, Both
  <2>4. QED BY <1>2, <2>1, <2>2, <2>3, RowParts DEF Fits
<1>3. CASE p = "tenants"
  <2>1. Page["tenants"] = [deactivate |-> Row(DeactivateDialog, Deactivate),
                          reactivate |-> Row(ReactivateDialog, Reactivate)]
    BY DEF Page
  <2>2. RowFits("tenants", "deactivate", DeactivateDialog, Deactivate)
    BY DEF RowFits, Panelled, Status, DeactivateDialog, Deactivate, Control, Mutation
  <2>3. RowFits("tenants", "reactivate", ReactivateDialog, Reactivate)
    BY DEF RowFits, Panelled, Status, ReactivateDialog, Reactivate, Control, Mutation
  <2>4. QED BY <1>3, <2>1, <2>2, <2>3, RowParts DEF Fits
<1>4. CASE p = "tenant"
  <2>1. Page["tenant"] = [save |-> Row(SaveTenantForm, SaveTenant)]
    BY DEF Page
  <2>2. RowFits("tenant", "save", SaveTenantForm, SaveTenant)
    BY DEF RowFits, Panelled, Status, SaveTenantForm, SaveTenant, Control, Mutation, Then
  <2>3. QED BY <1>4, <2>1, <2>2, RowParts DEF Fits
<1>5. CASE p = "groups"
  <2>1. Page["groups"] = [create |-> Row(NewGroupForm, CreateGroup),
                         add |-> Row(AddMemberButton, AddMember),
                         remove |-> Row(RemoveMemberButton, RemoveMember),
                         delete |-> Row(DeleteGroupDialog, DeleteGroup)]
    BY DEF Page
  <2>2. RowFits("groups", "create", NewGroupForm, CreateGroup)
    BY DEF RowFits, Panelled, Status, NewGroupForm, CreateGroup, Control, Mutation
  <2>3. RowFits("groups", "add", AddMemberButton, AddMember)
    BY DEF RowFits, Panelled, Status, AddMemberButton, AddMember, Control, Mutation, WhileOpen, Both
  <2>4. RowFits("groups", "remove", RemoveMemberButton, RemoveMember)
    BY DEF RowFits, Panelled, Status, RemoveMemberButton, RemoveMember, Control, Mutation, WhileOpen,
           Both
  <2>5. RowFits("groups", "delete", DeleteGroupDialog, DeleteGroup)
    BY DEF RowFits, Panelled, Status, DeleteGroupDialog, DeleteGroup, Control, Mutation
  <2>6. QED BY <1>5, <2>1, <2>2, <2>3, <2>4, <2>5, RowParts DEF Fits
<1>6. CASE p = "tokens"
  <2>1. Page["tokens"] = [issue |-> Row(IssueTokenForm, IssueToken),
                         revoke |-> Row(RevokeTokenDialog, RevokeToken)]
    BY DEF Page
  <2>2. RowFits("tokens", "issue", IssueTokenForm, IssueToken)
    BY DEF RowFits, Panelled, Status, IssueTokenForm, IssueToken, Control, Mutation
  <2>3. RowFits("tokens", "revoke", RevokeTokenDialog, RevokeToken)
    BY DEF RowFits, Panelled, Status, RevokeTokenDialog, RevokeToken, Control, Mutation
  <2>4. QED BY <1>6, <2>1, <2>2, <2>3, RowParts DEF Fits
<1>7. CASE p = "services"
  <2>1. Page["services"] = [register |-> Row(RegisterForm, Register),
                           scope |-> Row(ScopeDialog, UpdateScope),
                           remove |-> Row(RemoveDialog, RemoveService)]
    BY DEF Page
  <2>2. RowFits("services", "register", RegisterForm, Register)
    BY DEF RowFits, Panelled, Status, RegisterForm, Register, Control, Mutation
  <2>3. RowFits("services", "scope", ScopeDialog, UpdateScope)
    BY DEF RowFits, Panelled, Status, ScopeDialog, UpdateScope, Control, Mutation
  <2>4. RowFits("services", "remove", RemoveDialog, RemoveService)
    BY DEF RowFits, Panelled, Status, RemoveDialog, RemoveService, Control, Mutation
  <2>5. QED BY <1>7, <2>1, <2>2, <2>3, <2>4, RowParts DEF Fits
<1>8. CASE p = "webhooks"
  <2>1. Page["webhooks"] = [subscribe |-> Row(SubscribeForm, Subscribe),
                           pause |-> Row(PauseButton, Pause),
                           resume |-> Row(ResumeButton, Resume),
                           unsubscribe |-> Row(UnsubscribeButton, Unsubscribe)]
    BY DEF Page
  <2>2. RowFits("webhooks", "subscribe", SubscribeForm, Subscribe)
    BY DEF RowFits, Panelled, Status, SubscribeForm, Subscribe, Control, Mutation
  <2>3. RowFits("webhooks", "pause", PauseButton, Pause)
    BY DEF RowFits, Panelled, Status, PauseButton, Pause, Control, Mutation
  <2>4. RowFits("webhooks", "resume", ResumeButton, Resume)
    BY DEF RowFits, Panelled, Status, ResumeButton, Resume, Control, Mutation
  <2>5. RowFits("webhooks", "unsubscribe", UnsubscribeButton, Unsubscribe)
    BY DEF RowFits, Panelled, Status, UnsubscribeButton, Unsubscribe, Control, Mutation
  <2>6. QED BY <1>8, <2>1, <2>2, <2>3, <2>4, <2>5, RowParts DEF Fits
<1>9. CASE p = "users"
  <2>1. Page["users"] = [create |-> Row(NewUserForm, CreateUser),
                        save |-> Row(SaveUserButton, SaveUser),
                        dismiss |-> Row(DismissUserDialog, DismissUser)]
    BY DEF Page
  <2>2. RowFits("users", "create", NewUserForm, CreateUser)
    BY DEF RowFits, Panelled, Status, NewUserForm, CreateUser, Control, Mutation, Then
  <2>3. RowFits("users", "save", SaveUserButton, SaveUser)
    BY DEF RowFits, Panelled, Status, SaveUserButton, SaveUser, Control, Mutation, WhileOpen
  <2>4. RowFits("users", "dismiss", DismissUserDialog, DismissUser)
    BY DEF RowFits, Panelled, Status, DismissUserDialog, DismissUser, Control, Mutation
  <2>5. QED BY <1>9, <2>1, <2>2, <2>3, <2>4, RowParts DEF Fits
<1>10. CASE p = "definitions"
  <2>1. Page["definitions"] = [create |-> Row(NewDefinitionForm, CreateDefinition),
                              import |-> Row(ImportInput, Import),
                              activate |-> Row(ActivateButton, Activate),
                              archive |-> Row(ArchiveButton, Archive)]
    BY DEF Page
  <2>2. RowFits("definitions", "create", NewDefinitionForm, CreateDefinition)
    BY DEF RowFits, Panelled, Status, NewDefinitionForm, CreateDefinition, Control, Mutation,
           Then, Both
  <2>3. RowFits("definitions", "import", ImportInput, Import)
    BY DEF RowFits, Panelled, Status, ImportInput, Import, Control, Mutation, Then, Both
  <2>4. RowFits("definitions", "activate", ActivateButton, Activate)
    BY DEF RowFits, Panelled, Status, ActivateButton, Activate, Control, Mutation
  <2>5. RowFits("definitions", "archive", ArchiveButton, Archive)
    BY DEF RowFits, Panelled, Status, ArchiveButton, Archive, Control, Mutation
  <2>6. QED BY <1>10, <2>1, <2>2, <2>3, <2>4, <2>5, RowParts DEF Fits
<1>11. CASE p = "modules"
  <2>1. Page["modules"] = [publish |-> Row(PublishButton, Publish),
                          grant |-> Row(GrantDialog, Grant),
                          revoke |-> Row(RevokeShareDialog, RevokeShare),
                          again |-> Row(RevokeShareDialog, RevokeAgain)]
    BY DEF Page
  <2>2. RowFits("modules", "publish", PublishButton, Publish)
    BY DEF RowFits, Panelled, Status, PublishButton, Publish, Control, Mutation, Then, Both
  <2>3. RowFits("modules", "grant", GrantDialog, Grant)
    BY DEF RowFits, Panelled, Status, GrantDialog, Grant, Control, Mutation
  <2>4. RowFits("modules", "revoke", RevokeShareDialog, RevokeShare)
    BY DEF RowFits, Panelled, Status, RevokeShareDialog, RevokeShare, Control, Mutation, Then
  <2>5. RowFits("modules", "again", RevokeShareDialog, RevokeAgain)
    BY DEF RowFits, Panelled, Status, RevokeShareDialog, RevokeAgain, Control, Mutation
  <2>6. QED BY <1>11, <2>1, <2>2, <2>3, <2>4, <2>5, RowParts DEF Fits
<1>12. CASE p = "search"
  <2>1. Page["search"] = [activate |-> Row(ActivateButton, Activate),
                         archive |-> Row(ArchiveButton, Archive)]
    BY DEF Page
  <2>2. RowFits("search", "activate", ActivateButton, Activate)
    BY DEF RowFits, Panelled, Status, ActivateButton, Activate, Control, Mutation
  <2>3. RowFits("search", "archive", ArchiveButton, Archive)
    BY DEF RowFits, Panelled, Status, ArchiveButton, Archive, Control, Mutation
  <2>4. QED BY <1>12, <2>1, <2>2, <2>3, RowParts DEF Fits
<1>13. p \in {"dlq", "inbox", "tenants", "tenant", "groups", "tokens",
           "services", "webhooks", "users", "definitions", "search", "modules"}
  BY DEF Page
<1>14. QED BY <1>1, <1>2, <1>3, <1>4, <1>5, <1>6, <1>7, <1>8, <1>9, <1>10,
              <1>11, <1>12, <1>13

LEMMA ARevocationRepeats == "again" \in DOMAIN Page["modules"]
<1>1. Page["modules"] = [publish |-> Row(PublishButton, Publish), grant |-> Row(GrantDialog, Grant),
                         revoke |-> Row(RevokeShareDialog, RevokeShare),
                         again |-> Row(RevokeShareDialog, RevokeAgain)]
  BY DEF Page
<1>2. QED BY <1>1

-----------------------------------------------------------------------------
(* What may become of an entry while the row stands at m: it is not older, *)
(* nor about to be, than anything up to m that it was not older than.      *)
EntryOk(e) == e \in EntryType /\ (e.request = "read" => e.read \in RowType)

Later(e, f, m) ==
    /\ EntryOk(f)
    /\ Loaded(e) => Loaded(f)
    /\ \A n \in Nat : n <= m /\ Fresh(e, n) => Fresh(f, n)

LEMMA RowsAreRows == \A r \in RowType : r # None /\ r.at \in Nat
BY DeskAssumption DEF RowType

LEMMA EntrySteps ==
    ASSUME NEW e, EntryOk(e), NEW m \in Nat
    PROVE  /\ Later(e, e, m)
           /\ Later(e, Refetched(e), m)
           /\ \A b \in BOOLEAN : Later(e, Observed(e, b), m) /\ Later(e, Marked(e, b), m)
           /\ \A r \in RowType : r.at = m => Later(e, ReadAt(e, r), m)
           /\ e.request = "read" => Later(e, Answered(e), m)
           /\ Later(e, Failed(e), m)
           /\ Later(e, Requested(e), m)
<1> USE DEF EntryOk, EntryType, Loaded, Fresh
<1>1. Later(e, e, m) BY DEF Later
<1>2. \A f : EntryOk(f) => Later(f, Requested(f), m) BY DEF Requested, Later
<1>3. \A f : EntryOk(f) => Later(f, Refetched(f), m)
  <2>1. TAKE f
  <2>2. Refetched(f) \in {f, Requested(f)} BY DEF Refetched
  <2>3. EntryOk(f) => Later(f, f, m) BY DEF Later
  <2> HIDE DEF EntryOk
  <2>4. QED BY <1>2, <2>2, <2>3
<1>4. ASSUME NEW b \in BOOLEAN PROVE Later(e, Observed(e, b), m)
  <2>1. Observed(e, b) \in {e, Requested(e)} BY DEF Observed
  <2> HIDE DEF EntryOk
  <2>2. QED BY <1>1, <1>2, <2>1
<1>5. ASSUME NEW b \in BOOLEAN PROVE Later(e, Marked(e, b), m)
  <2> DEFINE f == [e EXCEPT !.invalid = TRUE]
  <2>1. EntryOk(f) /\ Later(e, f, m) BY DEF Later
  <2>2. Later(f, Refetched(f), m) BY <1>3, <2>1
  <2>3. Marked(e, b) \in {e, f, Refetched(f)} BY DEF Marked, Invalidated
  <2> HIDE DEF f, EntryOk, Fresh, Loaded
  <2>4. Later(e, Refetched(f), m) BY <2>1, <2>2 DEF Later
  <2>5. QED BY <1>1, <2>1, <2>3, <2>4
<1>6. ASSUME NEW r \in RowType, r.at = m PROVE Later(e, ReadAt(e, r), m)
  <2> DEFINE f == ReadAt(e, r)
  <2>1. EntryOk(f) /\ f.data = e.data /\ f.request = "read" /\ f.read = r BY DEF ReadAt
  <2> HIDE DEF f, EntryOk
  <2>2. Later(e, f, m) BY <1>6, <2>1 DEF Later
  <2>3. QED BY <2>2 DEF f
<1>7. ASSUME e.request = "read" PROVE Later(e, Answered(e), m)
  <2> DEFINE f == Answered(e)
  <2>1. /\ f.data = e.read /\ f.request = "idle" /\ f.read = None /\ f.failed = FALSE
        /\ f.invalid = FALSE /\ EntryOk(f)
    BY <1>7 DEF Answered, Blank
  <2>2. e.read \in RowType BY <1>7
  <2> HIDE DEF f, EntryOk
  <2>3. Later(e, f, m) BY <1>7, <2>1, <2>2, RowsAreRows DEF Later
  <2>4. QED BY <2>3 DEF f
<1>8. Later(e, Failed(e), m) BY DEF Failed, Later
<1>9. Later(e, Requested(e), m) BY <1>2
<1> HIDE DEF EntryOk
<1>10. QED BY <1>1, <1>3, <1>4, <1>5, <1>6, <1>7, <1>8, <1>9

LEMMA LaterTwice ==
    ASSUME NEW e, NEW f, NEW g, NEW m \in Nat, Later(e, f, m), Later(f, g, m)
    PROVE  Later(e, g, m)
BY DEF Later

(* Marking what is on the screen and has data starts a new request.        *)
LEMMA MarkedAnew ==
    ASSUME NEW e, EntryOk(e), Loaded(e), NEW n \in Nat
    PROVE  Fresh(Marked(e, TRUE), n)
<1> DEFINE f == [e EXCEPT !.invalid = TRUE]
<1>1. e # Blank BY DEF Loaded, Blank
<1>2. Marked(e, TRUE) = Refetched(f) BY <1>1 DEF Marked, Invalidated
<1>3. f.data # None BY DEF EntryOk, EntryType, Loaded
<1>4. Refetched(f) = Requested(f) BY <1>3 DEF Refetched
<1>5. Requested(f).request = "asked" BY DEF Requested, EntryOk, EntryType
<1>6. QED BY <1>2, <1>4, <1>5 DEF Fresh

-----------------------------------------------------------------------------
(* One request: what DeskInv says of it, and when a step leaves that true. *)
SlotOk(s) ==
    /\ sends[s].pc # "idle" => sends[s].op \in Ops
    /\ \A k \in sends[s].had : Loaded(Entry(k))
    /\ sends[s].own => shown
    /\ sends[s].at <= row.at
    /\ Watched(s) => \A k \in Due(s) : Fresh(Entry(k), sends[s].at)

LEMMA InvBySlot == SendsSeen /\ CaughtUp <=> \A s \in Slot : SlotOk(s)
BY DEF SendsSeen, CaughtUp, SlotOk

LEMMA InvBySlotNext == SendsSeen' /\ CaughtUp' <=> \A s \in Slot : SlotOk(s)'
BY DEF SendsSeen, CaughtUp, SlotOk

Frame ==
    /\ budget' = budget /\ row' \in RowType /\ row.at <= row'.at
    /\ Later(list, list', row.at) /\ Later(detail, detail', row.at)

Follows(s) ==
    /\ sends'[s].op = sends[s].op
    /\ sends'[s].had = sends[s].had
    /\ sends'[s].pc # "idle" => sends[s].pc # "idle"
    /\ sends'[s].own => shown'
    /\ sends'[s].at <= row'.at
    /\ Watched(s)' => Watched(s) /\ sends'[s].at = sends[s].at
    /\ Watched(s)' => (sends'[s].seen => sends[s].seen)

LEMMA EntriesLast ==
    ASSUME Frame, NEW k
    PROVE  /\ Later(Entry(k), Entry(k)', row.at)
           /\ Loaded(Entry(k)) => Loaded(Entry(k))'
<1>1. Later(Entry(k), Entry(k)', row.at) BY DEF Frame, Entry
<1>2. QED BY <1>1 DEF Later, Loaded

LEMMA SlotFollows ==
    ASSUME DeskInv, Frame, NEW s \in Slot, Follows(s)
    PROVE  SlotOk(s)'
<1>1. SlotOk(s) BY InvBySlot DEF DeskInv
<1>2. Ops' = Ops BY DEF Frame, Ops
<1>3. sends'[s].pc # "idle" => sends'[s].op \in Ops' BY <1>1, <1>2 DEF Follows, SlotOk
<1>4. ASSUME NEW k \in sends'[s].had PROVE Loaded(Entry(k))'
  <2>1. Loaded(Entry(k)) BY <1>1, <1>4 DEF SlotOk, Follows
  <2>2. QED BY <2>1, EntriesLast
<1>5. ASSUME Watched(s)', NEW k \in Due(s)' PROVE Fresh(Entry(k)', sends'[s].at)
  <2>1. k \in Due(s) BY <1>5 DEF Due, Shows, Forgotten, Frame, Follows, Of
  <2>2. Fresh(Entry(k), sends[s].at) BY <1>1, <1>5, <2>1 DEF SlotOk, Follows
  <2>3. sends[s].at \in Nat /\ sends[s].at <= row.at
    BY <1>1 DEF DeskInv, DeskType, SendType, SlotOk
  <2>4. Later(Entry(k), Entry(k)', row.at) BY EntriesLast
  <2>5. Fresh(Entry(k)', sends[s].at) BY <2>2, <2>3, <2>4 DEF Later
  <2>6. QED BY <1>5, <2>5 DEF Follows
<1>6. QED BY <1>3, <1>4, <1>5 DEF SlotOk, Follows

(* The rest of the invariant, for a step that opens nothing and sends      *)
(* nothing.                                                                *)
ShownAsBefore ==
    /\ shown' \in BOOLEAN /\ panel' \in BOOLEAN
    /\ panel' => panel /\ shown'
    /\ dialog' = "none" \/ (dialog' = dialog /\ (shown => shown'))

LEMMA StepKeeps ==
    ASSUME DeskInv, Frame, ShownAsBefore, sends' \in [Slot -> SendType],
           \A s \in Slot : SlotOk(s)', Claims'
    PROVE  DeskInv'
<1>1. Ops' = Ops BY DEF Frame, Ops
<1>2. SendType' = SendType BY <1>1 DEF SendType
<1>3. DeskType' BY <1>1, <1>2 DEF DeskInv, DeskType, Frame, Later, EntryOk, ShownAsBefore
<1>6. OffersSeen' BY DEF DeskInv, OffersSeen, ShownAsBefore
<1>7. QED BY <1>3, <1>6, InvBySlotNext DEF DeskInv

LEMMA TableOf ==
    ASSUME DeskInv, NEW o \in Ops
    PROVE  RowFits(budget.page, o, Of(o).control, Of(o).mutation)
<1>1. budget.page \in DOMAIN Page BY DeskAssumption DEF DeskInv, DeskType
<1>2. QED BY <1>1, TableFits DEF Ops, Fits, Of

LEMMA OfferedIsSeen ==
    ASSUME DeskInv, NEW o \in Ops, Offered(o)
    PROVE  shown /\ o # "none"
<1>1. Of(o).control.on \in {"page", "list", "panel", "detail"} /\ o # "none"
  BY TableOf DEF RowFits
<1>2. panel => shown BY DEF DeskInv, OffersSeen
<1>3. QED BY <1>1, <1>2 DEF Offered, Listed

-----------------------------------------------------------------------------
(* The invariant holds at the start and after every step.                  *)

LEMMA DeskStarts == Init => DeskInv
<1>1. SUFFICES ASSUME Init PROVE DeskInv OBVIOUS
<1>2. row \in RowType BY <1>1, DeskAssumption DEF Init, RowType
<1>3. Blank \in EntryType /\ Blank.request = "idle" BY DEF Blank, EntryType
<1>4. sends \in [Slot -> SendType] BY <1>1 DEF Init, Unsent, SendType
<1>5. DeskType BY <1>1, <1>2, <1>3, <1>4 DEF DeskType, Init
<1>6. OffersSeen /\ Claims BY <1>1 DEF OffersSeen, Claims, Init
<1>7. \A s \in Slot : sends[s] = Unsent BY <1>1 DEF Init
<1>8. SendsSeen BY <1>1, <1>2, <1>7 DEF SendsSeen, Unsent, RowType, Init, Entry
<1>9. CaughtUp BY <1>7 DEF CaughtUp, Watched, Unsent
<1>10. QED BY <1>5, <1>6, <1>8, <1>9 DEF DeskInv

(* The requests of the page are not touched.                               *)
LEMMA SendsAsBefore ==
    ASSUME DeskInv, sends' = sends, shown => shown', Frame
    PROVE  /\ sends' \in [Slot -> SendType] /\ \A s \in Slot : SlotOk(s)'
           /\ overlay' = overlay => Claims'
<1>1. ASSUME NEW s \in Slot PROVE Follows(s)
  <2>1. SlotOk(s) BY InvBySlot DEF DeskInv
  <2>2. row.at \in Nat /\ row'.at \in Nat /\ sends[s].at \in Nat
    BY DEF DeskInv, DeskType, RowType, Frame, SendType
  <2>3. Watched(s)' => Watched(s) BY DEF Watched, Frame, Of
  <2>4. QED BY <2>1, <2>2, <2>3 DEF Follows, SlotOk, Frame
<1>2. sends' \in [Slot -> SendType] BY DEF DeskInv, DeskType
<1>3. overlay' = overlay => Claims' BY DEF DeskInv, Claims, NothingClaimedInVain, Pending, Frame
<1>4. QED BY <1>1, <1>2, <1>3, SlotFollows

(* Only the query cache and the panel's and page's queries move.           *)
LEMMA QueriesKeep ==
    ASSUME DeskInv, UNCHANGED <<budget, shown, panel, dialog, overlay, sends>>,
           row' \in RowType, row.at <= row'.at,
           Later(list, list', row.at), Later(detail, detail', row.at)
    PROVE  DeskInv'
<1>1. Frame BY DEF Frame
<1>2. ShownAsBefore BY DEF ShownAsBefore, DeskInv, DeskType, OffersSeen
<1>3. QED BY <1>1, <1>2, SendsAsBefore, StepKeeps

LEMMA EntriesOk ==
    ASSUME DeskInv
    PROVE  /\ row \in RowType /\ row.at \in Nat /\ row.at <= row.at
           /\ EntryOk(list) /\ EntryOk(detail)
           /\ Later(list, list, row.at) /\ Later(detail, detail, row.at)
<1>1. row \in RowType /\ row.at \in Nat BY DEF DeskInv, DeskType, RowType
<1>2. EntryOk(list) /\ EntryOk(detail) BY DEF DeskInv, DeskType, EntryOk
<1>3. QED BY <1>1, <1>2, EntrySteps

LEMMA QuerySteps ==
    ASSUME DeskInv, Poll \/ Focus \/ TryAgain \/ ServerReads \/ Answer \/ AnswerFails
    PROVE  DeskInv'
<1>1. row \in RowType /\ row.at \in Nat /\ EntryOk(list) /\ EntryOk(detail) /\ row.at <= row.at
      /\ Later(list, list, row.at) /\ Later(detail, detail, row.at)
  BY EntriesOk
<1>2. UNCHANGED <<budget, shown, panel, dialog, overlay, sends, row>>
  BY DEF Poll, Focus, TryAgain, ServerReads, Answer, AnswerFails
<1>3. Later(list, list', row.at)
  BY <1>1, EntrySteps DEF Poll, Focus, TryAgain, ServerReads, Answer, AnswerFails
<1>4. Later(detail, detail', row.at)
  BY <1>1, EntrySteps DEF Poll, Focus, TryAgain, ServerReads, Answer, AnswerFails
<1>5. QED BY <1>1, <1>2, <1>3, <1>4, QueriesKeep

LEMMA OthersKeep ==
    ASSUME DeskInv, NEW st \in budget.starts, OthersChange(st)
    PROVE  DeskInv'
<1>1. st \in Status BY DeskAssumption DEF DeskInv, DeskType
<1>2. row \in RowType /\ row.at \in Nat /\ Later(list, list, row.at) /\ Later(detail, detail, row.at)
  BY EntriesOk
<1>3. row' \in RowType /\ row.at <= row'.at BY <1>1, <1>2 DEF OthersChange, RowType
<1>4. UNCHANGED <<budget, shown, panel, dialog, overlay, sends, list, detail>> BY DEF OthersChange
<1>5. QED BY <1>2, <1>3, <1>4, QueriesKeep

(* The page, its panel and its dialogs.                                    *)
LEMMA AppearKeeps ==
    ASSUME DeskInv, NEW aged \in BOOLEAN, Appear(aged)
    PROVE  DeskInv'
<1>1. row \in RowType /\ row.at \in Nat /\ EntryOk(list) /\ row.at <= row.at
      /\ Later(detail, detail, row.at)
  BY EntriesOk
<1>2. Later(list, list', row.at) BY <1>1, EntrySteps DEF Appear
<1>3. Frame BY <1>1, <1>2 DEF Frame, Appear
<1>4. panel = FALSE /\ dialog = "none" BY DEF DeskInv, DeskType, OffersSeen, Appear
<1>5. shown' = TRUE /\ panel' = FALSE /\ dialog' = "none" BY <1>4 DEF Appear
<1>8. ShownAsBefore BY <1>5 DEF ShownAsBefore
<1>6. sends' = sends /\ shown' = TRUE /\ overlay' = overlay BY DEF Appear
<1>7. QED BY <1>3, <1>6, <1>8, SendsAsBefore, StepKeeps

LEMMA LeavingKeeps ==
    ASSUME DeskInv, Leave \/ LeaveLater
    PROVE  DeskInv'
<1>1. Left /\ UNCHANGED <<budget, row, list, detail>> BY DEF Leave, LeaveLater
<1>2. Frame BY <1>1, EntriesOk DEF Frame
<1>3. ShownAsBefore
  <2>1. shown' = FALSE /\ panel' = FALSE /\ dialog' = "none" BY <1>1 DEF Left
  <2>2. shown' \in BOOLEAN /\ panel' \in BOOLEAN BY <2>1
  <2>3. QED BY <2>1, <2>2 DEF ShownAsBefore
<1>4. sends' \in [Slot -> SendType] BY <1>1 DEF DeskInv, DeskType, Left, SendType
<1>5. ASSUME NEW s \in Slot PROVE Follows(s)
  <2>1. sends'[s] = [sends[s] EXCEPT !.own = FALSE] BY <1>1 DEF Left
  <2>2. sends[s] \in SendType BY DEF DeskInv, DeskType
  <2>3. sends[s].at <= row.at BY DEF DeskInv, SendsSeen
  <2>4. QED BY <1>1, <2>1, <2>2, <2>3 DEF Follows, Watched, SendType
<1>6. Claims' BY <1>1 DEF Left, Claims
<1>7. QED BY <1>2, <1>3, <1>4, <1>5, <1>6, SlotFollows, StepKeeps

(* What a rendering tells the requests it finds pending.                   *)
LEMMA FollowingIs ==
    ASSUME NEW f \in [Slot -> SendType], NEW open \in BOOLEAN
    PROVE  /\ Following(f, open) \in [Slot -> SendType]
           /\ \A s \in Slot :
                LET g == Following(f, open)[s]
                IN /\ g.pc = f[s].pc /\ g.op = f[s].op /\ g.at = f[s].at
                   /\ g.own = f[s].own /\ g.had = f[s].had
                   /\ g.seen = f[s].seen \/ (Pending(s) /\ g.seen = open)
<1> DEFINE g == Following(f, open)
<1>1. g = [s \in Slot |-> IF sends[s].own /\ Pending(s) /\ Last(s)
                          THEN [f[s] EXCEPT !.seen = open] ELSE f[s]]
  BY DEF Following
<1> HIDE DEF g
<1>2. ASSUME NEW s \in Slot
      PROVE  /\ g[s] \in SendType
             /\ g[s].pc = f[s].pc /\ g[s].op = f[s].op /\ g[s].at = f[s].at
             /\ g[s].own = f[s].own /\ g[s].had = f[s].had
             /\ g[s].seen = f[s].seen \/ (Pending(s) /\ g[s].seen = open)
  <2>1. f[s] \in SendType OBVIOUS
  <2>2. g[s] = f[s] \/ (Pending(s) /\ g[s] = [f[s] EXCEPT !.seen = open]) BY <1>1
  <2>3. QED BY <2>1, <2>2 DEF SendType
<1>3. g \in [Slot -> SendType] BY <1>1, <1>2
<1>4. QED BY <1>2, <1>3 DEF g

LEMMA RenderedKeeps ==
    ASSUME DeskInv, NEW open \in BOOLEAN, sends' = Rendered(open), Frame, shown' = shown,
           overlay' = overlay
    PROVE  sends' \in [Slot -> SendType] /\ (\A s \in Slot : SlotOk(s)') /\ Claims'
<1>1. sends \in [Slot -> SendType] /\ sends' = Following(sends, open)
  BY DEF DeskInv, DeskType, Rendered
<1>2. sends' \in [Slot -> SendType] BY <1>1, FollowingIs
<1>3. \A s \in Slot :
        /\ sends'[s].pc = sends[s].pc /\ sends'[s].op = sends[s].op /\ sends'[s].at = sends[s].at
        /\ sends'[s].own = sends[s].own /\ sends'[s].had = sends[s].had
        /\ sends'[s].seen = sends[s].seen \/ Pending(s)
  BY <1>1, FollowingIs
<1>4. ASSUME NEW s \in Slot PROVE Follows(s)
  <2>1. sends[s] \in SendType /\ (sends[s].own => shown) /\ sends[s].at <= row.at
    BY <1>1 DEF DeskInv, SendsSeen
  <2>2. row.at \in Nat /\ row'.at \in Nat BY EntriesOk DEF Frame, RowType
  <2>3. sends'[s].at <= row'.at BY <1>3, <2>1, <2>2 DEF SendType, Frame
  <2>4. Watched(s)' => Watched(s) /\ sends'[s].seen = sends[s].seen
    BY <1>3 DEF Watched, Pending, Frame, Of
  <2>5. QED BY <1>3, <2>1, <2>3, <2>4 DEF Follows
<1>5. Claims' BY <1>3 DEF DeskInv, Claims, NothingClaimedInVain, Pending, Frame
<1>6. QED BY <1>2, <1>4, <1>5, SlotFollows

LEMMA PanelOpens ==
    ASSUME DeskInv, NEW aged \in BOOLEAN, OpenPanel(aged)
    PROVE  DeskInv'
<1>1. row \in RowType /\ row.at \in Nat /\ EntryOk(detail) /\ row.at <= row.at
      /\ Later(list, list, row.at)
  BY EntriesOk
<1>2. Later(detail, detail', row.at) BY <1>1, EntrySteps DEF OpenPanel
<1>3. Frame BY <1>1, <1>2 DEF Frame, OpenPanel
<1>4. sends' = Rendered(TRUE) /\ shown' = shown /\ overlay' = overlay BY DEF OpenPanel
<1>5. sends' \in [Slot -> SendType] /\ (\A s \in Slot : SlotOk(s)') /\ Claims'
  BY <1>3, <1>4, RenderedKeeps
<1>6. SendType' = SendType /\ Ops' = Ops BY DEF SendType, Ops, OpenPanel
<1>7. DeskType' BY <1>5, <1>6, <1>2, <1>1 DEF DeskInv, DeskType, OpenPanel, Later, EntryOk
<1>8. OffersSeen' BY DEF DeskInv, OffersSeen, OpenPanel, Listed
<1>9. QED BY <1>5, <1>7, <1>8, InvBySlotNext DEF DeskInv

LEMMA PanelCloses ==
    ASSUME DeskInv, ClosePanel
    PROVE  DeskInv'
<1>1. Frame BY EntriesOk DEF Frame, ClosePanel
<1>2. ShownAsBefore BY DEF ShownAsBefore, ClosePanel, DeskInv, DeskType
<1>3. sends' = Rendered(FALSE) /\ shown' = shown /\ overlay' = overlay BY DEF ClosePanel
<1>4. QED BY <1>1, <1>2, <1>3, RenderedKeeps, StepKeeps

LEMMA BackKeeps ==
    ASSUME DeskInv, Back
    PROVE  DeskInv'
<1>1. UNCHANGED <<budget, shown, panel, dialog, overlay, sends, row, list, detail>> BY DEF Back
<1>2. QED BY <1>1, EntriesOk, QueriesKeep

LEMMA DismissKeeps ==
    ASSUME DeskInv, Dismiss
    PROVE  DeskInv'
<1>1. Frame BY EntriesOk DEF Frame, Dismiss
<1>2. ShownAsBefore BY DEF ShownAsBefore, Dismiss, DeskInv, DeskType, OffersSeen
<1>3. sends' = sends /\ shown' = shown /\ overlay' = overlay BY DEF Dismiss
<1>4. QED BY <1>1, <1>2, <1>3, SendsAsBefore, StepKeeps

LEMMA AskKeeps ==
    ASSUME DeskInv, NEW o \in Ops, Ask(o)
    PROVE  DeskInv'
<1>1. Frame BY EntriesOk DEF Frame, Ask
<1>2. shown BY OfferedIsSeen DEF Ask
<1>4. OffersSeen' BY <1>2 DEF OffersSeen, DeskInv, Ask
<1>5. sends' = sends /\ shown' = shown /\ overlay' = overlay BY DEF Ask
<1>6. sends' \in [Slot -> SendType] /\ (\A s \in Slot : SlotOk(s)') /\ Claims'
  BY <1>1, <1>5, SendsAsBefore
<1>7. SendType' = SendType /\ Ops' = Ops BY DEF SendType, Ops, Ask
<1>8. DeskType' BY <1>6, <1>7 DEF DeskInv, DeskType, Ask
<1>9. QED BY <1>4, <1>6, <1>8, InvBySlotNext DEF DeskInv

(* A request that is sent finds loaded what it will be held to.            *)
LEMMA ARequestIsNew ==
    ASSUME DeskInv, NEW o \in Ops
    PROVE  /\ Request(o) \in SendType
           /\ Request(o).pc = "sent" /\ Request(o).op = o /\ Request(o).at = 0
           /\ Request(o).own = TRUE
           /\ \A k \in Request(o).had : Loaded(Entry(k))
<1>1. Held \subseteq Both /\ \A k \in Held : Loaded(Entry(k)) BY DEF Held, Loaded
<1>2. panel \in BOOLEAN BY DEF DeskInv, DeskType
<1> HIDE DEF Both
<1>3. Request(o) \in SendType BY <1>1, <1>2 DEF Request, SendType
<1>4. Request(o).pc = "sent" /\ Request(o).op = o /\ Request(o).at = 0 /\ Request(o).own = TRUE
      /\ Request(o).had = Held
  BY DEF Request
<1>5. QED BY <1>1, <1>3, <1>4

LEMMA ANewSlotOk ==
    ASSUME DeskInv, Frame, NEW o \in Ops, NEW t \in Slot, sends'[t] = Request(o), shown'
    PROVE  SlotOk(t)'
<1>1. sends'[t].pc = "sent" /\ sends'[t].op = o /\ sends'[t].at = 0
      /\ \A k \in sends'[t].had : Loaded(Entry(k))
  BY ARequestIsNew
<1>2. ~Watched(t)' BY <1>1 DEF Watched
<1>3. Ops' = Ops BY DEF Ops, Frame
<1>4. row'.at \in Nat BY DEF Frame, RowType
<1>5. \A k \in sends'[t].had : Loaded(Entry(k))' BY <1>1, EntriesLast
<1>6. 0 <= row'.at BY <1>4
<1>7. QED BY <1>1, <1>2, <1>3, <1>5, <1>6 DEF SlotOk

(* A request is sent, carried out and answered.                            *)
LEMMA GoKeeps ==
    ASSUME DeskInv, NEW o \in Ops, NEW s \in Slot, Go(o, s)
    PROVE  DeskInv'
<1> DEFINE new == Request(o)
<1>1. Frame /\ row.at \in Nat /\ row' = row BY EntriesOk DEF Frame, Go
<1>2. shown /\ o # "none"
  <2>1. o # "none" BY TableOf DEF RowFits
  <2>2. Offered(o) \/ dialog = o BY DEF Go
  <2>3. QED BY <2>1, <2>2, OfferedIsSeen DEF DeskInv, OffersSeen
<1>3. new \in SendType BY ARequestIsNew
<1>4. sends' = [sends EXCEPT ![s] = new] /\ sends \in [Slot -> SendType]
  BY DEF Go, Sent, DeskInv, DeskType
<1>5. sends' \in [Slot -> SendType] BY <1>3, <1>4
<1>6. shown' = shown BY DEF Go
<1> HIDE DEF new
<1>7. ASSUME NEW t \in Slot PROVE SlotOk(t)'
  <2>1. CASE t = s
    <3>1. sends'[t] = new BY <1>4, <2>1
    <3>2. QED BY <1>1, <1>2, <1>6, <3>1, ANewSlotOk DEF new
  <2>2. CASE t # s
    <3>1. sends'[t] = sends[t] BY <1>4, <2>2
    <3>2. (sends[t].own => shown) /\ sends[t].at <= row.at BY DEF DeskInv, SendsSeen
    <3>3. Watched(t)' => Watched(t) BY <1>1, <3>1 DEF Watched, Frame, Of
    <3>4. Follows(t) BY <1>1, <1>6, <3>1, <3>2, <3>3 DEF Follows
    <3>5. QED BY <1>1, <3>4, SlotFollows
  <2>3. QED BY <2>1, <2>2
<1>8. Claims'
  <2>1. CASE budget.page = "dlq"
    <3>1. sends'[s].pc = "sent" /\ sends'[s].own = TRUE BY <1>4, ARequestIsNew DEF new
    <3>2. NothingClaimedInVain' BY <3>1 DEF NothingClaimedInVain, Pending
    <3>3. QED BY <1>1, <2>1, <3>2 DEF Claims, Frame
  <2>2. CASE budget.page # "dlq"
    <3>1. overlay = "none" BY <2>2 DEF DeskInv, Claims
    <3>2. overlay' = "none" BY <2>2, <3>1 DEF Go
    <3>3. QED BY <3>2 DEF Claims
  <2>3. QED BY <2>1, <2>2
<1>9. ShownAsBefore BY DEF ShownAsBefore, Go, DeskInv, DeskType, OffersSeen
<1>10. QED BY <1>1, <1>5, <1>7, <1>8, <1>9, StepKeeps

(* An operation of a served request is in the table.                       *)
LEMMA ServeKeeps ==
    ASSUME DeskInv, NEW s \in Slot, Serve(s)
    PROVE  DeskInv'
<1> DEFINE o == sends[s].op
<1>1. o \in Ops /\ row \in RowType /\ row.at \in Nat /\ sends \in [Slot -> SendType]
  BY EntriesOk DEF DeskInv, DeskType, SendsSeen, Serve
<1>2. Of(o).mutation.to \in Status \union {""} BY <1>1, TableOf DEF RowFits
<1>3. Changed(o) \in RowType /\ Changed(o).at = row.at + 1
  <2>1. row.status \in Status /\ row.at + 1 \in Nat BY <1>1 DEF RowType
  <2> DEFINE st == IF Of(o).mutation.to = "" THEN row.status ELSE Of(o).mutation.to
  <2>2. st \in Status BY <1>2, <2>1
  <2>3. Changed(o) = [status |-> st, at |-> row.at + 1] BY DEF Changed
  <2> HIDE DEF st, o
  <2>4. QED BY <2>1, <2>2, <2>3 DEF RowType
<1>4. /\ \/ row' = Changed(o) /\ sends' = [sends EXCEPT ![s].pc = "served", ![s].at = row.at + 1]
         \/ row' \in {row, Changed(o)} /\ sends' = [sends EXCEPT ![s].pc = "refused"]
      /\ UNCHANGED <<budget, shown, panel, dialog, overlay, list, detail>>
  BY DEF Serve
<1> HIDE DEF o
<1>5. row' \in RowType /\ row.at <= row'.at BY <1>1, <1>3, <1>4
<1>6. Frame BY <1>4, <1>5, EntriesOk DEF Frame
<1>7. ShownAsBefore BY <1>4 DEF ShownAsBefore, DeskInv, DeskType, OffersSeen
<1>8. ASSUME NEW t \in Slot
      PROVE  /\ sends'[t] \in SendType
             /\ t # s => sends'[t] = sends[t]
             /\ sends'[t].op = sends[t].op /\ sends'[t].own = sends[t].own
             /\ sends'[t].had = sends[t].had
             /\ t = s => sends'[t].pc \in {"served", "refused"} /\ sends'[t].at <= row'.at
  <2>1. sends[t] \in SendType /\ sends[t].at <= row.at BY <1>1 DEF DeskInv, SendsSeen
  <2>2. row'.at \in Nat /\ sends[t].at \in Nat BY <1>5, <2>1 DEF RowType, SendType
  <2>3. CASE /\ row' = Changed(o)
             /\ sends' = [sends EXCEPT ![s].pc = "served", ![s].at = row.at + 1]
    <3>1. row'.at = row.at + 1 BY <1>3, <2>3
    <3>2. QED BY <1>1, <2>1, <2>2, <2>3, <3>1 DEF SendType
  <2>4. CASE row' \in {row, Changed(o)} /\ sends' = [sends EXCEPT ![s].pc = "refused"]
    <3>1. row.at <= row'.at /\ row.at \in Nat BY <1>1, <1>5
    <3>2. QED BY <1>1, <2>1, <2>2, <2>4, <3>1 DEF SendType
  <2>5. QED BY <1>4, <2>3, <2>4
<1>9. sends' \in [Slot -> SendType] BY <1>1, <1>4, <1>8
<1>10. ASSUME NEW t \in Slot PROVE Follows(t)
  <2>1. sends[t] \in SendType /\ (sends[t].own => shown) /\ sends[t].at <= row.at
        /\ (t = s => sends[t].pc = "sent")
    BY <1>1 DEF DeskInv, SendsSeen, Serve
  <2>2. row'.at \in Nat /\ sends[t].at \in Nat BY <1>5, <2>1 DEF RowType, SendType
  <2>3. t = s => ~Watched(t)' BY <1>8 DEF Watched
  <2>4. t # s => (Watched(t)' => Watched(t)) BY <1>8, <1>6 DEF Watched, Frame, Of
  <2>5. sends'[t].at <= row'.at BY <1>1, <1>5, <1>8, <2>1, <2>2
  <2>6. sends'[t].pc # "idle" => sends[t].pc # "idle" BY <1>8, <2>1
  <2>7. sends'[t].own => shown' BY <1>4, <1>8, <2>1
  <2>8. t # s => sends'[t].at = sends[t].at BY <1>8
  <2>9. QED BY <1>8, <2>3, <2>4, <2>5, <2>6, <2>7, <2>8 DEF Follows
<1>11. Claims'
  <2>1. \A t \in Slot : sends[t].own /\ (Pending(t) \/ sends[t].pc = "accepted")
                         => sends'[t].own /\ (Pending(t)' \/ sends'[t].pc = "accepted")
    BY <1>8 DEF Pending
  <2>2. QED BY <1>4, <2>1 DEF DeskInv, Claims, NothingClaimedInVain
<1>12. QED BY <1>6, <1>7, <1>9, <1>10, <1>11, SlotFollows, StepKeeps

LEMMA RefusedKeeps ==
    ASSUME DeskInv, NEW s \in Slot, Refused(s)
    PROVE  DeskInv'
<1> DEFINE over == [sends EXCEPT ![s].pc = "failed"]
<1>1. sends \in [Slot -> SendType] /\ UNCHANGED <<budget, row, detail>> /\ Pending(s)
      /\ overlay' = (IF sends[s].own THEN "none" ELSE overlay)
      /\ (sends' = over \/ sends' = Following(over, FALSE))
  BY DEF Refused, DeskInv, DeskType
<1>2. Frame
  <2>1. list' = list \/ list' = Observed(list, FALSE) BY DEF Refused
  <2>2. Later(list, list', row.at) BY <2>1, EntriesOk, EntrySteps
  <2>3. QED BY <1>1, <2>2, EntriesOk DEF Frame
<1>3. (shown => shown') /\ (dialog' = "none" \/ dialog' = dialog) BY DEF Refused
<1>4. ShownAsBefore BY <1>3 DEF ShownAsBefore, DeskInv, DeskType, OffersSeen, Refused
<1>5. over \in [Slot -> SendType]
      /\ (\A t \in Slot \ {s} : over[t] = sends[t])
      /\ over[s].pc = "failed" /\ over[s].op = sends[s].op /\ over[s].at = sends[s].at
      /\ over[s].own = sends[s].own /\ over[s].had = sends[s].had
  BY <1>1 DEF SendType
<1> HIDE DEF over
<1>6. /\ sends' \in [Slot -> SendType]
      /\ \A t \in Slot :
           /\ sends'[t].pc = over[t].pc /\ sends'[t].op = over[t].op /\ sends'[t].at = over[t].at
           /\ sends'[t].own = over[t].own /\ sends'[t].had = over[t].had
           /\ sends'[t].seen = over[t].seen \/ Pending(t)
  <2>1. CASE sends' = over BY <1>5, <2>1
  <2>2. CASE sends' = Following(over, FALSE)
    <3>1. FALSE \in BOOLEAN OBVIOUS
    <3>2. QED BY <1>5, <2>2, <3>1, FollowingIs
  <2>3. QED BY <1>1, <2>1, <2>2
<1>7. ASSUME NEW t \in Slot PROVE Follows(t)
  <2>1. (sends[t].own => shown) /\ sends[t].at <= row.at /\ (Pending(t) => sends[t].pc # "idle")
    BY DEF DeskInv, SendsSeen, Pending
  <2>2. CASE t = s
    <3>1. ~Watched(t)' BY <1>5, <1>6, <2>2 DEF Watched
    <3>2. QED BY <1>1, <1>3, <1>5, <1>6, <2>1, <2>2, <3>1 DEF Follows
  <2>3. CASE t # s
    <3>1. over[t] = sends[t] BY <1>5, <2>3
    <3>2. Watched(t)' => Watched(t) /\ sends'[t].seen = sends[t].seen
      BY <1>1, <1>6, <3>1 DEF Watched, Of, Pending
    <3>3. QED BY <1>1, <1>3, <1>6, <2>1, <3>1, <3>2 DEF Follows
  <2>4. QED BY <2>2, <2>3
<1>8. Claims'
  <2>1. SUFFICES ASSUME overlay' # "none" PROVE budget'.page = "dlq" /\ NothingClaimedInVain'
    BY DEF Claims
  <2>2. ~sends[s].own /\ overlay # "none" BY <1>1, <2>1
  <2>3. budget.page = "dlq" BY <2>2 DEF DeskInv, Claims
  <2>4. PICK t \in Slot : sends[t].own /\ (Pending(t) \/ sends[t].pc = "accepted")
    BY <2>2 DEF DeskInv, Claims, NothingClaimedInVain
  <2>5. over[t] = sends[t] BY <1>5, <2>2, <2>4
  <2>6. sends'[t].pc = sends[t].pc /\ sends'[t].own = sends[t].own BY <1>6, <2>5
  <2>7. QED BY <1>1, <2>3, <2>4, <2>6 DEF NothingClaimedInVain, Pending
<1>9. QED BY <1>2, <1>4, <1>6, <1>7, <1>8, SlotFollows, StepKeeps

(* An answer: what the operation has changed is marked, wherever the page  *)
(* is by then.                                                             *)
LEMMA AcceptedEntries ==
    ASSUME DeskInv, NEW s \in Slot, Accepted(s)
    PROVE  /\ Frame /\ row' = row /\ row.at \in Nat
           /\ panel' \in BOOLEAN /\ shown' \in BOOLEAN
<1>1. row.at \in Nat /\ row \in RowType /\ EntryOk(list) /\ EntryOk(detail) /\ row.at <= row.at
      /\ Later(list, list, row.at) /\ Later(detail, detail, row.at)
  BY EntriesOk
<1>2. panel' \in BOOLEAN /\ shown' \in BOOLEAN BY DEF Accepted, DeskInv, DeskType
<1>3. PICK f \in {list, Marked(list, shown')} : list' = f \/ list' = Observed(f, FALSE)
  BY DEF Accepted
<1>4. Later(list, list', row.at)
  <2>1. Later(list, f, row.at) BY <1>1, <1>2, <1>3, EntrySteps
  <2>2. Later(f, f, row.at) /\ Later(f, Observed(f, FALSE), row.at) BY <1>1, <2>1, EntrySteps DEF Later
  <2>3. QED BY <1>1, <1>3, <2>1, <2>2, LaterTwice
<1>5. PICK g \in {detail, Marked(detail, panel')} : detail' = g \/ detail' = Observed(g, FALSE)
  BY DEF Accepted
<1>6. Later(detail, detail', row.at)
  <2>1. Later(detail, g, row.at) BY <1>1, <1>2, <1>5, EntrySteps
  <2>2. Later(g, g, row.at) /\ Later(g, Observed(g, FALSE), row.at) BY <1>1, <2>1, EntrySteps DEF Later
  <2>3. QED BY <1>1, <1>5, <2>1, <2>2, LaterTwice
<1>7. QED BY <1>1, <1>2, <1>4, <1>6 DEF Frame, Accepted

Stays(s) == /\ Of(sends[s].op).mutation.after # "leave anyhow"
            /\ ~(sends[s].own /\ Of(sends[s].op).mutation.after = "leave")

Again == Request("again")

(* What becomes of the requests.                                           *)
LEMMA AcceptedSends ==
    ASSUME DeskInv, NEW s \in Slot, Accepted(s)
    PROVE  /\ sends' \in [Slot -> SendType]
           /\ sends'[s].pc = "accepted" /\ sends'[s].op = sends[s].op /\ sends'[s].at = sends[s].at
           /\ sends'[s].had = sends[s].had
           /\ sends'[s].own => sends[s].own /\ Stays(s)
           /\ Stays(s) => sends'[s].own = sends[s].own
           /\ sends'[s].seen => sends[s].seen /\ panel
           /\ \A t \in Slot \ {s} :
                \/ /\ sends'[t].op = sends[t].op /\ sends'[t].had = sends[t].had
                   /\ sends'[t].pc = sends[t].pc /\ sends'[t].at = sends[t].at
                   /\ sends'[t].own => sends[t].own /\ Stays(s)
                   /\ Stays(s) => sends'[t].own = sends[t].own
                   /\ sends'[t].seen = sends[t].seen \/ Pending(t)
                \/ /\ sends[t].pc = "idle" /\ Stays(s) /\ sends[s].own
                   /\ Of(sends[s].op).mutation.after = "send again"
                   /\ sends'[t] = Again
<1> DEFINE over == [sends EXCEPT ![s].pc = "accepted", ![s].seen = @ /\ panel]
<1>1. sends \in [Slot -> SendType] /\ sends[s].pc = "served" /\ sends[s].op \in Ops
  BY DEF DeskInv, DeskType, SendsSeen, Accepted
<1>2. \/ ~Stays(s) /\ sends' = [t \in Slot |-> [over[t] EXCEPT !.own = FALSE]]
      \/ /\ Stays(s) /\ Of(sends[s].op).mutation.after = "send again" /\ sends[s].own
         /\ \E t \in Slot : sends[t].pc = "idle" /\ sends' = [over EXCEPT ![t] = Again]
      \/ Stays(s) /\ sends' = Following(over, FALSE)
      \/ Stays(s) /\ sends' = over
  BY DEF Accepted, Stays, Again
<1>3. over \in [Slot -> SendType]
  <2>1. (sends[s].seen /\ panel) \in BOOLEAN OBVIOUS
  <2>2. [sends[s] EXCEPT !.pc = "accepted", !.seen = @ /\ panel] \in SendType BY <1>1, <2>1 DEF SendType
  <2>3. QED BY <1>1, <2>2
<1>4. /\ over[s].pc = "accepted" /\ over[s].op = sends[s].op /\ over[s].at = sends[s].at
      /\ over[s].own = sends[s].own /\ over[s].seen = (sends[s].seen /\ panel)
      /\ over[s].had = sends[s].had
      /\ \A t \in Slot \ {s} : over[t] = sends[t]
  BY <1>1 DEF SendType
<1>5. \A t \in Slot : sends[t].own \in BOOLEAN /\ over[t].own \in BOOLEAN BY <1>1, <1>3 DEF SendType
<1> HIDE DEF over
<1>6. CASE ~Stays(s) /\ sends' = [t \in Slot |-> [over[t] EXCEPT !.own = FALSE]]
  <2>1. \A t \in Slot : sends'[t] = [over[t] EXCEPT !.own = FALSE] /\ over[t] \in SendType
    BY <1>3, <1>6
  <2>2. \A t \in Slot : sends'[t] \in SendType BY <2>1 DEF SendType
  <2>3. sends' \in [Slot -> SendType] BY <1>6, <2>2
  <2>4. \A t \in Slot :
          /\ sends'[t].pc = over[t].pc /\ sends'[t].op = over[t].op /\ sends'[t].at = over[t].at
          /\ sends'[t].own = FALSE /\ sends'[t].seen = over[t].seen /\ sends'[t].had = over[t].had
    BY <2>1 DEF SendType
  <2>5. /\ sends'[s].pc = "accepted" /\ sends'[s].op = sends[s].op /\ sends'[s].at = sends[s].at
        /\ sends'[s].had = sends[s].had /\ sends'[s].own = FALSE
        /\ sends'[s].seen => sends[s].seen /\ panel
    BY <1>4, <2>4
  <2>6. \A t \in Slot \ {s} :
          /\ sends'[t].op = sends[t].op /\ sends'[t].had = sends[t].had
          /\ sends'[t].pc = sends[t].pc /\ sends'[t].at = sends[t].at
          /\ sends'[t].own = FALSE /\ sends'[t].seen = sends[t].seen
    BY <1>4, <2>4
  <2>7. QED BY <1>6, <2>3, <2>5, <2>6
<1>7. CASE /\ Stays(s) /\ Of(sends[s].op).mutation.after = "send again" /\ sends[s].own
           /\ \E t \in Slot : sends[t].pc = "idle" /\ sends' = [over EXCEPT ![t] = Again]
  <2>1. PICK t \in Slot : sends[t].pc = "idle" /\ sends' = [over EXCEPT ![t] = Again] BY <1>7
  <2>2. t # s BY <1>1, <2>1
  <2>3. budget.page = "modules" BY <1>1, <1>7, TableOf DEF RowFits
  <2>4. "again" \in Ops BY <2>3, ARevocationRepeats DEF Ops
  <2>5. Again \in SendType BY <2>4, ARequestIsNew DEF Again
  <2>6. sends' \in [Slot -> SendType] BY <1>3, <2>1, <2>5
  <2>7. sends'[t] = Again /\ \A u \in Slot \ {t} : sends'[u] = over[u] BY <1>3, <2>1
  <2>8. QED BY <1>4, <1>5, <1>7, <2>1, <2>2, <2>6, <2>7
<1>8. CASE Stays(s) /\ sends' = Following(over, FALSE)
  <2>1. /\ sends' \in [Slot -> SendType]
        /\ \A t \in Slot :
             /\ sends'[t].pc = over[t].pc /\ sends'[t].op = over[t].op /\ sends'[t].at = over[t].at
             /\ sends'[t].own = over[t].own /\ sends'[t].had = over[t].had
             /\ sends'[t].seen = over[t].seen \/ (Pending(t) /\ sends'[t].seen = FALSE)
    BY <1>3, <1>8, FollowingIs
  <2>2. /\ sends'[s].pc = "accepted" /\ sends'[s].op = sends[s].op /\ sends'[s].at = sends[s].at
        /\ sends'[s].had = sends[s].had /\ sends'[s].own = sends[s].own
    BY <1>4, <2>1
  <2>3. sends'[s].seen => sends[s].seen /\ panel BY <1>4, <2>1
  <2>4. \A t \in Slot \ {s} :
          /\ sends'[t].op = sends[t].op /\ sends'[t].had = sends[t].had
          /\ sends'[t].pc = sends[t].pc /\ sends'[t].at = sends[t].at
          /\ sends'[t].own = sends[t].own /\ (sends'[t].seen = sends[t].seen \/ Pending(t))
    BY <1>4, <2>1
  <2>5. QED BY <1>8, <2>1, <2>2, <2>3, <2>4
<1>9. CASE Stays(s) /\ sends' = over BY <1>3, <1>4, <1>5, <1>9
<1>10. QED BY <1>2, <1>6, <1>7, <1>8, <1>9

(* The entries that show an operation of the page have been marked: those  *)
(* that are on the screen and had data are being asked for anew.           *)
LEMMA AcceptedIsShown ==
    ASSUME DeskInv, NEW s \in Slot, Accepted(s), Watched(s)', NEW k \in Due(s)'
    PROVE  Fresh(Entry(k)', sends[s].at)
<1> DEFINE o == sends[s].op
           c == Of(o).control
           m == Of(o).mutation
<1>1. o \in Ops /\ (sends[s].own => shown) /\ sends[s].at \in Nat
      /\ EntryOk(list) /\ EntryOk(detail)
  BY EntriesOk DEF DeskInv, DeskType, SendsSeen, Accepted, SendType
<1>2. RowFits(budget.page, o, c, m) BY <1>1, TableOf
<1>3. /\ sends[s].own /\ Stays(s)
      /\ sends'[s].seen => sends[s].seen /\ panel
      /\ c.on \in {"panel", "detail"} => sends'[s].seen
  BY AcceptedSends, AcceptedEntries DEF Watched, Frame, Of
<1>4. shown = TRUE /\ shown' = TRUE BY <1>1, <1>3 DEF Accepted, Stays, DeskInv, DeskType
<1>5. /\ k \in Shows(o) \ Forgotten(o) /\ k \in sends[s].had
      /\ k = "detail" => sends'[s].seen
  BY AcceptedSends, AcceptedEntries DEF Due, Shows, Forgotten, Of, Frame
<1>6. Loaded(Entry(k)) BY <1>5 DEF DeskInv, SendsSeen
<1>7. Marks(s) = m.marks \union (IF sends[s].seen THEN m.open ELSE {}) BY DEF Marks
<1>8. k \in Both BY <1>5 DEF Shows, Both
<1>9. CASE k = "list"
  <2>1. "list" \in m.marks \/ ("list" \in m.open /\ c.on \in {"panel", "detail"})
    BY <1>2, <1>5, <1>9 DEF Shows, RowFits
  <2>2. "list" \in Marks(s) BY <1>3, <1>7, <2>1
  <2>3. list' = Marked(list, TRUE) BY <1>4, <2>2 DEF Accepted
  <2>4. QED BY <1>1, <1>6, <1>9, <2>3, MarkedAnew DEF Entry
<1>10. CASE k = "detail"
  <2>1. sends[s].seen /\ panel BY <1>3, <1>5, <1>10
  <2>2. budget.page \in Panelled /\ c.on # "page" /\ o \notin {"dismiss", "delete", "activate", "archive"}
    BY <1>5, <1>10 DEF Shows, Forgotten
  <2>3. "detail" \in Marks(s) BY <1>2, <1>7, <2>1, <2>2 DEF RowFits
  <2>4. ~Moved(o) BY <1>2, <2>2 DEF RowFits, Moved
  <2>5. panel = TRUE /\ panel' = TRUE
    BY <1>3, <2>1, <2>4 DEF Accepted, Stays, DeskInv, DeskType
  <2>6. detail' = Marked(detail, TRUE) BY <2>3, <2>5 DEF Accepted
  <2>7. QED BY <1>1, <1>6, <1>10, <2>6, MarkedAnew DEF Entry
<1>11. QED BY <1>8, <1>9, <1>10 DEF Both

LEMMA AcceptedKeeps ==
    ASSUME DeskInv, NEW s \in Slot, Accepted(s)
    PROVE  DeskInv'
<1>1. Frame /\ row' = row /\ row.at \in Nat /\ panel' \in BOOLEAN /\ shown' \in BOOLEAN
  BY AcceptedEntries
<1>2. PICK o \in Ops :
        /\ sends[s].op = o /\ sends \in [Slot -> SendType]
        /\ \A t \in Slot : (sends[t].own => shown) /\ sends[t].at <= row.at
                           /\ \A k \in sends[t].had : Loaded(Entry(k))
  BY DEF DeskInv, DeskType, SendsSeen, Accepted
<1>3. RowFits(budget.page, o, Of(o).control, Of(o).mutation) BY <1>2, TableOf
<1>4. shown' = ((shown \/ Moved(o)) /\ Stays(s)) BY <1>2 DEF Accepted, Stays
<1>5. Ops' = Ops BY <1>1 DEF Ops, Frame
<1>6. SlotOk(s)'
  <2>1. sends'[s].op = o /\ sends'[s].at = sends[s].at /\ sends'[s].had = sends[s].had
    BY <1>2, AcceptedSends
  <2>2. \A k \in sends'[s].had : Loaded(Entry(k))' BY <1>1, <1>2, <2>1, EntriesLast
  <2>3. sends'[s].own => shown' BY <1>2, <1>4, AcceptedSends
  <2>4. sends'[s].at <= row'.at BY <1>1, <1>2, <2>1
  <2>5. ASSUME Watched(s)', NEW k \in Due(s)' PROVE Fresh(Entry(k)', sends'[s].at)
    BY <2>1, <2>5, AcceptedIsShown
  <2>6. QED BY <1>5, <2>1, <2>2, <2>3, <2>4, <2>5 DEF SlotOk
<1>7. ASSUME NEW t \in Slot \ {s} PROVE SlotOk(t)'
  <2>1. CASE /\ sends'[t].op = sends[t].op /\ sends'[t].had = sends[t].had
             /\ sends'[t].pc = sends[t].pc /\ sends'[t].at = sends[t].at
             /\ sends'[t].own => sends[t].own /\ Stays(s)
             /\ sends'[t].seen = sends[t].seen \/ Pending(t)
    <3>1. Watched(t)' => Watched(t) /\ sends'[t].seen = sends[t].seen
      BY <1>1, <2>1 DEF Watched, Of, Frame, Pending
    <3>2. sends'[t].own => shown' BY <1>2, <1>4, <2>1
    <3>3. Follows(t) BY <1>1, <1>2, <2>1, <3>1, <3>2 DEF Follows
    <3>4. QED BY <1>1, <3>3, SlotFollows
  <2>2. CASE /\ sends[t].pc = "idle" /\ Stays(s) /\ sends[s].own
             /\ Of(o).mutation.after = "send again"
             /\ sends'[t] = Again
    <3>1. budget.page = "modules" BY <1>3, <2>2 DEF RowFits
    <3>2. "again" \in Ops BY <3>1, ARevocationRepeats DEF Ops
    <3>3. shown' BY <1>2, <1>4, <2>2
    <3>4. QED BY <1>1, <2>2, <3>2, <3>3, ANewSlotOk DEF Again
  <2>3. QED BY <1>2, <2>1, <2>2, AcceptedSends
<1>8. Claims'
  <2>1. SUFFICES ASSUME overlay' # "none" PROVE budget'.page = "dlq" /\ NothingClaimedInVain'
    BY DEF Claims
  <2>2. budget.page = "dlq" /\ overlay # "none" BY <2>1 DEF DeskInv, Claims, Accepted
  <2>3. Of(o).mutation.after = "stay" BY <1>3, <2>2 DEF RowFits
  <2>4. Stays(s) /\ Of(sends[s].op).mutation.after # "send again" BY <1>2, <2>3 DEF Stays
  <2>5. PICK t \in Slot : sends[t].own /\ (Pending(t) \/ sends[t].pc = "accepted")
    BY <2>2 DEF DeskInv, Claims, NothingClaimedInVain
  <2>6. t = s \/ (sends'[t].pc = sends[t].pc /\ sends'[t].own)
    <3>1. ASSUME t # s PROVE sends'[t].pc = sends[t].pc /\ sends'[t].own = sends[t].own
      <4>1. t \in Slot \ {s} BY <3>1
      <4>2. QED BY <2>4, <4>1, AcceptedSends
    <3>2. QED BY <2>5, <3>1
  <2>7. sends'[s].pc = "accepted" /\ sends'[s].own = sends[s].own BY <2>4, AcceptedSends
  <2>8. sends'[t].own /\ (Pending(t)' \/ sends'[t].pc = "accepted") BY <2>5, <2>6, <2>7 DEF Pending
  <2>9. QED BY <1>1, <2>2, <2>8 DEF NothingClaimedInVain, Frame
<1>9. DeskType' /\ OffersSeen'
  <2>1. dialog' = "none" \/ (dialog' = dialog /\ Stays(s)) BY DEF Accepted, Stays
  <2>2. SendType' = SendType BY <1>5 DEF SendType
  <2>3. sends' \in [Slot -> SendType'] BY <2>2, AcceptedSends
  <2>4. DeskType' BY <1>1, <1>5, <2>1, <2>3 DEF DeskInv, DeskType, Frame, Later, EntryOk
  <2>5. panel' => shown'
    <3>1. HAVE panel'
    <3>2. Stays(s) /\ (panel \/ sends[s].own) BY <3>1 DEF Accepted, Stays
    <3>3. QED BY <1>2, <1>4, <3>2 DEF DeskInv, OffersSeen
  <2>6. dialog' # "none" => shown' BY <1>4, <2>1 DEF DeskInv, OffersSeen
  <2>7. QED BY <2>4, <2>5, <2>6 DEF OffersSeen
<1>10. QED BY <1>6, <1>7, <1>8, <1>9, InvBySlotNext DEF DeskInv

LEMMA DeskSteps == DeskInv /\ [Next]_vars => DeskInv'
<1> SUFFICES ASSUME DeskInv, [Next]_vars PROVE DeskInv'
  OBVIOUS
<1>1. CASE \E aged \in BOOLEAN : Appear(aged) \/ OpenPanel(aged) BY <1>1, AppearKeeps, PanelOpens
<1>2. CASE Leave \/ LeaveLater BY <1>2, LeavingKeeps
<1>3. CASE ClosePanel \/ Back BY <1>3, PanelCloses, BackKeeps
<1>4. CASE Dismiss BY <1>4, DismissKeeps
<1>5. CASE \E o \in Ops : Ask(o) \/ \E s \in Slot : Go(o, s) BY <1>5, AskKeeps, GoKeeps
<1>6. CASE \E s \in Slot : Serve(s) \/ Accepted(s) \/ Refused(s)
  BY <1>6, ServeKeeps, AcceptedKeeps, RefusedKeeps
<1>7. CASE \E st \in budget.starts : OthersChange(st) BY <1>7, OthersKeep
<1>8. CASE Poll \/ Focus \/ TryAgain \/ ServerReads \/ Answer \/ AnswerFails BY <1>8, QuerySteps
<1>9. CASE UNCHANGED vars
  <2>1. UNCHANGED <<budget, shown, panel, dialog, overlay, sends, row, list, detail>> BY <1>9 DEF vars
  <2>2. QED BY <2>1, EntriesOk, QueriesKeep
<1>10. QED BY <1>1, <1>2, <1>3, <1>4, <1>5, <1>6, <1>7, <1>8, <1>9 DEF Next

LEMMA DeskAlways == Spec => []DeskInv
BY DeskStarts, DeskSteps, PTL DEF Spec

(* While the page stays open, no entry that nothing will refresh is older  *)
(* than an operation of the page that was answered: whatever polls, panels *)
(* and answers of other requests came in between, on every page and for    *)
(* any number of requests that overlap.                                    *)
THEOREM OwnWorkIsShown == Spec => []OwnWorkShown
<1>1. DeskInv => OwnWorkShown
  BY DEF DeskInv, SendsSeen, CaughtUp, OwnWorkShown, Watched, Due, Fresh, Loaded
<1>2. QED BY <1>1, DeskAlways, PTL

(* What the dead-letter page shows in place of the row's status was asked  *)
(* of the server by this page, and that request was not refused.           *)
THEOREM ClaimsAreHeld == Spec => []NothingClaimedInVain
<1>1. DeskInv => NothingClaimedInVain BY DEF DeskInv, Claims, NothingClaimedInVain
<1>2. QED BY <1>1, DeskAlways, PTL
=============================================================================
