---------------------------- MODULE InstancePages ----------------------------
(***************************************************************************)
(* The pages on process instances: the board with its start dialog and the *)
(* page of one instance with its optimistic cancellation, its polls and    *)
(* its timeline.  Requests outlive the page they were sent from; what they *)
(* do when they are answered depends on what is on the screen by then.     *)
(***************************************************************************)
EXTENDS QueryCache, Sequences, FiniteSets

CONSTANTS
    Cancel,       \* cancellations the user may confirm
    Start,        \* submissions of the start dialog
    LastSheet,    \* the timeline has the pages 0..LastSheet
    Budgets       \* how much may happen: [cancels, starts, tabs, visits, faults]

VARIABLES
    place,        \* "board", "other", "detail" (the instance followed) or the start whose instance is open
    visits,       \* pages opened so far
    faults,       \* queries failed so far
    status,       \* the instance's status on the server
    created,      \* the starts the server has accepted
    detail, list, sheet,   \* the query cache: instance, board, timeline pages of each instance
    tab,          \* "history", "graph" or "timeline"
    feed,         \* the timeline on the page: [wanted, cursor, applied, items], and history
    asking,       \* the cancellation dialog is open
    cancels,      \* [Cancel -> [pc, previous, own]]
    dialog,       \* the start dialog: "closed" or "open"
    starts,       \* [Start -> [pc, own]]
    budget        \* the member of Budgets that bounds this behaviour

serverVars == <<status, created>>
detailPage == <<tab, feed, asking>>
vars == <<place, visits, faults, serverVars, detail, list, sheet, detailPage, cancels, dialog, starts, budget>>

Terminal == {"COMPLETED", "CANCELLED"}
Sheet == 0..LastSheet
Instance == {"detail"} \union Start

ASSUME NoneIsNoAnswer == LastSheet \in Nat /\ None \notin Sheet /\ None \notin Terminal
ASSUME StartsAreNoPages == Start \intersect {"board", "other", "detail"} = {}

(* carried: history; the feed was begun on the page of another instance.   *)
NoFeed == [wanted |-> FALSE, cursor |-> 0, applied |-> None, items |-> <<>>, carried |-> FALSE]

Init ==
    /\ place = "other" /\ visits = 0 /\ faults = 0 /\ status = "ACTIVE" /\ created = {}
    /\ detail = Blank /\ list = Blank /\ sheet = [k \in Instance \X Sheet |-> Blank]
    /\ tab = "history" /\ feed = NoFeed /\ asking = FALSE
    /\ cancels = [c \in Cancel |-> [pc |-> "idle", previous |-> None, own |-> FALSE]]
    /\ dialog = "closed" /\ starts = [s \in Start |-> [pc |-> "idle", own |-> FALSE]]
    /\ budget \in Budgets

-----------------------------------------------------------------------------
(* The timeline feed.                                                      *)

Appended(f, p) == [f EXCEPT !.items = IF f.cursor = 0 THEN << <<p, 0>> >> ELSE Append(@, <<p, f.cursor>>),
                            !.applied = f.cursor]

MergedAlways(f, p, sheets) ==
    IF f.wanted /\ sheets[<<p, f.cursor>>].data # None THEN Appended(f, p) ELSE f

(* The page of the cursor is appended when it is there, once per cursor:   *)
(* lastAppliedCursor says nothing of the instance it was applied for.      *)
Merged(f, p, sheets) ==
    IF f.wanted /\ sheets[<<p, f.cursor>>].data # None /\ f.applied # f.cursor THEN Appended(f, p) ELSE f

OnSheet(k) == feed.wanted /\ k = <<place, feed.cursor>>

-----------------------------------------------------------------------------
(* Moving between the pages.                                               *)

(* Behind its boundary the page of an instance shows what it has; of those *)
(* started meanwhile only the timeline is followed.                        *)
Shown == \/ place = "detail" /\ Surface(detail) = "success" /\ detail.data # None
         \/ place \in Start

(* The components of the page that is left are gone: their mutations go on *)
(* but are nobody's any more.                                              *)
Reset ==
    /\ tab' = "history" /\ feed' = NoFeed /\ asking' = FALSE /\ sheet' = sheet
    /\ cancels' = [c \in Cancel |-> [cancels[c] EXCEPT !.own = FALSE]]

(* Two instances share one route element, without a key: from one to the   *)
(* other the page is not mounted again and keeps all its state.            *)
Kept(p) ==
    /\ LET f == [feed EXCEPT !.carried = @ \/ (feed.wanted /\ p # place)]
           sheets == IF f.wanted THEN [sheet EXCEPT ![<<p, f.cursor>>] = Observed(@, FALSE)] ELSE sheet
       IN feed' = Merged(f, p, sheets) /\ sheet' = sheets
    /\ UNCHANGED <<tab, asking, cancels>>

Turn(p, aged) ==
    /\ IF place \in Instance /\ p \in Instance THEN Kept(p) ELSE Reset
    /\ place' = p /\ dialog' = "closed"
    /\ detail' = IF p = "detail" THEN Observed(detail, aged) ELSE detail
    /\ list' = IF p = "board" THEN Observed(list, aged) ELSE list

(* Also by the browser's own buttons, from one instance to another.        *)
Visit(p, aged) ==
    /\ p # place /\ (p \in Start => p \in created)
    /\ visits < budget.visits /\ visits' = visits + 1
    /\ Turn(p, aged) /\ starts' = [s \in Start |-> [starts[s] EXCEPT !.own = FALSE]]
    /\ UNCHANGED <<budget, faults, serverVars>>

OpenTab(t) ==
    /\ Shown /\ t \in budget.tabs \ {tab} /\ tab' = t
    /\ LET f == IF t = "timeline" THEN [feed EXCEPT !.wanted = TRUE] ELSE feed
           sheets == [sheet EXCEPT ![<<place, f.cursor>>] = IF f.wanted /\ ~feed.wanted
                                                        THEN Observed(@, FALSE) ELSE @]
       IN feed' = Merged(f, place, sheets) /\ sheet' = sheets
    /\ UNCHANGED <<budget, place, visits, faults, serverVars, detail, list, asking, cancels, dialog, starts>>

(* The feed offers more once it shows something and nothing is fetched.    *)
OffersMore == /\ Shown /\ tab = "timeline" /\ feed.items # <<>>
              /\ sheet[<<place, feed.cursor>>].request = "idle"

LoadMore ==
    /\ OffersMore /\ sheet[<<place, feed.cursor>>].data # None /\ feed.cursor < LastSheet
    /\ LET f == [feed EXCEPT !.cursor = @ + 1]
           sheets == [sheet EXCEPT ![<<place, f.cursor>>] = Observed(@, FALSE)]
       IN feed' = Merged(f, place, sheets) /\ sheet' = sheets
    /\ UNCHANGED <<budget, place, visits, faults, serverVars, detail, list, tab, asking, cancels, dialog, starts>>

-----------------------------------------------------------------------------
(* Polls, and the requests they send.                                      *)

Everything(d) ==
    /\ detail' = Invalidated(d, place = "detail")
    /\ list' = Invalidated(list, place = "board")
    /\ sheet' = [k \in Instance \X Sheet |-> IF sheet[k] = Blank THEN Blank
                                              ELSE Invalidated(sheet[k], OnSheet(k))]

PollUnlessFailed ==
    /\ place = "detail" /\ ~detail.failed
    /\ detail' = Invalidated(detail, TRUE)
    /\ UNCHANGED <<budget, place, visits, faults, serverVars, list, sheet, detailPage, cancels, dialog, starts>>

(* usePolling on the instance's page: the instance alone.                  *)
Poll ==
    /\ place = "detail"
    /\ detail' = Invalidated(detail, TRUE)
    /\ UNCHANGED <<budget, place, visits, faults, serverVars, list, sheet, detailPage, cancels, dialog, starts>>

(* The graph asks again every two seconds while it shows an active one.    *)
PollGraph ==
    /\ place = "detail" /\ Shown /\ tab = "graph" /\ detail.data = "ACTIVE"
    /\ detail' = Refetched(detail)
    /\ UNCHANGED <<budget, place, visits, faults, serverVars, list, sheet, detailPage, cancels, dialog, starts>>

(* usePolling on the board: every query about instances.                   *)
PollBoard ==
    /\ place = "board" /\ Everything(detail)
    /\ UNCHANGED <<budget, place, visits, faults, serverVars, detailPage, cancels, dialog, starts>>

(* The server reads what an answer will say.                               *)
ServerReads ==
    /\ \/ /\ detail.request = "asked" /\ detail' = ReadAt(detail, status)
          /\ UNCHANGED <<list, sheet>>
       \/ /\ list.request = "asked" /\ list' = ReadAt(list, Cardinality(created))
          /\ UNCHANGED <<detail, sheet>>
       \/ \E k \in Instance \X Sheet : /\ sheet[k].request = "asked"
                                        /\ sheet' = [sheet EXCEPT ![k] = ReadAt(@, k[2])]
                                        /\ UNCHANGED <<detail, list>>
    /\ UNCHANGED <<budget, place, visits, faults, serverVars, detailPage, cancels, dialog, starts>>

(* An answer reaches the cache, and the timeline if it is the page's.      *)
Answer ==
    /\ \/ detail.request = "read" /\ detail' = Answered(detail) /\ UNCHANGED <<list, sheet>>
       \/ list.request = "read" /\ list' = Answered(list) /\ UNCHANGED <<detail, sheet>>
       \/ \E k \in Instance \X Sheet : /\ sheet[k].request = "read"
                                        /\ sheet' = [sheet EXCEPT ![k] = Answered(@)]
                                        /\ UNCHANGED <<detail, list>>
    /\ feed' = IF place \in Instance THEN Merged(feed, place, sheet') ELSE feed
    /\ UNCHANGED <<budget, place, visits, faults, serverVars, tab, asking, cancels, dialog, starts>>

AnswerFails ==
    /\ faults < budget.faults /\ faults' = faults + 1
    /\ \/ detail.request # "idle" /\ detail' = Failed(detail) /\ UNCHANGED <<list, sheet>>
       \/ list.request # "idle" /\ list' = Failed(list) /\ UNCHANGED <<detail, sheet>>
       \/ \E k \in Instance \X Sheet : /\ sheet[k].request # "idle"
                                        /\ sheet' = [sheet EXCEPT ![k] = Failed(@)]
                                        /\ UNCHANGED <<detail, list>>
    /\ UNCHANGED <<budget, place, visits, serverVars, detailPage, cancels, dialog, starts>>

-----------------------------------------------------------------------------
(* Cancelling the instance.                                                *)

Pending(c) == cancels[c].pc \in {"sent", "served", "refused"}

(* The button is offered on an active instance; the dialog it opens stays  *)
(* open whatever the polls find out meanwhile.                             *)
AskCancel ==
    /\ place = "detail" /\ Shown /\ detail.data = "ACTIVE"
    /\ \A c \in Cancel : ~(Pending(c) /\ cancels[c].own)
    /\ asking' = TRUE
    /\ UNCHANGED <<budget, place, visits, faults, serverVars, detail, list, sheet, tab, feed, cancels, dialog, starts>>

KeepInstance ==
    /\ asking /\ Shown /\ asking' = FALSE
    /\ UNCHANGED <<budget, place, visits, faults, serverVars, detail, list, sheet, tab, feed, cancels, dialog, starts>>

(* The dialog of one instance is still open on the page of the next, where *)
(* it would cancel that one, which is not followed.                        *)
(* onMutate takes the poll out of flight, remembers what the cache holds   *)
(* and writes the status the request is expected to bring about.           *)
Confirm(c) ==
    /\ place = "detail" /\ asking /\ Shown /\ c \in budget.cancels /\ cancels[c].pc = "idle"
    /\ \A b \in Cancel : ~(Pending(b) /\ cancels[b].own)
    /\ asking' = FALSE
    /\ cancels' = [cancels EXCEPT ![c] = [pc |-> "sent", previous |-> detail.data, own |-> TRUE]]
    /\ detail' = Written(Withdrawn(detail), "CANCELLED")
    /\ UNCHANGED <<budget, place, visits, faults, serverVars, list, sheet, tab, feed, dialog, starts>>

ServerCancels(c) ==
    /\ cancels[c].pc = "sent"
    /\ IF status = "ACTIVE"
       THEN /\ status' = "CANCELLED"
            /\ cancels' = [cancels EXCEPT ![c].pc = "served"]
       ELSE /\ UNCHANGED status /\ cancels' = [cancels EXCEPT ![c].pc = "refused"]
    /\ UNCHANGED <<budget, place, visits, faults, created, detail, list, sheet, detailPage, dialog, starts>>

(* onSettled: the instance and every list are asked for again.             *)
Settled(d) == Everything(Invalidated(d, place = "detail"))

CancelOk(c) ==
    /\ cancels[c].pc = "served"
    /\ cancels' = [cancels EXCEPT ![c].pc = "over"]
    /\ Settled(detail)
    /\ UNCHANGED <<budget, place, visits, faults, serverVars, detailPage, dialog, starts>>

CancelFailsIfMounted(c) ==
    /\ Pending(c)
    /\ cancels' = [cancels EXCEPT ![c].pc = "over"]
    /\ IF cancels[c].own THEN Settled(Written(detail, cancels[c].previous))
       ELSE UNCHANGED <<detail, list, sheet>>
    /\ UNCHANGED <<budget, place, visits, faults, serverVars, detailPage, dialog, starts>>

(* onError puts back what was there, also over what a poll has brought;    *)
(* a request whose answer is lost may have been served.                    *)
CancelFails(c) ==
    /\ Pending(c)
    /\ cancels' = [cancels EXCEPT ![c].pc = "over"]
    /\ Settled(Written(detail, cancels[c].previous))
    /\ UNCHANGED <<budget, place, visits, faults, serverVars, detailPage, dialog, starts>>

(* The instance ends on the server for other reasons.                      *)
OthersEnd ==
    /\ status = "ACTIVE" /\ status' = "COMPLETED"
    /\ UNCHANGED <<budget, place, visits, faults, created, detail, list, sheet, detailPage, cancels, dialog, starts>>

-----------------------------------------------------------------------------
(* Starting an instance.                                                   *)

OpenDialog ==
    /\ place = "board" /\ dialog = "closed" /\ dialog' = "open"
    /\ UNCHANGED <<budget, place, visits, faults, serverVars, detail, list, sheet, detailPage, cancels, starts>>

CloseDialog ==
    /\ dialog = "open" /\ dialog' = "closed"
    /\ UNCHANGED <<budget, place, visits, faults, serverVars, detail, list, sheet, detailPage, cancels, starts>>

(* The mutation is pending until its onSuccess has refreshed the queries;  *)
(* the page then refreshes them once more, no longer pending.              *)
Starting(s) == starts[s].own /\ starts[s].pc \in {"sent", "created", "refreshing"}

Submit(s) ==
    /\ dialog = "open" /\ s \in budget.starts /\ starts[s].pc = "idle"
    /\ \A r \in Start : ~Starting(r)
    /\ starts' = [starts EXCEPT ![s] = [pc |-> "sent", own |-> TRUE]]
    /\ UNCHANGED <<budget, place, visits, faults, serverVars, detail, list, sheet, detailPage, cancels, dialog>>

Move(s, from, to) == starts[s].pc = from /\ starts' = [starts EXCEPT ![s].pc = to]

ServerStarts(s) ==
    /\ Move(s, "sent", "created") /\ created' = created \union {s}
    /\ UNCHANGED <<budget, place, visits, faults, status, detail, list, sheet, detailPage, cancels, dialog>>

StartFails(s) ==
    /\ starts[s].pc \in {"sent", "created"}
    /\ starts' = [starts EXCEPT ![s] = [pc |-> "idle", own |-> FALSE]]
    /\ UNCHANGED <<budget, place, visits, faults, serverVars, detail, list, sheet, detailPage, cancels, dialog>>

Refreshing(s) ==
    /\ \/ Move(s, "created", "refreshing")
       \/ Move(s, "refreshing", "again") /\ list.request = "idle" /\ detail.request = "idle"
    /\ Everything(detail)
    /\ UNCHANGED <<budget, place, visits, faults, serverVars, detailPage, cancels, dialog>>

(* Then the dialog closes and the page of the new instance opens, whatever *)
(* page is on the screen.                                                  *)
Started(s) ==
    /\ starts[s].pc = "again" /\ list.request = "idle" /\ detail.request = "idle"
    /\ Turn(s, FALSE)
    /\ starts' = [r \in Start |-> [starts[r] EXCEPT !.own = FALSE,
                                                    !.pc = IF r = s THEN "over" ELSE @]]
    /\ UNCHANGED <<budget, visits, faults, serverVars>>

-----------------------------------------------------------------------------
Next ==
    \/ (\E p \in {"board", "detail", "other"} \union Start, aged \in BOOLEAN : Visit(p, aged))
    \/ (\E t \in {"history", "graph", "timeline"} : OpenTab(t)) \/ LoadMore
    \/ Poll \/ PollGraph \/ PollBoard \/ ServerReads \/ Answer \/ AnswerFails
    \/ AskCancel \/ KeepInstance \/ OthersEnd
    \/ (\E c \in Cancel : Confirm(c) \/ ServerCancels(c) \/ CancelOk(c) \/ CancelFails(c))
    \/ OpenDialog \/ CloseDialog
    \/ (\E s \in Start : Submit(s) \/ ServerStarts(s) \/ StartFails(s) \/ Refreshing(s) \/ Started(s))

(* Timers fire and the server works; answers that come before the next     *)
(* poll replaces the request come again and again.                         *)
Fairness == /\ WF_vars(Poll)
            /\ SF_vars(ServerReads /\ detail' # detail) /\ SF_vars(Answer /\ detail' # detail)
            /\ \A c \in Cancel : WF_vars(ServerCancels(c)) /\ WF_vars(CancelOk(c) \/ CancelFails(c))

Spec == Init /\ [][Next]_vars /\ Fairness

-----------------------------------------------------------------------------
(* IN-UI-07: the optimistic status does not survive its request.  When no  *)
(* cancellation is pending and nothing is to be fetched, the page shows a  *)
(* cancelled instance only if it is one, also when the request fails after *)
(* the page was left, or meets a second one sent from the page reopened.   *)
NoPhantomCancel ==
    /\ \A c \in Cancel : ~Pending(c)
    /\ detail.data = "CANCELLED" /\ detail.request = "idle" /\ ~detail.invalid
    => status = "CANCELLED"

(* Whatever fails on the way, an instance that has ended is shown as it    *)
(* ended if its page stays open.                                           *)
StatusCatchesUp ==
    \A t \in Terminal :
        [](status = t => <>(place # "detail" \/ (Surface(detail) = "success" /\ detail.data = t)))

(* The timeline holds the pages asked for, in order and once each, also    *)
(* when a page is refetched, revisited or answered late, and they are of   *)
(* the instance on the screen, unless the page was kept for it from that   *)
(* of another one on which the timeline had been opened.                   *)
FeedIsWhole == \A k \in 1..Len(feed.items) : /\ feed.items[k][2] = k - 1
                                             /\ feed.items[k][1] = place \/ feed.carried
=============================================================================
