--------------------------- MODULE OnboardingPages ---------------------------
(***************************************************************************)
(* The three pages that register a tenant: the form and its idempotency    *)
(* key, the progress page and its timer, the result.  Requests are not     *)
(* cancelled when their page is left, and their answers navigate.          *)
(***************************************************************************)
EXTENDS Onboarding

CONSTANTS
    MaxAsked,     \* status requests in flight at a time
    Empty         \* what a form holds at first

VARIABLES
    place,        \* "elsewhere", "form", "progress" or "result"
    address,      \* the onboarding in the address of the progress or result page
    key,          \* idempotencyKey of the form on the screen
    spent,        \* the keys the forms have had so far
    form,         \* what the form holds
    submitting,
    banner,       \* apiError: None or what the server said
    posts,        \* submissions in flight: [key, form, says, own]
    timers,       \* intervals that run
    held,         \* intervalRef holds one of them
    misses,       \* transientErrorCount
    gaveUp,       \* the page shows that the status cannot be checked
    asked,        \* status requests in flight: [id, nr, says, own]
    view          \* the result page: [phase, id]

formPage == <<key, spent, form, submitting, banner>>
progress == <<timers, held, misses, gaveUp>>
pages == <<place, address, formPage, posts, progress, asked, view>>
vars == <<server, faults, pages>>

NoView == [phase |-> "none", id |-> None]

Init ==
    /\ ServerInit
    /\ place = "elsewhere" /\ address = None
    /\ key = None /\ spent = {} /\ form = None /\ submitting = FALSE /\ banner = None
    /\ posts = {} /\ asked = {} /\ view = NoView
    /\ timers = 0 /\ held = FALSE /\ misses = 0 /\ gaveUp = FALSE

-----------------------------------------------------------------------------
(* Coming to a page and leaving one.                                       *)

(* The requests of a page that is left are no longer its own.              *)
Orphaned(requests) == {[r EXCEPT !.own = FALSE] : r \in requests}

StartPolling(running) ==
    /\ gaveUp' = FALSE /\ misses' = 0 /\ timers' = running + 1 /\ held' = TRUE

Cleared == IF held THEN timers - 1 ELSE timers

ClearPoll == held' = FALSE /\ timers' = Cleared

ClearForgetting == held' = FALSE /\ timers' = timers

(* The progress page polls anew when its address changes; the result page  *)
(* keeps the view it was first mounted with.                               *)
Arrive(p, k, state) ==
    /\ place' = p /\ address' = k
    /\ key' = None /\ form' = None /\ submitting' = FALSE /\ banner' = None
    /\ view' = IF p # "result" THEN NoView ELSE IF place = "result" THEN view ELSE state
    /\ IF p # "progress" THEN ClearPoll /\ misses' = 0 /\ gaveUp' = FALSE
       ELSE IF p = place /\ k = address THEN UNCHANGED progress ELSE StartPolling(Cleared)
    /\ UNCHANGED spent

(* The navigation keeps the page if it leads to where the page is.         *)
Navigate(p, k, state, sent, gets) ==
    /\ Arrive(p, k, state)
    /\ posts' = Orphaned(sent)
    /\ asked' = IF p = "progress" /\ place = p THEN gets ELSE Orphaned(gets)

Leave ==
    /\ place # "elsewhere" /\ Navigate("elsewhere", None, NoView, posts, asked)
    /\ UNCHANGED <<server, faults>>

-----------------------------------------------------------------------------
(* The registration form.                                                  *)

(* What the result page offers besides its result.                         *)
StartsOver == place = "result" /\ view.phase \in {"failed", "lost"}

(* The key is made when the form is mounted, and kept while it is.  Trying *)
(* again after a failure fills the form in, if its values are still known. *)
OpenForm(k) ==
    /\ place = "elsewhere" \/ StartsOver
    /\ k \in Key \ spent /\ Cardinality(spent) < faults.forms
    /\ place' = "form" /\ address' = None /\ view' = NoView
    /\ key' = k /\ spent' = spent \union {k}
    /\ form' \in {Empty} \union {record[i].form : i \in {view.id} \ {None}}
    /\ submitting' = FALSE /\ banner' = None
    /\ posts' = Orphaned(posts) /\ asked' = Orphaned(asked)
    /\ UNCHANGED <<server, faults, progress>>

(* The fields are open also while a submission is in flight.               *)
Editable == place = "form"

(* Changing a field takes the last refusal away.                           *)
Edit(f) ==
    /\ Editable /\ f # form /\ form' = f /\ banner' = None
    /\ UNCHANGED <<server, faults, place, address, key, spent, submitting, posts, progress,
                   asked, view>>

Valid(f) == f # Empty

CanSubmit == place = "form" /\ ~submitting

Submit ==
    /\ CanSubmit /\ Valid(form)
    /\ submitting' = TRUE /\ banner' = None
    /\ posts' = posts \union {[key |-> key, form |-> form, says |-> "nothing", own |-> TRUE]}
    /\ UNCHANGED <<server, faults, place, address, key, spent, form, progress, asked, view>>

Receive(p, spawned) ==
    /\ p \in posts /\ p.says = "nothing"
    /\ posts' = (posts \ {p}) \union
                {[p EXCEPT !.says = IF spawned \/ record[p.key] # None
                                    THEN Verdict(p.key, p.form) ELSE "error"]}
    /\ Claim(p.key, p.form, spawned)
    /\ IF spawned THEN UNCHANGED faults ELSE Fault
    /\ UNCHANGED <<place, address, formPage, progress, asked, view>>

(* The answer opens the progress page, whatever page is on the screen.     *)
Accepted(p) ==
    /\ p \in posts /\ p.says = "created"
    /\ Navigate("progress", p.key, NoView, posts \ {p}, asked)
    /\ UNCHANGED <<server, faults>>

(* resolveApiErrorMessage; an answer to a form that is gone is dropped.    *)
Refused(p, says) ==
    /\ p \in posts
    /\ posts' = posts \ {p}
    /\ IF p.own THEN submitting' = FALSE /\ banner' = says ELSE UNCHANGED <<submitting, banner>>
    /\ UNCHANGED <<server, place, address, key, spent, form, progress, asked, view>>

Rejected(p) == p.says \notin {"nothing", "created"} /\ Refused(p, p.says) /\ UNCHANGED faults

Unanswered(p) == Strikes("network") /\ Refused(p, "error")

(* "View progress" is a plain link: the application is loaded again.       *)
FollowLink ==
    /\ place = "form" /\ banner = "running"
    /\ place' = "progress" /\ address' = key
    /\ key' = None /\ form' = None /\ submitting' = FALSE /\ banner' = None
    /\ posts' = {} /\ asked' = {}
    /\ timers' = 1 /\ held' = TRUE /\ misses' = 0 /\ gaveUp' = FALSE
    /\ UNCHANGED <<server, faults, spent, view>>

-----------------------------------------------------------------------------
(* The progress page.                                                      *)

Free == CHOOSE n \in 1..MaxAsked : \A r \in asked : r.nr # n

Tick ==
    /\ timers > 0 /\ Cardinality(asked) < faults.asked
    /\ asked' = asked \union {[id |-> address, nr |-> Free, says |-> "nothing", own |-> TRUE]}
    /\ UNCHANGED <<server, faults, place, address, formPage, posts, progress, view>>

Look(r, probed) ==
    /\ r \in asked /\ r.says = "nothing"
    /\ probed \/ Missing(r.id)
    /\ asked' = (asked \ {r}) \union {[r EXCEPT !.says = StateOf(r.id, probed)]}
    /\ Looked(r.id, probed)
    /\ IF probed THEN UNCHANGED faults ELSE Fault
    /\ UNCHANGED <<place, address, formPage, posts, progress, view>>

StillPending(r) ==
    /\ r \in asked /\ r.says = "pending"
    /\ asked' = asked \ {r}
    /\ misses' = IF r.own THEN 0 ELSE misses
    /\ UNCHANGED <<server, faults, place, address, formPage, posts, timers, held, gaveUp, view>>

(* The end of the onboarding opens the result, whatever is on the screen.  *)
Ended(r) ==
    /\ r \in asked /\ r.says \in {"completed", "failed"}
    /\ Navigate("result", r.id, [phase |-> r.says, id |-> r.id], posts, asked \ {r})
    /\ UNCHANGED <<server, faults>>

Limit == 3

MissStopping(r) ==
    /\ Strikes("network") /\ r \in asked /\ asked' = asked \ {r}
    /\ misses' = IF r.own THEN misses + 1 ELSE misses
    /\ IF r.own /\ misses + 1 >= Limit THEN ClearPoll ELSE UNCHANGED <<timers, held>>
    /\ UNCHANGED <<server, place, address, formPage, posts, view, gaveUp>>

MissForgetting(r) ==
    /\ Strikes("network") /\ r \in asked /\ asked' = asked \ {r}
    /\ misses' = IF r.own THEN misses + 1 ELSE misses
    /\ IF r.own /\ misses + 1 >= Limit THEN ClearForgetting /\ gaveUp' = TRUE
       ELSE UNCHANGED <<timers, held, gaveUp>>
    /\ UNCHANGED <<server, place, address, formPage, posts, view>>

Miss(r) ==
    /\ Strikes("network") /\ r \in asked /\ asked' = asked \ {r}
    /\ misses' = IF r.own THEN misses + 1 ELSE misses
    /\ IF r.own /\ misses + 1 >= Limit THEN ClearPoll /\ gaveUp' = TRUE
       ELSE UNCHANGED <<timers, held, gaveUp>>
    /\ UNCHANGED <<server, place, address, formPage, posts, view>>

Retry ==
    /\ place = "progress" /\ gaveUp /\ StartPolling(timers)
    /\ UNCHANGED <<server, faults, place, address, formPage, posts, asked, view>>

-----------------------------------------------------------------------------
(* The result page opened by its address: the host name is all it has.     *)
OpenResult(k) ==
    /\ place = "elsewhere" /\ record[k] # None
    /\ Navigate("result", k, [phase |-> "loading", id |-> k], posts, asked)
    /\ UNCHANGED <<server, faults>>

Restored ==
    /\ place = "result" /\ view.phase = "loading"
    /\ view' \in IF ByHost(HostFor(view.id)) = {} THEN {[phase |-> "lost", id |-> None]}
                 ELSE {[phase |-> "completed", id |-> k] : k \in ByHost(HostFor(view.id))}
    /\ UNCHANGED <<server, faults, place, address, formPage, posts, progress, asked>>

RestoreFails ==
    /\ Strikes("network") /\ place = "result" /\ view.phase = "loading"
    /\ view' = [phase |-> "lost", id |-> None]
    /\ UNCHANGED <<server, place, address, formPage, posts, progress, asked>>

-----------------------------------------------------------------------------
Next ==
    \/ (\E k \in Key : SagaStep(k)) /\ UNCHANGED pages
    \/ (Crash \/ (\E s \in Slug : RealmRemoved(s))) /\ UNCHANGED pages
    \/ Leave \/ Submit \/ FollowLink \/ Tick \/ Retry \/ Restored \/ RestoreFails
    \/ (\E k \in Key : OpenForm(k)) \/ (\E f \in Form : Edit(f))
    \/ (\E p \in posts : (\E b \in BOOLEAN : Receive(p, b)) \/ Accepted(p) \/ Rejected(p) \/ Unanswered(p))
    \/ (\E r \in asked : (\E b \in BOOLEAN : Look(r, b)) \/ StillPending(r) \/ Ended(r) \/ Miss(r))
    \/ (\E k \in Key : OpenResult(k))

(* The timer fires, and every status request is answered in the end.       *)
Spec ==
    /\ Init /\ [][Next]_vars
    /\ WF_vars(Tick)
    /\ \A n \in 1..MaxAsked :
          /\ WF_vars(\E r \in asked : r.nr = n /\ Look(r, TRUE))
          /\ WF_vars(\E r \in asked : r.nr = n /\ (StillPending(r) \/ Ended(r)))

-----------------------------------------------------------------------------
(* ONB-UI-03: polling stops when it is to stop.  At most one interval      *)
(* runs, none on another page, none behind the message that the status     *)
(* cannot be checked; late answers and failures do not change that.        *)
NoLeakedTimer ==
    /\ timers <= 1
    /\ place # "progress" \/ gaveUp => timers = 0

(* ONB-UI-03: who waits for an onboarding that has ended is shown its      *)
(* outcome, or that the status cannot be checked.                          *)
Waits(k) ==
    place = "progress" /\ address = k /\ ~gaveUp
OutcomeShown ==
    \A k \in Key : (Waits(k) /\ record[k] # None /\ record[k].state # "pending") ~> ~Waits(k)
=============================================================================
