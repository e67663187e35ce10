------------------------------- MODULE Editor -------------------------------
(***************************************************************************)
(* The designer page around the canvas (DefinitionEditorPage): opening a   *)
(* definition through the query cache, saving it, the conflict surface,    *)
(* the draft store and the guard against leaving with unsaved changes.     *)
(*                                                                         *)
(* One browser tab talks to a server that other users change too.  The     *)
(* page component is the same for every definition and for a new one, so   *)
(* its state outlives a change of the address from one to the next.        *)
(***************************************************************************)
EXTENDS Canvas

CONSTANTS
    Def,          \* definitions that exist on the server
    New,          \* the address of the page that creates one
    Budgets       \* how much may happen: [edits, saves, visits, others, fails, jumps]

VARIABLES
    page,         \* the address: a definition, New, or None for another page
    visit,        \* the instances of the page component, counted
    server,       \* [Def -> Drawing]
    released,     \* definitions that are no longer DRAFT
    cache,        \* [Def -> [graph, draft] or None]: the query cache
    loading,      \* definitions whose query is in flight
    failed,       \* definitions whose last query failed
    mounted,      \* the canvas is on the screen
    conflict,     \* the 409 on the screen: "none", "stamped", "plain"
    draft,        \* definitionDraftStore: [def, graph, saved] or None
    saves,        \* requests: [id, kind, def, graph, visit, answer]
    opened,       \* the drawing the canvas was mounted with or last saved
    blocked,      \* {} or the address the unsaved-changes dialog holds back
    others,       \* changes by other users so far
    budget        \* the member of Budgets that bounds this behaviour

pageVars == <<page, visit, server, released, cache, loading, failed, mounted,
              conflict, draft, saves, opened, blocked, others, budget>>
vars == <<canvasVars, pageVars>>

-----------------------------------------------------------------------------
(* What is rendered, as a function of the page's state.                    *)

Cached(p, c) == p \in Def /\ c[p] # None

ReadOnly(p, c) == Cached(p, c) /\ ~c[p].draft

Graph(p, c) == IF Cached(p, c) THEN c[p].graph ELSE Blank

Surface(p, c, l, f, k) ==
    IF k # "none" THEN "stale-version"
    ELSE IF p \in l /\ c[p] = None THEN "loading"
    ELSE IF p \in f THEN "fetch-failure"
    ELSE "success"

(* The canvas as one value, so that steps of the page can be composed.     *)
Screen == [line |-> line, edited |-> edited, dialog |-> dialog,
           layouts |-> layouts, dirty |-> dirty, mounted |-> mounted, opened |-> opened]

(* A canvas that is mounted again answers every trigger that ever counted  *)
(* on this page, in the order of its effects: layout, undo, redo, update,  *)
(* add.  The effects of one commit all see the drawing it came with.       *)
Replayed(g, ro, a) ==
    LET h0 == Draw(line, g)
        h1 == IF a.layout /\ ~ro THEN Snapshot(h0) ELSE h0
        h2 == IF a.undo THEN Undone(h1) ELSE h1
        h3 == IF a.redo /\ h2.future # <<>>
              THEN Draw(Redone(Draw(h2, g)), h2.future[1]) ELSE h2
        h4 == IF a.update # None /\ ~ro
              THEN Draw(Snapshot(Draw(h3, g)), WithInterface(h3.now, a.update)) ELSE h3
    IN IF a.add /\ ~ro /\ Node \ h4.now.nodes # {}
       THEN Draw(Snapshot(Draw(h4, g)),
                 WithNode(h4.now, CHOOSE n \in Node : n \notin h4.now.nodes))
       ELSE h4

Mounted(s, g, ro, a) ==
    [line |-> Replayed(g, ro, a),
     edited |-> IF a.update # None /\ ~ro THEN a.update.node ELSE None,
     dialog |-> None,
     layouts |-> IF a.layout /\ ~ro THEN {g} ELSE {},
     dirty |-> s.dirty \/ Replayed(g, ro, a).now # g,
     mounted |-> TRUE, opened |-> g]

UnmountedEmpty(s) == [s EXCEPT !.dialog = None, !.layouts = {}, !.mounted = FALSE,
                               !.line = Draw(@, Blank)]

Unmounted(s) == [s EXCEPT !.edited = None, !.dialog = None, !.layouts = {},
                          !.mounted = FALSE]

(* The canvas after a step that leaves the page in this state: it comes    *)
(* with the graph of the cache, it goes, or it keeps what it shows.        *)
Rendered(s, p, c, l, f, k) ==
    LET shown == p # None /\ Surface(p, c, l, f, k) = "success"
    IN IF shown /\ ~s.mounted THEN Mounted(s, Graph(p, c), ReadOnly(p, c), asked)
       ELSE IF ~shown /\ s.mounted THEN Unmounted(s) ELSE s

Show(s) == /\ line' = s.line /\ edited' = s.edited /\ dialog' = s.dialog
           /\ layouts' = s.layouts /\ dirty' = s.dirty /\ mounted' = s.mounted
           /\ opened' = s.opened

ShowPage(s) == Show(Rendered(s, page', cache', loading', failed', conflict'))

(* The effect that mirrors the drawing into the draft store.  It runs when *)
(* the definition or the store changes, not when the drawing does: a draft *)
(* that differs and is discarded comes back at once, and whether an edit   *)
(* has reached the store depends on what else has rendered the page.       *)
Mirrored(p, c, now, d) ==
    IF Cached(p, c) /\ now # c[p].graph
    THEN [def |-> p, graph |-> now, saved |-> (d # None /\ d.saved)]
    ELSE d

Drawn == mounted \/ conflict # "none"   \* the page holds a drawing

-----------------------------------------------------------------------------
Init ==
    /\ CanvasInit
    /\ page = None /\ visit = 0
    /\ server \in [Def -> {d \in Drawing : d = [Blank EXCEPT !.nodes = Gateways]}]
    /\ released = {}
    /\ cache = [d \in Def |-> None] /\ loading = {} /\ failed = {}
    /\ mounted = FALSE /\ conflict = "none" /\ draft = None
    /\ saves = {} /\ opened = Blank /\ blocked = {} /\ others = 0
    /\ budget \in Budgets

(* Whether the palette and the other tools are offered.                    *)
Palette(ro) == ~ro

(* The user works on the canvas; a layout that was asked for arrives.      *)
Work ==
    /\ mounted /\ blocked = {}
    /\ \/ edits < budget.edits /\ Palette(ReadOnly(page, cache)) /\ Change
       \/ edits < budget.edits /\ Handle
       \/ Settle
    /\ UNCHANGED pageVars

(* The keyboard shortcuts count even while no canvas listens.              *)
PressUndo ==
    /\ page # None /\ ~mounted /\ ~ReadOnly(page, cache) /\ ~asked.undo
    /\ asked' = [asked EXCEPT !.undo = TRUE]
    /\ UNCHANGED <<line, edited, chosen, dialog, layouts, dirty, edits, pageVars>>

-----------------------------------------------------------------------------
(* The query of the definition.                                            *)

(* Opening the page, the Retry button, or the window getting the focus.    *)
Refetch ==
    /\ page \in Def /\ page \notin loading
    /\ loading' = loading \union {page}
    /\ UNCHANGED <<page, visit, server, released, cache, failed, conflict, draft,
                   saves, blocked, others, chosen, asked, edits, budget>>
    /\ ShowPage(Screen)

Loaded(d) ==
    /\ d \in loading
    /\ loading' = loading \ {d} /\ failed' = failed \ {d}
    /\ cache' = [cache EXCEPT ![d] = [graph |-> server[d], draft |-> d \notin released]]
    /\ draft' = IF d = page /\ Drawn /\ cache'[d] # cache[d]
                THEN Mirrored(d, cache', line.now, draft) ELSE draft
    /\ UNCHANGED <<page, visit, server, released, conflict, saves, blocked,
                   others, chosen, asked, edits, budget>>
    /\ ShowPage(Screen)

LoadFails(d) ==
    /\ d \in loading /\ budget.fails
    /\ loading' = loading \ {d} /\ failed' = failed \union {d}
    /\ UNCHANGED <<page, visit, server, released, cache, conflict, draft, saves,
                   blocked, others, chosen, asked, edits, budget>>
    /\ ShowPage(Screen)

-----------------------------------------------------------------------------
(* Saving.                                                                 *)

Request(kind, g) == [id |-> Cardinality(saves), kind |-> kind, def |-> page, graph |-> g,
                     visit |-> visit, answer |-> "none"]

Send(kind, g) == Cardinality(saves) < budget.saves /\ saves' = saves \union {Request(kind, g)}

(* The page's create mutation is pending; an update has no such guard.     *)
Creating == \E r \in saves : r.kind = "create" /\ r.visit = visit /\ r.answer # "done"

Save ==
    /\ mounted /\ blocked = {} /\ ~ReadOnly(page, cache) /\ ~Creating
    /\ ~Rejects(line.now)
    /\ Send(IF page = New THEN "create" ELSE "update", line.now)
    /\ UNCHANGED <<page, visit, server, released, cache, loading, failed, mounted,
                   conflict, draft, opened, blocked, others, canvasVars, budget>>

(* A 409 carries the version to merge with, or none.                       *)
Stamps == {"stamped", "plain"}

Answered(r, a) == (saves \ {r}) \union {[r EXCEPT !.answer = a]}

(* The server takes requests in any order; it refuses a definition that is *)
(* not DRAFT and may refuse or lose any other request.                     *)
Store(r) ==
    /\ r.answer = "none" /\ r.def \notin released
    /\ saves' = Answered(r, "ok")
    /\ server' = IF r.def \in Def THEN [server EXCEPT ![r.def] = r.graph] ELSE server
    /\ UNCHANGED <<page, visit, released, cache, loading, failed, mounted, conflict,
                   draft, opened, blocked, others, canvasVars, budget>>

(* handleSave continues.  The history it clears is the one on the screen   *)
(* now; the flags it sets are those of the page instance that saved.       *)
SaveOk(r) ==
    /\ r.kind \in {"create", "update"} /\ r.answer = "ok"
    /\ saves' = Answered(r, "done")
    /\ loading' = IF r.kind = "create" /\ page \in Def THEN loading \union {page} ELSE loading
    /\ UNCHANGED <<page, visit, server, released, cache, failed, conflict, draft,
                   blocked, others, chosen, asked, edits, budget>>
    /\ ShowPage([Screen EXCEPT !.line = Cleared(line),
                               !.dirty = (dirty /\ r.visit # visit),
                               !.opened = IF r.visit = visit THEN r.graph ELSE opened])

SaveRefused(r, stamp) ==
    /\ r.kind \in {"create", "update"} /\ r.answer = "none"
    /\ saves' = Answered(r, "done")
    /\ IF r.visit = visit
       THEN /\ conflict' = stamp
            /\ draft' \in {draft, IF Drawn THEN Mirrored(page, cache, line.now, draft) ELSE draft}
       ELSE UNCHANGED <<conflict, draft, budget>>
    /\ UNCHANGED <<page, visit, server, released, cache, loading, failed,
                   blocked, others, chosen, asked, edits, budget>>
    /\ ShowPage(Screen)

SaveFails(r) ==
    /\ r.answer = "none"
    /\ saves' = Answered(r, "done")
    /\ UNCHANGED <<page, visit, server, released, cache, loading, failed, mounted,
                   conflict, draft, opened, blocked, others, canvasVars, budget>>

MergeOk(r) ==
    /\ r.kind = "merge" /\ r.answer = "ok"
    /\ saves' = Answered(r, "done")
    /\ draft' = [def |-> r.def, graph |-> r.graph, saved |-> TRUE]
    /\ conflict' = IF r.visit = visit THEN "none" ELSE conflict
    /\ loading' = IF r.visit = visit /\ page \in Def THEN loading \union {page} ELSE loading
    /\ UNCHANGED <<page, visit, server, released, cache, failed, blocked, others,
                   chosen, asked, edits, budget>>
    /\ ShowPage(Screen)

-----------------------------------------------------------------------------
(* The conflict surface and the draft banner.  They show the draft of the  *)
(* store, whichever definition it belongs to.                              *)

Resolving == page \in Def /\ conflict # "none" /\ draft # None

(* Per field the user takes the server's value or his own; the body of a   *)
(* 409 has no graph, so "server" leaves the one the page has loaded.       *)
SaveMerged(mine) ==
    /\ Resolving /\ conflict = "stamped"
    /\ Send("merge", IF mine THEN draft.graph ELSE Graph(page, cache))
    /\ UNCHANGED <<page, visit, server, released, cache, loading, failed, mounted,
                   conflict, draft, opened, blocked, others, canvasVars, budget>>

Discard ==
    /\ Resolving
    /\ draft' = IF draft.def = page THEN None ELSE draft
    /\ conflict' = "none"
    /\ loading' = loading \union {page}
    /\ UNCHANGED <<page, visit, server, released, cache, failed, saves, blocked,
                   others, chosen, asked, edits, budget>>
    /\ ShowPage(Screen)

DiscardDraft ==
    /\ page \in Def /\ mounted /\ draft # None /\ blocked = {}
    /\ draft' = Mirrored(page, cache, line.now, IF draft.def = page THEN None ELSE draft)
    /\ UNCHANGED <<page, visit, server, released, cache, loading, failed, mounted,
                   conflict, saves, opened, blocked, others, canvasVars, budget>>

-----------------------------------------------------------------------------
(* Moving between addresses.                                               *)

(* Leaving for another page ends the instance; the two stores and the      *)
(* query cache stay.                                                       *)
Close ==
    /\ page' = None /\ visit' = visit + 1 /\ conflict' = "none" /\ blocked' = {}
    /\ asked' = NothingAsked /\ chosen' = None
    /\ UNCHANGED <<server, released, cache, loading, failed, draft, saves, others, edits, budget>>
    /\ Show([Unmounted(Screen) EXCEPT !.dirty = FALSE, !.opened = Blank,
                                      !.line = Draw(line, Blank)])

(* Another address of the same component keeps its state, the canvas       *)
(* included unless the query has nothing cached; the history is cleared.   *)
Open(q, flag) ==
    /\ page' = q /\ blocked' = {}
    /\ loading' = IF Cached(q, cache) THEN loading ELSE loading \union ({q} \ {New})
    /\ UNCHANGED <<visit, server, released, cache, failed, conflict, draft, saves,
                   others, chosen, asked, edits, budget>>
    /\ LET s == Rendered([Screen EXCEPT !.dirty = flag], q, cache, loading', failed, conflict)
       IN Show([s EXCEPT !.line = Cleared(@)])

Go(q, flag) == IF q = None THEN Close ELSE Open(q, flag)

Navigate(q) ==
    /\ q # page /\ visit < budget.visits /\ blocked = {}
    /\ None \in {q, page} \/ budget.jumps   \* the browser's history may skip the list
    /\ IF dirty
       THEN /\ blocked' = {q}
            /\ UNCHANGED <<page, visit, server, released, cache, loading, failed, mounted,
                           conflict, draft, saves, opened, others, canvasVars, budget>>
       ELSE Go(q, FALSE)

ProceedAnyway == \E q \in blocked : Go(q, FALSE)

Stay ==
    /\ blocked # {} /\ blocked' = {}
    /\ UNCHANGED <<page, visit, server, released, cache, loading, failed, mounted,
                   conflict, draft, saves, opened, others, canvasVars, budget>>

(* The tab is reloaded or closed.  Unsaved changes only make the browser   *)
(* ask, and the user may agree; stores, cache and whoever waits for an     *)
(* answer are gone, while the server still gets what was sent.             *)
Reload ==
    /\ page # None /\ visit < budget.visits
    /\ page' = None /\ visit' = visit + 1 /\ conflict' = "none" /\ blocked' = {}
    /\ cache' = [d \in Def |-> None] /\ loading' = {} /\ failed' = {} /\ draft' = None
    /\ saves' = {[r EXCEPT !.kind = "orphan"] : r \in saves}
    /\ asked' = NothingAsked /\ chosen' = None
    /\ UNCHANGED <<server, released, others, edits, budget>>
    /\ Show([Unmounted(Screen) EXCEPT !.dirty = FALSE, !.opened = Blank,
                                      !.line = Line(<<>>, Blank, <<>>)])

-----------------------------------------------------------------------------
(* Other users save or release a definition.                               *)

OtherSaves(d) ==
    /\ others < budget.others /\ others' = others + 1
    /\ d \notin released
    /\ server' = [server EXCEPT ![d] = [@ EXCEPT !.nodes = Node]]
    /\ UNCHANGED <<page, visit, released, cache, loading, failed, mounted, conflict,
                   draft, saves, opened, blocked, canvasVars, budget>>

OtherReleases(d) ==
    /\ others < budget.others /\ others' = others + 1
    /\ released' = released \union {d}
    /\ UNCHANGED <<page, visit, server, cache, loading, failed, mounted, conflict,
                   draft, saves, opened, blocked, canvasVars, budget>>

Answer == \/ \E d \in Def : Loaded(d) \/ LoadFails(d)
          \/ \E r \in saves : \/ Store(r) \/ SaveOk(r) \/ SaveFails(r) \/ MergeOk(r)
                              \/ \E stamp \in Stamps : SaveRefused(r, stamp)

Next ==
    \/ Work \/ PressUndo \/ Refetch \/ Answer
    \/ Save \/ (\E mine \in BOOLEAN : SaveMerged(mine)) \/ Discard \/ DiscardDraft
    \/ (\E q \in Def \union {New, None} : Navigate(q)) \/ ProceedAnyway \/ Stay \/ Reload
    \/ \E d \in Def : OtherSaves(d) \/ OtherReleases(d)

Spec == Init /\ [][Next]_vars /\ WF_vars(Answer)

-----------------------------------------------------------------------------
(* Undo, redo, edits and saves keep the canvas on one line of versions,    *)
(* also when a save is answered late or the address changes.  Only         *)
(* mounting the canvas again may replay triggers on top of that.           *)
OneLine == [][(mounted' => mounted) => UL!LineNext \/ UNCHANGED line]_line

(* The drawing a 409 refused stays where the draft is mirrored from until  *)
(* the user merges, discards or leaves, whatever is fetched meanwhile.     *)
ConflictKeepsEdits ==
    [][conflict' # "none" /\ visit' = visit => line'.now = line.now]_vars

(* PD-UI-14: what differs from the saved drawing is announced as unsaved,  *)
(* so that leaving asks first.                                             *)
UnsavedIsGuarded == mounted /\ line.now # opened => dirty
=============================================================================
