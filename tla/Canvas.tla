------------------------------- MODULE Canvas -------------------------------
(***************************************************************************)
(* The drawing surface of the process designer: ProcessCanvas, its         *)
(* property panel and condition dialog, and the store that undoes and      *)
(* redoes (web/src/components/canvas, web/src/stores/canvasHistoryStore).  *)
(*                                                                         *)
(* A drawing is a record: which nodes exist, which sub-processes carry an  *)
(* interface the designer rejects, which edges exist and which of them     *)
(* carry a condition.  Names, coordinates and the text of a condition are  *)
(* left out.                                                               *)
(*                                                                         *)
(* Toolbar, palette and panel reach the canvas through counters that its   *)
(* effects compare with refs of their own; `asked' says which of them have *)
(* counted, because a canvas that is mounted again starts from zero.       *)
(***************************************************************************)
EXTENDS Naturals, Sequences, FiniteSets

CONSTANTS
    Gateways,     \* node ids of exclusive gateways
    SubProcesses, \* node ids of sub-processes
    MaxDepth,     \* canvasHistoryStore.maxDepth
    None          \* no node, no edge, no dialog

ASSUME MaxDepthAssumption == MaxDepth \in Nat \ {0}

Node == Gateways \union SubProcesses

Edge == {e \in Node \X Node : e[1] # e[2]}

Drawing == [nodes : SUBSET Node, rejected : SUBSET SubProcesses,
            edges : SUBSET Edge, ruled : SUBSET Edge]

Blank == [nodes |-> {}, rejected |-> {}, edges |-> {}, ruled |-> {}]

VARIABLES
    line,       \* [past, now, future]: the history store around what is drawn
    edited,     \* the node whose edit took the last snapshot, or None
    chosen,     \* the node or edge the property panel shows, or None
    dialog,     \* the edge the condition dialog asks about, or None
    layouts,    \* drawings whose layout is being computed
    asked,      \* the triggers that have counted: [layout, undo, redo, update, add]
    dirty,      \* the page's unsaved-changes flag
    edits       \* user operations so far, bounded by the instance

canvasVars == <<line, edited, chosen, dialog, layouts, asked, dirty, edits>>

-----------------------------------------------------------------------------
(* canvasHistoryStore.                                                     *)

Line(p, n, f) == [past |-> p, now |-> n, future |-> f]

CappedLate(past) == IF Len(past) > MaxDepth + 1
                    THEN SubSeq(past, Len(past) - MaxDepth + 1, Len(past)) ELSE past

Capped(past) == IF Len(past) > MaxDepth
                THEN SubSeq(past, Len(past) - MaxDepth + 1, Len(past)) ELSE past

Snapshot(l) == Line(Capped(Append(l.past, l.now)), l.now, <<>>)

Undone(l) == IF l.past = <<>> THEN l
             ELSE Line(SubSeq(l.past, 1, Len(l.past) - 1), l.past[Len(l.past)],
                       <<l.now>> \o l.future)

RedoneForgetting(l) == IF l.future = <<>> THEN l
                       ELSE Line(l.past, l.future[1], Tail(l.future))

Redone(l) == IF l.future = <<>> THEN l
             ELSE Line(Append(l.past, l.now), l.future[1], Tail(l.future))

Cleared(l) == Line(<<>>, l.now, <<>>)

Draw(l, d) == Line(l.past, d, l.future)

-----------------------------------------------------------------------------
(* What an operation does to the drawing.                                  *)

WithNode(d, n) == [d EXCEPT !.nodes = @ \union {n}]

WithoutNode(d, n) == [d EXCEPT !.nodes = @ \ {n}, !.rejected = @ \ {n},
                               !.edges = {e \in @ : n \notin {e[1], e[2]}},
                               !.ruled = {e \in @ : n \notin {e[1], e[2]}}]

WithEdge(d, e) == [d EXCEPT !.edges = @ \union {e}]

WithRule(d, e) == [d EXCEPT !.edges = @ \union {e}, !.ruled = @ \union {e}]

WithoutEdge(d, e) == [d EXCEPT !.edges = @ \ {e}, !.ruled = @ \ {e}]

(* What the panel sends: well-formed text, or text the designer rejects,   *)
(* which is kept as it is.                                                 *)
Interface(n, ok) == [node |-> n, ok |-> ok]

WithInterface(d, u) ==
    IF u.node \notin d.nodes THEN d
    ELSE [d EXCEPT !.rejected = IF u.ok THEN @ \ {u.node} ELSE @ \union {u.node}]

(* Laid-out nodes replace the nodes; edges stay what they have become.     *)
LaidOut(d, taken) == [d EXCEPT !.nodes = taken.nodes, !.rejected = taken.rejected]

Rejects(d) == d.rejected # {}

-----------------------------------------------------------------------------
Asked(l, u, r, p, a) == [layout |-> l, undo |-> u, redo |-> r, update |-> p, add |-> a]

NothingAsked == Asked(FALSE, FALSE, FALSE, None, FALSE)

CanvasInit ==
    /\ line = Line(<<>>, Blank, <<>>)
    /\ edited = None /\ chosen = None /\ dialog = None
    /\ layouts = {} /\ asked = NothingAsked
    /\ dirty = FALSE /\ edits = 0

Touch == dirty' = TRUE /\ edits' = edits + 1

(* Dropping a node on the canvas.                                          *)
DropNode(n) ==
    /\ n \notin line.now.nodes
    /\ line' = Draw(Snapshot(line), WithNode(line.now, n))
    /\ Touch
    /\ UNCHANGED <<edited, chosen, dialog, layouts, asked>>

(* Double-clicking it in the palette: the page counts, the canvas adds.    *)
AddNode(n) ==
    /\ n \notin line.now.nodes
    /\ line' = Draw(Snapshot(line), WithNode(line.now, n))
    /\ asked' = [asked EXCEPT !.add = TRUE]
    /\ Touch
    /\ UNCHANGED <<edited, chosen, dialog, layouts>>

(* Drawing an edge.  From a gateway the dialog asks first, and the snapshot *)
(* is taken whether or not the user then confirms.                         *)
Connect(e) ==
    /\ dialog = None
    /\ {e[1], e[2]} \subseteq line.now.nodes
    /\ e[1] \notin Gateways
    /\ line' = Draw(Snapshot(line), WithEdge(line.now, e))
    /\ Touch
    /\ UNCHANGED <<edited, chosen, dialog, layouts, asked>>

ConnectGateway(e) ==
    /\ dialog = None
    /\ {e[1], e[2]} \subseteq line.now.nodes
    /\ e[1] \in Gateways
    /\ line' = Snapshot(line)
    /\ dialog' = e
    /\ edits' = edits + 1
    /\ UNCHANGED <<edited, chosen, layouts, asked, dirty>>

(* Double-clicking an edge of a gateway, also where the drawing is         *)
(* read-only.                                                              *)
EditCondition(e) ==
    /\ dialog = None
    /\ e \in line.now.edges /\ e[1] \in Gateways
    /\ dialog' = e
    /\ edits' = edits + 1
    /\ UNCHANGED <<line, edited, chosen, layouts, asked, dirty>>

(* Confirming changes or creates the edge, and takes no snapshot.          *)
ConfirmCondition ==
    /\ dialog # None
    /\ line' = Draw(line, WithRule(line.now, dialog))
    /\ dialog' = None
    /\ dirty' = TRUE
    /\ UNCHANGED <<edited, chosen, layouts, asked, edits>>

CancelCondition ==
    /\ dialog # None
    /\ dialog' = None
    /\ UNCHANGED <<line, edited, chosen, layouts, asked, dirty, edits>>

(* The property panel.  It keeps the node when the node is removed, and a  *)
(* node edited again without another between takes no snapshot.            *)
ChooseNode(n) ==
    /\ n \in line.now.nodes /\ chosen # n
    /\ chosen' = n
    /\ dirty' = TRUE                  \* the selection change of React Flow
    /\ edits' = edits + 1
    /\ UNCHANGED <<line, edited, dialog, layouts, asked>>

ChooseEdge(e) ==
    /\ e \in line.now.edges /\ chosen # e
    /\ chosen' = e
    /\ dirty' = TRUE
    /\ edits' = edits + 1
    /\ UNCHANGED <<line, edited, dialog, layouts, asked>>

ClosePanel ==
    /\ chosen # None
    /\ chosen' = None
    /\ UNCHANGED <<line, edited, dialog, layouts, asked, dirty, edits>>

EditNode(ok) ==
    /\ chosen \in SubProcesses
    /\ LET u == Interface(chosen, ok)
           before == IF edited # chosen THEN Snapshot(line) ELSE line
       IN /\ line' = Draw(before, WithInterface(line.now, u))
          /\ asked' = [asked EXCEPT !.update = u]
    /\ edited' = chosen
    /\ Touch
    /\ UNCHANGED <<chosen, dialog, layouts>>

(* The panel's "Delete Edge" announces a change and deletes nothing.        *)
DeleteChosen ==
    /\ chosen \in Edge
    /\ Touch
    /\ UNCHANGED <<line, edited, chosen, dialog, layouts, asked>>

(* Deleting with the keyboard, also where the drawing is read-only: the    *)
(* edges of a node go first, with a snapshot of their own.                 *)
RemoveNode(n) ==
    /\ n \in line.now.nodes
    /\ LET linked == \E e \in line.now.edges : n \in {e[1], e[2]}
           once   == Snapshot(line)
       IN line' = Draw(IF linked THEN Snapshot(once) ELSE once, WithoutNode(line.now, n))
    /\ Touch
    /\ UNCHANGED <<edited, chosen, dialog, layouts, asked>>

RemoveEdge(e) ==
    /\ e \in line.now.edges
    /\ line' = Draw(Snapshot(line), WithoutEdge(line.now, e))
    /\ Touch
    /\ UNCHANGED <<edited, chosen, dialog, layouts, asked>>

(* React Flow reports the measured nodes of a new canvas, and every move   *)
(* and selection, as changes; coordinates are left out.                    *)
Measure ==
    /\ ~dirty /\ line.now.nodes # {}
    /\ dirty' = TRUE
    /\ UNCHANGED <<line, edited, chosen, dialog, layouts, asked, edits>>

(* Re-layout: the layout of the nodes as they are now is applied when the  *)
(* module that computes it has been loaded.                                *)
AutoLayout ==
    /\ line' = Snapshot(line)
    /\ layouts' = layouts \union {line.now}
    /\ asked' = [asked EXCEPT !.layout = TRUE]
    /\ edits' = edits + 1
    /\ UNCHANGED <<edited, chosen, dialog, dirty>>

LayoutDone(taken) ==
    /\ taken \in layouts
    /\ line' = Draw(line, LaidOut(line.now, taken))
    /\ layouts' = layouts \ {taken}
    /\ dirty' = TRUE
    /\ UNCHANGED <<edited, chosen, dialog, asked, edits>>

Undo ==
    /\ line' = Undone(line)
    /\ asked' = [asked EXCEPT !.undo = TRUE]
    /\ dirty' = (dirty \/ line.past # <<>>)
    /\ edits' = edits + 1
    /\ UNCHANGED <<edited, chosen, dialog, layouts>>

Redo ==
    /\ line' = Redone(line)
    /\ asked' = [asked EXCEPT !.redo = TRUE]
    /\ dirty' = (dirty \/ line.future # <<>>)
    /\ edits' = edits + 1
    /\ UNCHANGED <<edited, chosen, dialog, layouts>>

(* What only a DRAFT offers, what every canvas offers, and what follows.   *)
Change ==
    \/ \E n \in Node : DropNode(n) \/ AddNode(n)
    \/ \E e \in Edge : Connect(e) \/ ConnectGateway(e)
    \/ \E ok \in BOOLEAN : EditNode(ok)
    \/ DeleteChosen \/ AutoLayout \/ Undo \/ Redo

Handle ==
    \/ \E e \in Edge : EditCondition(e) \/ RemoveEdge(e) \/ ChooseEdge(e)
    \/ \E n \in Node : RemoveNode(n) \/ ChooseNode(n)

Settle == ConfirmCondition \/ CancelCondition \/ ClosePanel \/ Measure
          \/ \E taken \in layouts : LayoutDone(taken)

-----------------------------------------------------------------------------
(* The undo and redo stacks together never exceed the depth the store is   *)
(* configured for, although only pushSnapshot caps and redo does not.      *)
HistoryBounded == Len(line.past) + Len(line.future) <= MaxDepth

Timeline == line.past \o <<line.now>> \o line.future

UL == INSTANCE UndoLine WITH Depth <- MaxDepth, versions <- Timeline,
                             at <- Len(line.past) + 1
=============================================================================
