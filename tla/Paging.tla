------------------------------- MODULE Paging -------------------------------
(***************************************************************************)
(* The audit log and the dead-letter list: pages of a table that changes   *)
(* as it is read.  A page asks for the rows below a cursor and gets the    *)
(* cursor of the next page with them; the cursors it came by are its stack.*)
(* Each page is a query of its own, so one of them may be older than the   *)
(* next.  The audit log goes back to the first page when a filter changes, *)
(* the dead-letter list when its Apply button is pressed.                  *)
(***************************************************************************)
EXTENDS QueryCache, Sequences, FiniteSets

CONSTANTS
    Rows,       \* rows are 1..Rows, in the order of the server: the last comes first
    PageSize,
    Filter,     \* what a user may filter by
    Valid,      \* the filters that are sent: no other reaches the server
    Matching,   \* [Filter -> rows the server selects]
    All,        \* the filter of a page just opened
    Limits      \* how much may happen: [page, gotos, reads, changes, faults]

(* What the parameters are assumed to be.                                  *)
Parameters == /\ Rows \in Nat /\ PageSize \in Nat \ {0}
              /\ None \notin 1..Rows /\ All \in Filter

ASSUME PagingParameters == Parameters

VARIABLES
    limit,      \* the member of Limits that bounds this behaviour
    filter, stack,                   \* the page: its filter and its cursors
    entries,    \* the query cache, by filter and cursor
    rows,       \* the server's table
    walk,       \* no state of the page: the rows owed to this walk through its pages, and those seen
    used        \* what has happened of the limit

pagingVars == <<limit, filter, stack, entries, rows, walk, used>>

Row == 1..Rows
Cursor(s) == IF s = <<>> THEN None ELSE s[Len(s)]
Key == Filter \X (Row \union {None})
Current == <<filter, Cursor(stack)>>

-----------------------------------------------------------------------------
(* What the server answers from the rows that match.  An entry holds all   *)
(* of these, so that it tells what a page left out.                        *)

Below(all, c) == IF c = None THEN all ELSE {r \in all : r < c}

Items(all, c) == {r \in Below(all, c) : Cardinality({s \in Below(all, c) : s > r}) < PageSize}

NextCursor(all, c) ==
    IF Items(all, c) = Below(all, c) THEN None
    ELSE CHOOSE r \in Items(all, c) : \A s \in Items(all, c) : r <= s

-----------------------------------------------------------------------------
(* What is on the screen, and the walk through the pages: it starts on the *)
(* first one and with every filter that takes effect.                      *)

ShownOf(es, f, s) == LET e == es[<<f, Cursor(s)>>] IN IF Surface(e) = "success" THEN e.data ELSE None
Shown == ShownOf(entries, filter, stack)

Start == [state |-> "fresh", owed |-> {}, seen |-> {}]
Off == [Start EXCEPT !.state = "off"]

Looked(w, all, c) ==
    IF all = None \/ w.state = "off" THEN w
    ELSE [state |-> "on",
          owed |-> IF w.state = "fresh" THEN all ELSE w.owed \intersect all,
          seen |-> w.seen \union Items(all, c)]

Look(w) == walk' = Looked(w, ShownOf(entries', filter', stack'), Cursor(stack'))

PagingInit ==
    /\ limit \in Limits /\ filter = All /\ stack = <<>> /\ rows = Row /\ walk = Start
    /\ entries = [k \in Key |-> IF k = <<All, None>> THEN Requested(Blank) ELSE Blank]
    /\ used = [gotos |-> 0, reads |-> 0, changes |-> 0, faults |-> 0]

Spend(what) == used[what] < limit[what] /\ used' = [used EXCEPT ![what] = @ + 1]

(* The component renders with another key: its entry is observed.          *)
Goto(f, s, w) ==
    /\ Spend("gotos") /\ filter' = f /\ stack' = s
    /\ \E aged \in BOOLEAN :
          entries' = [entries EXCEPT ![<<f, Cursor(s)>>] = IF f \in Valid THEN Observed(@, aged) ELSE @]
    /\ Look(w) /\ UNCHANGED <<limit, rows>>

From(s) == IF s = <<>> THEN Start ELSE walk

-----------------------------------------------------------------------------
(* The user.  The paging buttons are there while rows are on the screen.   *)

SetFilterKeepingPages(f) == limit.page = "audit" /\ Goto(f, stack, Start)

SetAuditFilter(f) == limit.page = "audit" /\ Goto(f, <<>>, Start)

(* A filter of the dead-letter list changes what is asked for at once, and *)
(* leaves the cursor: there is a walk again once Apply is pressed.         *)
SetDlqFilter(f) == limit.page = "dlq" /\ Goto(f, stack, IF stack = <<>> THEN Start ELSE Off)

ApplyFilters == limit.page = "dlq" /\ Goto(filter, <<>>, Start)

GoNext ==
    /\ Shown # None /\ NextCursor(Shown, Cursor(stack)) # None
    /\ Goto(filter, Append(stack, NextCursor(Shown, Cursor(stack))), walk)

GoPrev ==
    /\ Surface(entries[Current]) = "success" /\ stack # <<>>
    /\ LET s == SubSeq(stack, 1, Len(stack) - 1) IN Goto(filter, s, From(s))

Reopen == Goto(All, <<>>, Start)

Fetch(e) ==
    /\ filter \in Valid /\ e # entries[Current]
    /\ entries' = [entries EXCEPT ![Current] = e]
    /\ UNCHANGED <<limit, filter, stack, rows, used>> /\ Look(walk)

TryAgain == Surface(entries[Current]) = "error" /\ Fetch(Refetched(entries[Current]))

(* Every 30 s, unless a request is in flight.                              *)
Poll == limit.page = "audit" /\ entries[Current].request = "idle" /\ Fetch(Requested(entries[Current]))

Focus == entries[Current].request = "idle" /\ Fetch(Requested(entries[Current]))

(* A retry or a discard has been answered: see Desk.                       *)
Marked ==
    /\ limit.page = "dlq" /\ Spend("changes")
    /\ entries' = [k \in Key |-> IF entries[k] = Blank THEN Blank
                                 ELSE Invalidated(entries[k], k = Current)]
    /\ UNCHANGED <<limit, filter, stack, rows>> /\ Look(walk)

-----------------------------------------------------------------------------
(* The server and the cache.                                               *)

RowsChange ==
    /\ Spend("changes") /\ \E r \in Row : rows' = (rows \ {r}) \union ({r} \ rows)
    /\ UNCHANGED <<limit, filter, stack, entries, walk>>

ServerReads(k) ==
    /\ entries[k].request = "asked" /\ Spend("reads")
    /\ entries' = [entries EXCEPT ![k] = ReadAt(@, rows \intersect Matching[k[1]])]
    /\ UNCHANGED <<limit, filter, stack, rows>> /\ Look(walk)

Answer(k) ==
    /\ entries[k].request = "read" /\ entries' = [entries EXCEPT ![k] = Answered(@)]
    /\ UNCHANGED <<limit, filter, stack, rows, used>> /\ Look(walk)

(* Also what the server says of a cursor that has expired.                 *)
AnswerFails(k) ==
    /\ entries[k].request # "idle" /\ Spend("faults")
    /\ entries' = [entries EXCEPT ![k] = Failed(@)]
    /\ UNCHANGED <<limit, filter, stack, rows>> /\ Look(walk)

(* An entry nobody observes is dropped after five minutes.                 *)
Forget(k) ==
    /\ k # Current /\ entries[k].request = "idle" /\ entries[k] # Blank
    /\ entries' = [entries EXCEPT ![k] = Blank]
    /\ UNCHANGED <<limit, filter, stack, rows, walk, used>>

-----------------------------------------------------------------------------
PagingNext ==
    \/ (\E f \in Filter : SetAuditFilter(f) \/ SetDlqFilter(f))
    \/ ApplyFilters \/ GoNext \/ GoPrev \/ Reopen
    \/ TryAgain \/ Poll \/ Focus \/ Marked \/ RowsChange
    \/ (\E k \in Key : ServerReads(k) \/ Answer(k) \/ AnswerFails(k) \/ Forget(k))

PagingSpec == PagingInit /\ [][PagingNext]_pagingVars

-----------------------------------------------------------------------------
(* Paging to the end misses nothing.  When the last page of a walk is on   *)
(* the screen, every row that matched whenever a page of the walk was read *)
(* has been on one of its pages: whatever was added and removed meanwhile, *)
(* however old the cached pages, and whatever filters were tried before.   *)
NoRowSkipped ==
    walk.state = "on" /\ Shown # None /\ NextCursor(Shown, Cursor(stack)) = None
    => walk.owed \subseteq walk.seen
=============================================================================
