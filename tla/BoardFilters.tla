---------------------------- MODULE BoardFilters ----------------------------
(***************************************************************************)
(* The filters of the instance board.  They live in the address; the start *)
(* dialog types into the same address, and starts the definition found     *)
(* there, whatever its own name field reads.  Versions come from a query.  *)
(***************************************************************************)
EXTENDS Naturals

CONSTANTS
    Definition,   \* the active definitions; each is its own name and version
    Typed,        \* other texts a user may type
    Status,       \* the statuses to filter by
    Nothing       \* no name, no definition, no cursor

VARIABLES
    address,      \* [statuses, name, id, cursor]: a cursor is the filters it was handed out for
    offered,      \* the definitions the typeahead has loaded
    active,       \* the definition whose version the query of the address holds
    start,        \* the start dialog: [open, name, version]
    borrowed      \* no state of the page: the dialog has put a definition
                  \* into the address since the cursor was handed out

boardVars == <<address, offered, active, start, borrowed>>

Filters == [statuses |-> address.statuses, id |-> address.id]

BoardInit ==
    /\ address = [statuses |-> {}, name |-> Nothing, id |-> Nothing, cursor |-> Nothing]
    /\ offered = {} /\ active = Nothing
    /\ start = [open |-> FALSE, name |-> Nothing, version |-> Nothing] /\ borrowed = FALSE

(* A new id has no version until its query is answered; the effect on both *)
(* copies what there is into the dialog.                                   *)
Goto(a) ==
    /\ address' = a
    /\ active' = IF a.id = address.id THEN active ELSE Nothing
    /\ start' = IF a.id = address.id THEN start ELSE [start EXCEPT !.version = Nothing]

-----------------------------------------------------------------------------
(* The filter bar.                                                         *)

Toggled(s) == IF s \in address.statuses THEN address.statuses \ {s} ELSE address.statuses \union {s}

StatusToggle(s) ==
    /\ Goto([address EXCEPT !.statuses = Toggled(s), !.cursor = Nothing])
    /\ UNCHANGED <<offered, borrowed>>

InputKeepingDefinition(text) ==
    /\ Goto([address EXCEPT !.name = text, !.cursor = Nothing])
    /\ offered' = {} /\ borrowed' = FALSE

(* Typing drops the definition; the typeahead asks for the new text.       *)
DefinitionInput(text) ==
    /\ Goto([address EXCEPT !.name = text, !.id = Nothing, !.cursor = Nothing])
    /\ offered' = {} /\ borrowed' = FALSE

(* Leaving the field picks the definition of exactly that name.            *)
ResolveDefinition ==
    /\ address.name \in offered
    /\ Goto([address EXCEPT !.id = address.name, !.cursor = Nothing])
    /\ borrowed' = FALSE /\ UNCHANGED offered

TypeaheadAnswers ==
    /\ \E ds \in SUBSET Definition : offered' = ds
    /\ UNCHANGED <<address, active, start, borrowed>>

VersionAnswers ==
    /\ address.id # Nothing /\ active # address.id /\ active' = address.id
    /\ start' = [start EXCEPT !.version = address.id]
    /\ UNCHANGED <<address, offered, borrowed>>

-----------------------------------------------------------------------------
(* Paging: the cursor comes with the page that is shown.                   *)

NextPage ==
    /\ Goto([address EXCEPT !.cursor = Filters])
    /\ borrowed' = FALSE /\ UNCHANGED offered

FirstPage ==
    /\ address.cursor # Nothing /\ Goto([address EXCEPT !.cursor = Nothing])
    /\ UNCHANGED <<offered, borrowed>>

-----------------------------------------------------------------------------
(* The start dialog.                                                       *)

OpenStart ==
    /\ start' = [open |-> TRUE, name |-> address.name, version |-> active]
    /\ UNCHANGED <<address, offered, active, borrowed>>

(* The exact name of an offered definition puts it into the address, where *)
(* the cursor stays; any other text leaves the address alone.              *)
StartNameInput(text) ==
    /\ start.open
    /\ IF text \in offered
       THEN LET a == [address EXCEPT !.name = text, !.id = text]
            IN /\ address' = a /\ active' = IF a.id = address.id THEN active ELSE Nothing
               /\ start' = [start EXCEPT !.name = text,
                                         !.version = IF a.id = address.id THEN text ELSE Nothing]
               /\ borrowed' = (a # address \/ borrowed)
               /\ offered' = IF a.name = address.name THEN offered ELSE {}
       ELSE /\ start' = [start EXCEPT !.name = text, !.version = Nothing]
            /\ UNCHANGED <<address, active, offered, borrowed>>

CloseStart ==
    /\ start.open /\ start' = [start EXCEPT !.open = FALSE]
    /\ UNCHANGED <<address, offered, active, borrowed>>

-----------------------------------------------------------------------------
Text == Definition \union Typed
BoardNext ==
    \/ (\E s \in Status : StatusToggle(s))
    \/ (\E text \in Text \union {Nothing} : DefinitionInput(text) \/ StartNameInput(text))
    \/ ResolveDefinition \/ TypeaheadAnswers \/ VersionAnswers
    \/ NextPage \/ FirstPage \/ OpenStart \/ CloseStart

BoardSpec == BoardInit /\ [][BoardNext]_boardVars

(* What is in the address fits together, across typing, picking, answers   *)
(* that come late and a dialog that writes to it: the definition that a    *)
(* start would take is the named one, the version next to it is its own,   *)
(* and the cursor was handed out under these filters, unless the dialog    *)
(* has exchanged the definition since.                                     *)
AddressFits ==
    /\ address.id # Nothing => address.name = address.id
    /\ start.version # Nothing => start.version = address.id
    /\ address.cursor # Nothing /\ ~borrowed => address.cursor = Filters
=============================================================================
