------------------------------ MODULE MCSession ------------------------------
(* Two tokens: the one the client holds and the one a renewal brings, or   *)
(* that of a request sent before the page signed in again.  The paged      *)
(* lists are a family of behaviours of their own: two filters that are     *)
(* sent and one that is not, five rows in pages of two, up to three pages  *)
(* read and a row added or removed.                                        *)
EXTENDS Session, Paging, TLC

CONSTANTS everything, some, unsent

VARIABLE paging

Limit(page, gotos, reads, changes, failing) ==
    [page |-> page, gotos |-> gotos, reads |-> reads, changes |-> changes, faults |-> failing]

Longest == Limit("audit", 4, 3, 1, 0)

MCLimits == {Longest, Limit("dlq", 3, 3, 1, 0),
             Limit("audit", 2, 1, 1, 1), Limit("dlq", 2, 2, 0, 1)}
MCMatching == everything :> 1..5 @@ some :> {1, 3, 4} @@ unsent :> {}
ThreeFilters == {everything, some, unsent}
TwoSent == {everything, some}

MCInit == paging \in BOOLEAN /\ Init /\ PagingInit /\ (~paging => limit = Longest)

MCNext == \/ ~paging /\ Next /\ UNCHANGED <<paging, pagingVars>>
          \/ paging /\ PagingNext /\ UNCHANGED <<paging, vars>>

MCSpec == MCInit /\ [][MCNext]_<<vars, paging, pagingVars>> /\ Fairness
=============================================================================
