------------------------------- MODULE MCDesk -------------------------------
(* Each page on its own: two operations of the user, changes by others, a  *)
(* failure, and the page left and opened again.                            *)
EXTENDS Desk

Budget(page, starts, withPanel, ageing, sending, others, failing, visiting) ==
    [page |-> page, starts |-> starts, panel |-> withPanel, ages |-> ageing, sends |-> sending,
     others |-> others, faults |-> failing, visits |-> visiting, routed |-> TRUE]
AsRouted(b) == [b EXCEPT !.routed = FALSE]

MCBudgets ==
    {Budget("dlq", {"pending"}, FALSE, TRUE, 2, 1, 1, 2),
     Budget("inbox", {"queued", "mine", "taken"}, TRUE, TRUE, 1, 0, 1, 1),
     Budget("inbox", {"queued"}, FALSE, TRUE, 0, 1, 1, 2),
     Budget("tenants", {"active", "paused"}, FALSE, TRUE, 2, 1, 1, 1),
     Budget("tenant", {"active"}, FALSE, TRUE, 1, 1, 1, 2),
     Budget("groups", {"active", "full"}, TRUE, FALSE, 2, 0, 0, 1),
     AsRouted(Budget("groups", {"active"}, TRUE, FALSE, 1, 0, 0, 1)),
     Budget("tokens", {"active"}, FALSE, TRUE, 2, 0, 0, 1),
     Budget("services", {"active"}, FALSE, TRUE, 2, 0, 0, 1),
     Budget("webhooks", {"active", "paused"}, FALSE, FALSE, 2, 1, 0, 1),
     Budget("users", {"active"}, TRUE, FALSE, 2, 0, 0, 1),
     AsRouted(Budget("users", {"active"}, TRUE, TRUE, 1, 0, 0, 1)),
     Budget("definitions", {"draft", "active"}, TRUE, TRUE, 1, 0, 0, 2),
     Budget("definitions", {"draft"}, TRUE, FALSE, 2, 0, 0, 1),
     Budget("search", {"draft", "deprecated"}, TRUE, FALSE, 2, 0, 0, 1),
     Budget("modules", {"draft", "full"}, TRUE, FALSE, 2, 0, 0, 1)}
=============================================================================
