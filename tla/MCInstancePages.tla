--------------------------- MODULE MCInstancePages ---------------------------
(* Two cancellations, so that one can meet the other's optimistic status;  *)
(* a start; a timeline of two pages; pages left and opened again; the      *)
(* board's filters.  Each budget is a family of behaviours of its own.     *)
EXTENDS InstancePages, BoardFilters

CONSTANTS c1, c2, s1, d1, d2, t1, u1

TwoCancels == {c1, c2}
OneStart == {s1}
TwoDefinitions == {d1, d2}
OneText == {t1}
OneStatus == {u1}
Tabs == {"history", "graph", "timeline"}

Budget(c, s, t, v, f) == [cancels |-> c, starts |-> s, tabs |-> t, visits |-> v, faults |-> f]
OnlyFilters == Budget({}, {}, {}, 0, 0)

MCBudgets == {Budget({c1, c2}, {}, {}, 3, 0), Budget({c1}, {}, {"graph"}, 1, 1),
              Budget({}, {}, Tabs, 3, 1), Budget({c1}, {s1}, {}, 2, 0),
              Budget({}, {s1}, {}, 2, 1), Budget({}, {s1}, {"timeline"}, 2, 0), OnlyFilters}

MCInit == Init /\ BoardInit
MCNext == \/ budget # OnlyFilters /\ Next /\ UNCHANGED boardVars
          \/ budget = OnlyFilters /\ BoardNext /\ UNCHANGED vars

MCSpec == MCInit /\ [][MCNext]_<<vars, boardVars>> /\ Fairness
=============================================================================
