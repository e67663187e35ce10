------------------------------ MODULE MCEditor ------------------------------
(* A small designer: one gateway, one sub-process, a history of two.  Long *)
(* editing, failing queries, a save that meets other users and overlapping *)
(* saves are explored apart: each budget is a family of behaviours.        *)
EXTENDS Editor, TLC

Budget(e, s, v, o, f, j) == [edits |-> e, saves |-> s, visits |-> v, others |-> o,
                             fails |-> f, jumps |-> j]

MCBudgets == {Budget(3, 0, 1, 0, FALSE, FALSE), Budget(2, 0, 1, 0, TRUE, TRUE),
              Budget(1, 1, 1, 1, FALSE, FALSE), Budget(0, 2, 1, 0, TRUE, TRUE),
              Budget(2, 1, 1, 0, FALSE, FALSE)}

OneSave == {Budget(2, 1, 1, 0, FALSE, FALSE)}
=============================================================================
