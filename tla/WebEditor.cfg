SPECIFICATION Spec
CONSTANTS
    Gateways = {g}
    SubProcesses = {s}
    Def = {d1}
    New = New
    None = None
    MaxDepth = 2
    Budgets <- MCBudgets
INVARIANTS HistoryBounded
PROPERTIES OneLine ConflictKeepsEdits
CHECK_DEADLOCK FALSE
