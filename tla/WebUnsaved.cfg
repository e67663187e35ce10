SPECIFICATION Spec
CONSTANTS
    Gateways = {g}
    SubProcesses = {s}
    Def = {d1}
    New = New
    None = None
    MaxDepth = 2
    Budgets <- OneSave
INVARIANTS UnsavedIsGuarded
CHECK_DEADLOCK FALSE
