SPECIFICATION Spec
CONSTANTS
    Slots = 2
    Budgets <- MCBudgets
    None = None
INVARIANTS OwnWorkShown NothingClaimedInVain
PROPERTIES InboxCatchesUp
CHECK_DEADLOCK FALSE
