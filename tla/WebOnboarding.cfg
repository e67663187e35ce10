SPECIFICATION Spec
CONSTANTS
    k1 = k1
    k2 = k2
    fa = fa
    fb = fb
    Key <- MCKey
    Form <- MCForm
    SlugOf <- MCSlug
    HostOf <- MCHost
    Budgets <- MCBudgets
    MaxAsked = 2
    Empty = Empty
    None = None
INVARIANTS CompletedIsWhole NoLeakedTimer
PROPERTIES OutcomeShown
CHECK_DEADLOCK FALSE
