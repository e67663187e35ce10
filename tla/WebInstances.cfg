SPECIFICATION MCSpec
CONSTANTS
    c1 = c1
    c2 = c2
    s1 = s1
    d1 = d1
    d2 = d2
    t1 = t1
    u1 = u1
    Cancel <- TwoCancels
    Start <- OneStart
    LastSheet = 1
    Budgets <- MCBudgets
    None = None
    Definition <- TwoDefinitions
    Typed <- OneText
    Status <- OneStatus
    Nothing = None
INVARIANTS NoPhantomCancel FeedIsWhole AddressFits
PROPERTIES StatusCatchesUp
CHECK_DEADLOCK FALSE
