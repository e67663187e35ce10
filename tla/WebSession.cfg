SPECIFICATION MCSpec
CONSTANTS
    Token = {t1, t2}
    Nothing = Nothing
    None = None
    Rows = 5
    PageSize = 2
    Filter <- ThreeFilters
    Valid <- TwoSent
    Matching <- MCMatching
    All = everything
    Limits <- MCLimits
    everything = everything
    some = some
    unsent = unsent
INVARIANTS NoSilentAnonymity NoRowSkipped
PROPERTIES OnlyCallbackSignsIn GuardRedirects
CHECK_DEADLOCK FALSE
