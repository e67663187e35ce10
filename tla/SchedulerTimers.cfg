SPECIFICATION FairSpec
CONSTANTS
  s = s
  p = p
  m = m
  n = n
  c = c
  x = x
  None = None
  Series <- TwoSeries
  Poison <- OnePoison
  Total = 2
  Limit = 1
  Node <- TwoNodes
  Completer <- OneCompleter
  Canceller <- OneCanceller
  MaxFaults = 1

INVARIANTS FiredOnce ClosedHasNoPending SeriesContinues RetriedFirst
PROPERTIES SettledForGood EveryTimerSettles
CHECK_DEADLOCK FALSE
