SPECIFICATION Spec
CONSTANTS
  a = a
  b = b
  c1 = c1
  c2 = c2
  x = x
  y = y
  None = None
  Branch <- TwoBranches
  Length = 2
  Completer <- TwoCompleters
  Canceller <- TwoCancellers

INVARIANTS TokensTrailTasks CompletedMeansDone NothingOpenAfterCancel LogMatchesRows LossNeedsStaleCopy
PROPERTIES TerminalIsFinal
CHECK_DEADLOCK FALSE
