SPECIFICATION FairSpec
CONSTANTS
  Node <- GraphsNode
  Kind <- GraphsKind
  Out <- GraphsOut
  Default <- GraphsDefault
  SyncInline <- GraphsSyncInline
  Start = "S"
  MaxToken = 20
INVARIANTS
  TasksMatchTokens OneTokenPerBranch SingleIntent ArrivedTokensLeave CompletedIsClean ActiveHasToken
PROPERTIES EveryInstanceEnds
CHECK_DEADLOCK FALSE
