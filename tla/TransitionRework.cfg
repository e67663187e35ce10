SPECIFICATION KernelSpec
CONSTANTS
  Node <- ReworkNode
  Kind <- ReworkKind
  Out <- ReworkOut
  Default <- ReworkDefault
  SyncInline = {}
  Start = "S"
  MaxToken = 20
INVARIANTS EnteredTaskHasRow
CHECK_DEADLOCK FALSE
