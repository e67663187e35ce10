SPECIFICATION Spec
CONSTANTS
  k1 = k1
  k2 = k2
  Consumer <- TwoConsumers
  Correlation <- TwoCorrelations
  MaxSeq = 3
  Hash <- HashCollides
  Lost <- NothingLost
  Faulty <- TwoConsumers
  SweeperFails = TRUE
CHECK_DEADLOCK FALSE
SYMMETRY ConsumerSymmetry
INVARIANTS
  AppliedPrefix
  ReportedIsSettled
PROPERTIES
  InOrderApplication
