SPECIFICATION FairSpec
CONSTANTS
  k1 = k1
  k2 = k2
  Consumer <- OneConsumer
  Correlation <- TwoCorrelations
  MaxSeq = 3
  Hash <- HashDistinct
  Lost <- TailLost
  Faulty <- NoConsumer
  SweeperFails = FALSE
CHECK_DEADLOCK FALSE
PROPERTIES
  EveryRowSettles
