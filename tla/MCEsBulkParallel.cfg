SPECIFICATION FairSpec
CONSTANTS
  i1 = i1
  i2 = i2
  w1 = w1
  w2 = w2
  NDocs = 3
  Ids <- MCIds
  IdOf <- MCIdOf
  Workers <- MCWorkers
  QueueSize = 1
  MaxFaults = 2
INVARIANT
  ParallelInv
PROPERTIES
  ImplementsLedger
  EndsUnlessExited
CHECK_DEADLOCK FALSE
