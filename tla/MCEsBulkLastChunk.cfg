SPECIFICATION BodySpec
CONSTANTS
  i1 = i1
  i2 = i2
  i3 = i3
  i4 = i4
  NDocs = 5
  Ids <- MCIds
  IdOf <- MCIdOf
  ChunkSize = 2
  MaxFaults = 3
  Shared <- MCShared
INVARIANT NothingLeftToRetry
CHECK_DEADLOCK FALSE
