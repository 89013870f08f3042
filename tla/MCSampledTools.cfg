CONSTANTS
  Samples = 2
  Retries = 2
  MaxDocs = 2
SPECIFICATION FairSpec
INVARIANTS SampledInv SampleRecord FreshResults DoneMeansAll
PROPERTY EveryToolEnds
CHECK_DEADLOCK FALSE
