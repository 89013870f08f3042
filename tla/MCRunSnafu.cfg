SPECIFICATION FairSpec
CONSTANTS
  k1 = k1
  k2 = k2
  ceph = ceph
  Torn = Torn
  Corrupt = Corrupt
  CachePods = {k1, k2}
  Ceph = ceph
  Work <- MCWork
  PodLists <- MCPodLists
  Environments <- MCEnvironments
  MaxRuns = 2
INVARIANTS
  RunInv
  ColdStart
  BackupComplete
  RestoredOnOk
  NamedIndexKept
PROPERTIES
  EveryRunEnds
CHECK_DEADLOCK FALSE
