SPECIFICATION Spec
CONSTANTS
  NSamples = 2
  NJobs = 2
  Hosts <- MCHosts
  JobLists <- MCJobLists
  GlobalChoices <- MCGlobals
  Iops <- MCIops
  MaxRuns = 2
  LogPairs <- MCLogPairs
  MsPerSec = 2
  Epoch = 4
  Quanta = {1, 2}
  HistMsecs = {0, 1}
  DriftPods = {"p1", "p2"}
  DriftSamples = 2
  DriftThreads = {1}
  CounterLogs <- MCCounterLogs
  Leftovers <- MCLeftovers
  Durations = {345, 2000, 2345, 60345, 62000, 62345, 3600345, 3662345}
  Services = 4
  ARCHS = {"amd64", "arm64"}
  Tags = {"latest", "4.0"}
  Found <- MCFound
  Diffs <- MCDiffs
INVARIANT
  RunSnafuRebuildsAll
CHECK_DEADLOCK FALSE
