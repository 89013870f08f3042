SPECIFICATION Spec
CONSTANTS
  PerSecond = 1
  Total = 3
  Tolerance = 1
  Timeouts = {0}
  Partitions = 2
  Old = "4.11"
  New = "4.12"
  WaitTries = 3
  UpTimeouts = {0}
  NSets = 2
  Names = {0, 1, 2, 3, 4}
  Owner <- MCOwner
  Infra = {0}
  Scales = {0, 1, 3}
  Subscribers = {"s1", "s2", "s3"}
  pod_count = 3
INVARIANT
  DrainedBeforeCount
