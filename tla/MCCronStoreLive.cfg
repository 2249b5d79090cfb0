CONSTANTS
  n1 = n1
  n2 = n2
  None = None
  Milli = 1
  MinInterval = 1
  MissedCap = 8
  Node <- MCNode
  Sched = {1}
  JobsOf <- MCJobs
  Specs <- TwiceRecover
  BatchSize = 2
  MaxConcurrent = 1
  SweepBatch = 2
  HeartbeatInterval = 1
  AbandonedAfter = 2
  MisfireThreshold = 9
  Retention = None
  Skew <- AheadSkew
  MaxRun = 4
  MaxManual = 0
  MaxTime = 4
SPECIFICATION LiveSpec
INVARIANTS HandlersExclusive
PROPERTIES OwnedRunsNotTaken OrphanTakenOver RecoveryServed
CHECK_DEADLOCK FALSE
