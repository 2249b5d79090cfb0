CONSTANTS
  n1 = n1
  n2 = n2
  None = None
  Milli = 1
  MinInterval = 1
  MissedCap = 8
  Node <- OneNode
  Sched = {1}
  JobsOf <- OneJobs
  Specs <- Managed
  BatchSize = 2
  MaxConcurrent = 2
  SweepBatch = 2
  HeartbeatInterval = 0
  AbandonedAfter = 0
  MisfireThreshold = 0
  Retention = 1
  Skew <- OneSkew
  MaxRun = 2
  MaxManual = 1
  MaxTime = 2
SPECIFICATION Spec
INVARIANTS NoOrphanRequest OccurrenceOnce CursorIsOccurrence LastFireJournaled JournalInv
CHECK_DEADLOCK FALSE
