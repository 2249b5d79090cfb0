CONSTANTS
  n1 = n1
  n2 = n2
  None = None
  Milli = 1
  MinInterval = 1
  MissedCap = 8
  Node <- MCNode
  Sched = {1}
  JobsOf <- MCJobs
  Specs <- ForbidRecover
  BatchSize = 2
  MaxConcurrent = 2
  SweepBatch = 2
  HeartbeatInterval = 0
  AbandonedAfter = 0
  MisfireThreshold = 9
  Retention = None
  Skew <- MCSkew
  MaxRun = 3
  MaxManual = 1
  MaxTime = 2
SPECIFICATION FailureSpec
SYMMETRY Symmetry
INVARIANTS EventsMatchJournal RequeuedOnce RecoveryKept SlotsBounded
PROPERTIES ForbidNeverOverlaps TerminalIsFinal
CHECK_DEADLOCK FALSE
