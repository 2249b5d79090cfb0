CONSTANTS
  w1 = w1
  w2 = w2
  None = None
  Event = {1, 2}
  Worker <- Two
  BatchSize = 2
  MaxRetries = 2
  RelayInterval = 1
  LeaseMultiplier = 2
  MinLease = 1
  maxBackoff = 2
  CompletedTTL = 0
  MaxFaults = 0
SPECIFICATION LeaseSpec
INVARIANTS OneDispatcher
CHECK_DEADLOCK FALSE
