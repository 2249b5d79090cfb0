CONSTANTS
  w1 = w1
  w2 = w2
  None = None
  Event = {1, 2}
  Worker <- Two
  BatchSize = 2
  MaxRetries = 2
  RelayInterval = 1
  LeaseMultiplier = 1
  MinLease = 1
  maxBackoff = 1
  CompletedTTL = 0
  MaxFaults = 3
SPECIFICATION LeaseFairSpec
INVARIANTS NothingLost NotStranded BudgetHonoured LeaseExcludes OutboxInv
PROPERTIES Forwards RetriesKept EverySettled
