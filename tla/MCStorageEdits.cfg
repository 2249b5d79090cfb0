CONSTANTS
  k1 = k1
  k2 = k2
  r1 = r1
  h1 = h1
  h2 = h2
  s1 = s1
  w1 = w1
  w2 = w2
  e1 = e1
  e2 = e2
  None = None
  Key <- OneKey
  Row <- OneRow
  Handler <- OneHandler
  Sweeper <- Nobody
  Worker <- Nobody
  Editor <- TwoEditors
  PartCount = 1
  MaxPendingClaims = 1
  ClaimTTL = 0
  SweepInterval = 0
  SweepBatchSize = 1
  OrphanRetention = 1
  DeleteBatchSize = 2
  DeleteLeaseWindow = 1
  DeleteMaxAttempts = 2
  BaseBackoff = 1
  MaxBackoff = 1
  MaxFaults = 0
SPECIFICATION MCSpec
INVARIANT ReferencedKept
CHECK_DEADLOCK FALSE
