CONSTANTS
  d1 = d1
  d2 = d2
  d3 = d3
  k1 = k1
  None = None
  Key <- One
  Delivery <- Three
  Lease = 2
  Retention = 0
  MaxFaults = 2
SPECIFICATION LeaseFairSpec
INVARIANTS AckMeansHandled HandlersExclusive HandledOnce InboxInv
PROPERTIES LockRespected EventuallyHandled
