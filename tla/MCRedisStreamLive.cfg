SPECIFICATION FairSpec
CONSTANTS
    Length = 2
    Poison = {}
    Proc = {p1, p2}
    Permanent = {p1, p2}
    MaxSubs = 2
    ClaimIdle = 1
    BatchSize = 1
    Retention = 0
    MaxFaults = 1
    None = None
INVARIANTS
    NothingDropped
PROPERTIES
    EveryHandled
CHECK_DEADLOCK FALSE
