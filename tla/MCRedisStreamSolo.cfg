SPECIFICATION FairSpec
CONSTANTS
    Length = 1
    Poison = {}
    Proc = {p1}
    Permanent = {p1}
    MaxSubs = 1
    ClaimIdle = 1
    BatchSize = 1
    Retention = 0
    MaxFaults = 1
    None = None
PROPERTIES
    NackRetried
CHECK_DEADLOCK FALSE
