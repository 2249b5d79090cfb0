SPECIFICATION TimelySpec
CONSTANTS
    Length = 1
    Poison = {}
    Proc = {p1, p2}
    Permanent = {}
    MaxSubs = 2
    ClaimIdle = 2
    BatchSize = 1
    Retention = 2
    MaxFaults = 0
    None = None
SYMMETRY Symmetry
INVARIANTS
    OneHandler
    SubscribersKept
CHECK_DEADLOCK FALSE
