SPECIFICATION Spec
CONSTANTS
    None = None
    Milli = 2
    MinInterval = 1
    MissedCap = 2
    Timings <- MCTimings
    Misfires = {"fire_now", "skip"}
    MisfireThreshold = 2
    MaxClock = 12
INVARIANTS
    EachOccurrenceOnce
PROPERTIES
    ClaimsGoForward
CHECK_DEADLOCK FALSE
