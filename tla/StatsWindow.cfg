SPECIFICATION Spec
CHECK_DEADLOCK FALSE
CONSTANTS
    Event = {e1, e2, e3}
    Windows = {1, 2}
    Minute = 2
    MaxClock = 7
SYMMETRY Symmetry
INVARIANT MemoryExact
INVARIANT MinutesExact
INVARIANT BucketsExact
