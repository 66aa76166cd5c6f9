CONSTANTS
    r1 = r1
    r2 = r2
    Requests = {r1, r2}
    Specs <- AllSpecs
    MaxFaults = 1
    MaxTime = 3
    MaxOps = 1
SPECIFICATION TimelineSpec
INVARIANTS
    DroppedIsFinal
    WindowHoldsRemoved
CHECK_DEADLOCK FALSE
