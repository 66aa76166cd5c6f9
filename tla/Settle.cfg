CONSTANTS
    Requests = {r1, r2}
    Stable = 1
    SettleTime = 2
    Delay = 1
    Floors = {3}
    OwedBy = 4
    Lag = 1
    MaxStart = 1
    LastChange = 3
    MaxTime = 12
SPECIFICATION Spec
SYMMETRY Symmetry
INVARIANTS
    ConvergedQuiet
    GaveUpInTime
    WaitEnds
\* The wait is over and the target idle.
CHECK_DEADLOCK FALSE
