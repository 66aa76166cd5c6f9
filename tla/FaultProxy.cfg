CONSTANTS
    r1 = r1
    r2 = r2
    Requests = {r1, r2}
    Specs <- AllSpecs
    MaxFaults = 2
    MaxTime = 2
SPECIFICATION FairSpec
INVARIANTS
    FaultLimits
PROPERTIES
    RetiredForGood
    RemovedFaultEnds
    StopEnds
\* The target need not send another request, nor the runner another fault.
CHECK_DEADLOCK FALSE
