CONSTANTS
    MaxProcs = 4
    BaseBackoff = 3
    MaxBackoff = 5
SPECIFICATION FairSpec
INVARIANTS
    OneInstance
    ExitsHeard
PROPERTIES
    StopIsFinal
    ExitIsAnswered
    CallsReturn
\* After Stop nothing is left to do.
CHECK_DEADLOCK FALSE
