CONSTANTS
    MaxProcs = 3
    BaseBackoff = 3
    MaxBackoff = 5
SPECIFICATION Spec
INVARIANT StatusTellsAlive
CHECK_DEADLOCK FALSE
