SPECIFICATION FairSpec
CONSTANTS
    NoKey = NoKey
    MaxOps = 3
    CRNames <- MCCRNames
    Values = {0, 1, 2, 4}
    Refuses <- MCRefuses
    Kinds <- MCKinds
    Fixtures = {"f"}
    Updatable = {"f"}
    NoFaults = FALSE
    MinFault = 2
    Keys = {"a", "b", "kid", "f", "g"}
    Given <- MCGiven
    Leasts = {0, 3}
    MaxNeeds = 2
INVARIANTS DrawnIsLegal DrawnIsJudged EndsWhereItDid Minimal
PROPERTIES ShrinkEnds
