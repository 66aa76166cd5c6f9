SPECIFICATION FairSpec
CONSTANTS
    Keys <- MCTwoKeys
    Kinds <- MCTwoKinds
    KindOf <- MCTwoKindOf
    Watched <- MCTwoKinds
    OwnerChoices <- MCTwoOwnerChoices
    MaxUID = 2
    MaxVersion = 3
    MaxFailures = 1
PROPERTY OrphanCollected
CHECK_DEADLOCK FALSE
