SPECIFICATION Spec
CONSTANTS
    Keys <- MCKeys
    Kinds <- MCKinds
    KindOf <- MCKindOf
    Watched <- MCWatched
    OwnerChoices <- MCOwnerChoices
    MaxUID = 3
    MaxVersion = 4
    MaxFailures = 1
INVARIANTS LoggedOwnersGone NoSilentDelete
PROPERTY GCSpec
CHECK_DEADLOCK FALSE
