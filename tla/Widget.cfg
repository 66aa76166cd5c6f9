SPECIFICATION Spec
CONSTANTS
    MaxCount = 2
    MaxWidgets = 3
    MaxOps = 3
    MaxMishaps = 1
INVARIANTS NoOrphans QuietIsRight
PROPERTIES ComesToRest
