SPECIFICATION Spec
CONSTANTS
    NoKey = NoKey
    Runs <- MCRuns
    AllFixtures = {"f", "g", "shared"}
    ClusterFixtures = {"shared"}
    ManagedKinds = {"kind"}
    MaxMishaps = 2
INVARIANTS NothingLeft PassIsJudged FixturesRestored 
PROPERTIES BracketSpec RunEnds
