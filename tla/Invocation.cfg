SPECIFICATION Spec
CONSTANTS
    NRuns = 3
    ClusterFixtures = {"f", "g"}
    Bugs = {1, 2}
INVARIANTS FilesHonest ExitTells
