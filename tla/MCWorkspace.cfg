SPECIFICATION Spec
CONSTANTS
    Rounds <- MCRounds
    OpeningScenarios <- MCOpeningScenarios
    Retained = 2
    MaxCachedRuns = 1
    MaxDeaths = 1
    DefaultFrame = "forty"
    None = None
CHECK_DEADLOCK FALSE
INVARIANTS
    SandboxWhole
    PileIsComparable
PROPERTIES
    SaveLeavesTheAnchor
    ImplementsShelf
