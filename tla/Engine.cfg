SPECIFICATION Spec
CONSTANTS
    Limits <- MCLimits
    Initial <- MCInitial
    Commands <- MCCommands
    Queries <- MCQueries
    MaxCombinations = 2
    PathLimit = 6
    MaxCommands = 3
INVARIANTS
    ClassifiesPaths
    MatchesReference
    Symmetric
    ToleranceHonoured
    GreedyIsBest
    EligibleLeavesServe
    EvidenceMonotone
CHECK_DEADLOCK FALSE
