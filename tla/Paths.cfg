SPECIFICATION FairSpec
CONSTANTS
    Limits <- MCLimits
    Initial <- MCInitial
    Installs <- MCInstalls
    Commands <- MCCommands
    Questions <- MCQuestions
    MaxCombinations = 2
    LeaseTime = 1
    PathTime = 2
    MaxTime = 2
    MaxLeases = 1
    MaxCommands = 2
    MaxInstalls = 1
    MaxStarts = 2
    MaxCalls = 1
INVARIANTS
    AuthorityStandsOnTopology
    HolderKeepsAuthority
PROPERTIES
    LapsedLeaseEnds
    HealthConverges
