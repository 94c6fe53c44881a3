SPECIFICATION FairSpec
CONSTANTS
    Callers = {a, b, c}
    Kinds = {"sweeper", "compactor"}
    MaxStarts = 3
INVARIANTS
    NoJoinUnderLock
    NoOrphans
PROPERTIES
    CallsReturn
    KeepsPromise
