SPECIFICATION Spec
CONSTANTS
    r1 = r1
    r2 = r2
    r3 = r3
    r4 = r4
    base = base
    Requests = {r1}
    Kind <- MCKind
    Effect <- MCEffect
    Specs <- MCSpecs
    EmptyBase = EmptyBase
    NoFabric = NoFabric
    NoRequest = NoRequest
    NoSnapshot = NoSnapshot
    NoLease = NoLease
    NoPending = NoPending
    MaxRecords = 4
    MaxSegments = 4
    MaxFileRecords = 100
    MaxReplay = 100
    MaxFaults = 0
    RemovalsFail = FALSE
    MaxDedup = 2
    MaxStarts = 2
    MaxInstalls = 0
    MaxGrants = 2
    Compacting = TRUE
    Expiring = FALSE
INVARIANT ExactlyOnce
CHECK_DEADLOCK FALSE
