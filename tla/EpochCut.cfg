SPECIFICATION Spec
CONSTANTS
    r1 = r1
    r2 = r2
    r3 = r3
    r4 = r4
    base = base
    Requests = {r1}
    Kind <- MCKind
    Effect <- MCEffect
    Specs <- MCSpecs
    EmptyBase = EmptyBase
    NoFabric = NoFabric
    NoRequest = NoRequest
    NoSnapshot = NoSnapshot
    NoLease = NoLease
    NoPending = NoPending
    MaxRecords = 3
    MaxSegments = 1
    MaxFileRecords = 100
    MaxReplay = 100
    MaxFaults = 0
    RemovalsFail = FALSE
    MaxDedup = 1
    MaxStarts = 3
    MaxInstalls = 0
    MaxGrants = 1
    Compacting = FALSE
    Expiring = FALSE
INVARIANT EpochAdvances
CHECK_DEADLOCK FALSE
