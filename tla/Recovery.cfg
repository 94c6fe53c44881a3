SPECIFICATION Spec
CONSTANTS
    r1 = r1
    r2 = r2
    r3 = r3
    r4 = r4
    base = base
    Requests = {r1}
    Kind <- MCKind
    Effect <- MCEffect
    Specs <- MCSpecs
    EmptyBase = EmptyBase
    NoFabric = NoFabric
    NoRequest = NoRequest
    NoSnapshot = NoSnapshot
    NoLease = NoLease
    NoPending = NoPending
    MaxRecords = 4
    MaxSegments = 2
    MaxFileRecords = 4
    MaxReplay = 6
    MaxFaults = 1
    RemovalsFail = FALSE
    MaxDedup = 1
    MaxStarts = 5
    MaxInstalls = 0
    MaxGrants = 2
    Compacting = TRUE
    Expiring = FALSE
INVARIANT Durable
INVARIANT RefusedForCause
INVARIANT EpochAdvancesUncut
CHECK_DEADLOCK FALSE
