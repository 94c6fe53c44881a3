SPECIFICATION Spec
CONSTANTS
    r1 = r1
    r2 = r2
    r3 = r3
    r4 = r4
    base = base
    Requests = {r1, r3, r4}
    Kind <- MCKind
    Effect <- MCEffect
    Specs <- MCSpecs
    EmptyBase = EmptyBase
    NoFabric = NoFabric
    NoRequest = NoRequest
    NoSnapshot = NoSnapshot
    NoLease = NoLease
    NoPending = NoPending
    MaxRecords = 6
    MaxSegments = 4
    MaxFileRecords = 100
    MaxReplay = 100
    MaxFaults = 1
    RemovalsFail = FALSE
    MaxDedup = 3
    MaxStarts = 3
    MaxInstalls = 0
    MaxGrants = 2
    Compacting = FALSE
    Expiring = FALSE
INVARIANT OnceUntilSnapshot
INVARIANT EvidenceAttribution
CHECK_DEADLOCK FALSE
