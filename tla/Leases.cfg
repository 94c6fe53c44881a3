SPECIFICATION FairSpec
CONSTANTS
    r1 = r1
    r2 = r2
    r3 = r3
    r4 = r4
    base = base
    Requests = {r1, r2}
    Kind <- MCKind
    Effect <- MCEffect
    Specs <- MCSpecs
    EmptyBase = EmptyBase
    NoFabric = NoFabric
    NoRequest = NoRequest
    NoSnapshot = NoSnapshot
    NoLease = NoLease
    NoPending = NoPending
    MaxRecords = 6
    MaxSegments = 1
    MaxFileRecords = 100
    MaxReplay = 100
    MaxFaults = 1
    RemovalsFail = TRUE
    MaxDedup = 2
    MaxStarts = 2
    MaxInstalls = 1
    MaxGrants = 3
    Compacting = FALSE
    Expiring = TRUE
INVARIANT TypeOK
INVARIANT LeaseExclusive
PROPERTY FencingIsFinal
PROPERTY NoStall
CHECK_DEADLOCK FALSE
