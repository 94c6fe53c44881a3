SPECIFICATION Spec
CONSTANTS
    Limits <- MCLimits
    Commands <- MCCommands
    Specs <- MCSpecs
    DefaultOptions <- MCOptions
    SnapshotLimits <- MCDefaults
    MaxSegments = 2
    MaxRecordBytes = 3
    MaxSnapshotBytes = 3
    MaxStarts = 4
    MaxCommands = 4
INVARIANTS
    ReadsBack
    RefusedOnlyFor
CHECK_DEADLOCK FALSE
