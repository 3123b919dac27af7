SPECIFICATION Spec
CONSTANTS
    c1 = c1
    c2 = c2
    Data = {c1, c2}
    NoRecord = NoRecord
    Ids = {1, 2, 3, 4, 5}
    InitIds = {1}
    InitArchived = TRUE
    DesktopNewIds = {0, 5}
    Faults = TRUE
    OtherPcs = TRUE
    MaxEdits = 3
    MaxSyncs = 2
SYMMETRY ContentSymmetry
INVARIANTS
    DeviceEditsKept
PROPERTIES
    FastSyncsMerge
    FastSyncKeepsEdits
    SlowSyncPulls
    SlowSyncKeepsEdits
CHECK_DEADLOCK FALSE
