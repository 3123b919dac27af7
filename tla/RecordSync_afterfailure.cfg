SPECIFICATION Spec
CONSTANTS
    c1 = c1
    c2 = c2
    Data = {c1, c2}
    NoRecord = NoRecord
    Ids = {1, 2, 3, 4}
    InitIds = {1}
    InitArchived = FALSE
    DesktopNewIds = {4}
    Faults = TRUE
    OtherPcs = FALSE
    MaxEdits = 2
    MaxSyncs = 2
PROPERTIES
    SyncConverges
CHECK_DEADLOCK FALSE
