SPECIFICATION Spec
CONSTANTS
    c1 = c1
    c2 = c2
    Data = {c1, c2}
    NoRecord = NoRecord
    Ids = {1, 2, 3}
    InitIds = {1}
    InitArchived = FALSE
    DesktopNewIds = {3}
    Faults = FALSE
    OtherPcs = FALSE
    MaxEdits = 2
    MaxSyncs = 1
PROPERTIES
    IdenticalEditsNotDuplicated
CHECK_DEADLOCK FALSE
