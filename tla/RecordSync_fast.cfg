SPECIFICATION Spec
CONSTANTS
    c1 = c1
    c2 = c2
    Data = {c1, c2}
    NoRecord = NoRecord
    Ids = {1, 2, 3, 4, 5}
    InitIds = {1, 2}
    InitArchived = FALSE
    DesktopNewIds = {5}
    Faults = FALSE
    OtherPcs = FALSE
    MaxEdits = 3
    MaxSyncs = 2
SYMMETRY ContentSymmetry
INVARIANTS
    TypeOK
    FlagsTellTheTruth
    NoInternalError
    ObjectsDistinct
PROPERTIES
    SyncConverges
    ImplementsTwoWaySync
CHECK_DEADLOCK FALSE
