SPECIFICATION Spec
CONSTANTS
    Stores <- ThreeFolders
    Pc <- ComputerIds
    Name <- UserNames
    Dbs = {"memos", "app"}
    Resources = {"app"}
    NotBackedUp = {}
    FileNames = {"same"}
    None = None
    Absent = Absent
    Truncated = Truncated
    MaxEdits = 2
    MaxSyncs = 4
    MaxResets = 1
    MaxFaults = 1
INVARIANTS
    TypeOK
    FlagsTrusted
PROPERTIES
    BackupUpToDate
    BackupNeverShrinks
CHECK_DEADLOCK FALSE
