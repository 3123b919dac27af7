SPECIFICATION Spec
CONSTANTS
    Stores <- OneFolder
    Pc <- OneComputer
    Name <- OneUser
    Dbs = {"memos", "app"}
    Resources = {"app"}
    NotBackedUp = {}
    FileNames = {"same", "other"}
    None = None
    Absent = Absent
    Truncated = Truncated
    MaxEdits = 2
    MaxSyncs = 3
    MaxResets = 0
    MaxFaults = 1
PROPERTY EditsStayOnDevice
CHECK_DEADLOCK FALSE
