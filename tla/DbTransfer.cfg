SPECIFICATION Spec
CONSTANTS
    None = None
    RamContents <- Ram
    RomContents <- Rom
    Files <- Installs
    PageSize = 2
    MaxOps = 2
    MaxFaults = 1
INVARIANTS
    ListComplete
    CopiesExact
    RomIsSpared
    WriteIsPrefix
    RefusedForAReason
PROPERTIES
    OpEnds
CHECK_DEADLOCK FALSE
