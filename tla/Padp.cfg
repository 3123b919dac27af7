SPECIFICATION Spec
CONSTANTS
    Pieces <- ThreeCalls
    MaxRetries = 3
    XidModulus = 3
    WriteErrors = TRUE
    None = None
INVARIANTS
    TypeOK
    InOrder
    AckMeansTaken
    NoStreamErrors
PROPERTIES
    ImplementsReliableChannel
    EveryWriteEnds
CHECK_DEADLOCK FALSE
