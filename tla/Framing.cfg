SPECIFICATION Spec
CONSTANTS
    SignatureLength = 3
    HeaderLength <- HeaderLengths
    CrcLength <- CrcLengths
    Sizes = {0, 2}
    MaxDatagrams = 3
    MaxGarbage = 2
    MaxLost = 1
INVARIANTS
    EmittedOnTime
    FoundAfterNoise
    TornIsLast
CHECK_DEADLOCK FALSE
