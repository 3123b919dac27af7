SPECIFICATION Spec
CONSTANTS
    SignatureLength = 3
    HeaderLength <- HeaderLengths
    CrcLength <- CrcLengths
    Sizes = {0, 2}
    MaxDatagrams = 2
    MaxGarbage = 1
    MaxLost = 0
INVARIANTS
    NoiseIsSkipped
CHECK_DEADLOCK FALSE
