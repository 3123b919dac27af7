SPECIFICATION Spec
CONSTANTS
  SmallMax = 12
  ShortMax = 26
  MAX_USER_NAME_LENGTH = 3
  TextLengths = {0, 1, 3, 5}
  MaxItems = 2
  ErrorCodes = {5}
INVARIANTS
  ReadAsWritten
  ReadableIsRead
  CutIsNoticed
