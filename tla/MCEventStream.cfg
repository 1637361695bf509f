CONSTANTS
    MaxByte = 3
    MaxFrame = 2
    MaxChunk = 4
    MaxBody = 9
CHECK_DEADLOCK FALSE
SPECIFICATION Spec
INVARIANTS
    StreamInv
    EndIsWhole
    DecodesAsWhole
    NoMessageWaits
