SPECIFICATION Spec
CONSTANTS
    Lengths = {8}
    Reservations = {0}
    MoviStart = 72
    StdIndexSize = 64
    DefaultIndexes = 2
    FirstMax = 200
    LaterMax = 110
    Dword = 1000
    MaxChunks = 5
INVARIANT OffsetsAreRelative
CHECK_DEADLOCK FALSE
