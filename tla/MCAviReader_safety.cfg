SPECIFICATION Spec
CONSTANTS
    Lengths = {0, 8, 64}
    Reservations = {0, 4}
    MoviStart = 72
    StdIndexSize = 64
    DefaultIndexes = 2
    FirstMax = 200
    LaterMax = 110
    Dword = 400
    MaxChunks = 5
INVARIANTS RiffsAreSound EntriesPointAtChunks ReadsBack
CHECK_DEADLOCK FALSE
