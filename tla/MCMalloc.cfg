CONSTANTS
    Base = 16
    HEAP_SIZE = 96
    Word = 1024
    Requests = {8, 9, 22}
SPECIFICATION MallocSpec
INVARIANTS
    Tiling
    HeldApart
    SpinsOnlyFull
