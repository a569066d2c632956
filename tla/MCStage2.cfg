CONSTANTS
    NEntries = 3
    PAGE_SIZE = 4
    LowMem = 4
    Word = 16
    Pointer = 12
    MaxAddress = 9
    Sizes = {2, 5, 9}
    KSizes = {4, 8}
    SECTOR_SIZE = 2
    SectorMod = 8
    PtEntries = 2
    Headers <- MCHeaders
SPECIFICATION Spec
INVARIANTS
    ListSound
    ListComplete
    KernelInUsable
    KernelLoaded
