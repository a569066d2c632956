CONSTANTS
    BLOCK_FACTOR = 4
    BlockBytes = 24
    SuperSector = 2
    HeaderWords = 2
    Volume = 1
    NParts = 2
    RootInode = 2
    MaxPci = 4
    MaxEntries = 6
    NodeBytes = 7
    NameBytes = 5
    Images <- MCImages
SPECIFICATION Ext2Spec
INVARIANTS
    ListsDirectory
    ReadsFile
