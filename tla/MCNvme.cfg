CONSTANTS
    QL = 6
    PageCmds = 4
    PageBlocks = 2
    Lbas = {a, b}
    Counts = {2}
    NoData = nodata
SPECIFICATION FairSpec
INVARIANTS
    PollsCleared
PROPERTIES
    ReadReturnsData
    SubmitReturns
