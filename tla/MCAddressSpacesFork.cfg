CONSTANTS
    Procs = {init, p2}
    InitProc = init
    Frames = {f1, f2, f3, f4}
    None = none
    NTables = 1
    PtSize = 2
    Values = {z, v}
    Zero = z
    CodePages = 1
    StackPage = 1
SPECIFICATION Spec
SYMMETRY FrameSymmetry
PROPERTY ForkIsolates
