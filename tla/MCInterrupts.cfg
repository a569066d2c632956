CONSTANTS
    Procs = {idle, init, p2, p3}
    Idle = idle
    InitProc = init
    MmapWords = 3
    Callers = {p2}
SPECIFICATION FairSpec
INVARIANTS
    Ring
    LoopTerminates
    LoadedFrameCurrent
    RestoresContext
    DepthExact
    
PROPERTIES
    ReadyRuns
