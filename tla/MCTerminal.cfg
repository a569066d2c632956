CONSTANTS
    Procs = {idle, init, p2}
    Idle = idle
    InitProc = init
    Chars = {a}
    Nul = nul
    LenMod = 4
    QSlots = 3
    Counts = {0, 6}
SPECIFICATION FairSpec
INVARIANTS
    WaitersQueued
    WaitersSuspended
PROPERTIES
    ImplementsScheduler
    KeepsPromise
    WokenReturns
