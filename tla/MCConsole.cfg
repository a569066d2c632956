CONSTANTS
    W = 3
    H = 3
    CursorMod = 16
    LenMod = 3
    Chars <- MCChars
    p1 = p1
    p2 = p2
    Procs = {p1, p2}
    Calls <- MCCalls
    Keys = {"q"}
    MaxKeys = 4
    Panic <- MCPanic
SPECIFICATION ConsoleSpec
INVARIANTS
    ShowsEnd
    EchoShown
    PrintsFormat
