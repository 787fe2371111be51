SPECIFICATION ProcSpec
CONSTANTS
    Procs = {init, p1}
    UserThreads = {t1, t2, t3}
    InitProc = init
    InitThread = t1
    None = None
    MaxSpawns = 1
    MayFail = FALSE
INVARIANT ThreadListEmptyAtEnd
CHECK_DEADLOCK FALSE
