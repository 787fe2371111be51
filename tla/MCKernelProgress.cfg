SPECIFICATION ProgressSpec
CONSTANTS
    Threads = {t1, t2, t3, t4, t5}
    Procs = {init, p1, p2}
    UserThreads = {u1, u2, u3, u4}
    InitProc = init
    InitThread = u1
    None = None
    MaxSpawns = 1
    MayFail = TRUE
    FaultThreads = {f1, f2, f3}
    Pages = {g1, g2}
    NoPage = NoPage
INVARIANTS IInv AssertionsHold NoLostWakeup ProcOutlivesUsers
PROPERTIES ImplementsRWLock EveryoneEnters ProcessesEnd FaultsComplete
CHECK_DEADLOCK FALSE
