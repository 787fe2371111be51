SPECIFICATION FairFaultSpec
CONSTANTS
    FaultThreads = {t1, t2}
    Pages = {p1, p2, p3}
    NoPage = NoPage
    Areas = {"data"}
    IOErrors = FALSE
    StackDies = FALSE
PROPERTY FaultCompletes
CHECK_DEADLOCK FALSE
