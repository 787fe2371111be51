SPECIFICATION Spec
CONSTANTS
    CPUs = {c0, c1}
    BootCPU = c0
    Workers = {w1, w2}
    Reaper = reaper
    NoThread = NoThread
INVARIANTS
    CallerNotReady
CHECK_DEADLOCK FALSE
