SPECIFICATION FairSpec
CONSTANTS
    CPUs = {c0}
    BootCPU = c0
    Workers = {w1, w2}
    Reaper = reaper
    NoThread = NoThread
INVARIANTS
    NeverFails
PROPERTIES
    EverythingProceeds
