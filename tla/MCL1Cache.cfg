SPECIFICATION ProgramsSpec
SYMMETRY WaySymmetry
CONSTANTS
    t1 = t1  t2 = t2  x = x  y = y  l1 = l1  l2 = l2
    Threads = {t1, t2}
    Lines = {x, y}
    Ways = {w0}
    SyncWays = {w1, w2}
    Lanes = {l1, l2}
    Values = {0, 1}
    Program <- DataProgram
    MissOps = {}
    Foreign <- TheForeign
    None = None
INVARIANTS
    LoadsCoherent StoresDelivered BarrierWaits NoLostWakeup
    AssertionsHold SyncAtomic L1Coherent
