SPECIFICATION SafetySpec
CONSTANTS
    CPUs = {c0, c1}
    BootCPU = c0
    Workers = {w1, w2}
    Reaper = reaper
    NoThread = NoThread
    WORD = 32
    PAGE_SIZE = 2
    Requests <- TheRequests
    Slabs <- TheSlabs
    SLAB_SIZE = 4
    DirectorySizes = {8}
    MIN_GROW = 12
    HEAP_BASE = 1
    HEAP_SIZE = 30
    HwThreads = {h0, h1}
    Maps = {m1, m2}
    NUM_FRAMES = 3
    MAX_ASIDS = 2
    UserRegions = {1}
    KernelRegions = {2, 3}
    BootRegions = {2}
    PhysicalAddresses = {a1}
    FaultThreads = {f1, f2}
    Pages = {g1, g2, g3}
    NoPage = NoPage
    Areas = {"text", "data", "stack"}
    IOErrors = TRUE
    StackDies = TRUE
SYMMETRY Symmetry
INVARIANTS
    ReadyQueueExact OneProcessorPerThread NoThreadLost
    MapWellFormed PlacementsCorrect AllocationsDisjoint MappingsSeen AsidsAndFramesExact
    FilePagesClean PagesAccounted MappedComplete
PROPERTY CachedPageStays
CHECK_DEADLOCK FALSE
