SPECIFICATION TranslationSpec
CONSTANTS
    HwThreads = {h0}
    Maps = {m1, m2}
    NUM_FRAMES = 4
    MAX_ASIDS = 2
    UserRegions = {1}
    KernelRegions = {2, 3}
    BootRegions = {2}
    PhysicalAddresses = {a1, a2}
INVARIANT KernelMappingsShared
CHECK_DEADLOCK FALSE
