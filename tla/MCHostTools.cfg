\* Emulator: two threads, gathers of two lanes, two ways of one set.
\* Serial line: two lost bytes and five early timeouts, on a target of seven bytes.
CONSTANTS
    NUM_THREADS = 2
    NUM_VECTOR_LANES = 2
    TRAP_LEVELS = 2
    TLB_WAYS = 2
    Sessions <- TheSessions
    TRAP_HANDLER <- HandlerAt
    TLB_MISS_HANDLER <- MissHandlerAt
    PageFlags <- Flags
    LevelTriggered = {"uart"}
    SERIAL_BUFFER_SIZE = 2
    Breakable = {5}
    MEMORY = 7
    BLOCK_SIZE = 2
    Segments <- TheSegments
    MAX_PINGS = 4
    MAX_RETRIES = 6
    MAX_LOST = 2
    MAX_LATE = 5

SPECIFICATION Spec

INVARIANT ResumesExactly
INVARIANT InterruptsDispatched
INVARIANT IncrementsCounted
INVARIANT TlbUnambiguous
INVARIANT AcceptedIsStored
PROPERTY ToolsEnd
