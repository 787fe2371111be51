SPECIFICATION JobsSpec
CONSTANTS
    Main = Main
    Workers = {w1, w2}
    MAX_INDEX = 3
INVARIANT BatchWaited
CHECK_DEADLOCK FALSE
