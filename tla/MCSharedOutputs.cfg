SPECIFICATION Spec
CONSTANTS
    P = 32749
    XLEN = 8
    Draw <- MCDraw
    Traces <- MCTraces
    B2A_CHUNK = 5
    FULFILL_INDEX_CHUNK = 3
    LOG_K_CHUNK = 4
    D = 4
    LOWEST_ADDRESS = 16
    POOL = 32
INVARIANT EveryOutputMirrorsVanilla
CHECK_DEADLOCK FALSE
