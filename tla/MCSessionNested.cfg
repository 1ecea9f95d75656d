CONSTANTS
    LANES = 1
    FORKS = 4
    BULK = FALSE
    DABIT_CHUNKS = 0
    CAP = 2
    FAULTS = 0
    THREADS <- Threads222
    CALLS <- Casts
SPECIFICATION Spec
CHECK_DEADLOCK FALSE
INVARIANT NeverStuck
