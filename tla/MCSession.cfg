CONSTANTS
    LANES = 2
    FORKS = 4
    BULK = FALSE
    DABIT_CHUNKS = 3
    CAP = 2
    FAULTS = 1
    THREADS <- Threads211
    CALLS <- Calls
SPECIFICATION Spec
CHECK_DEADLOCK FALSE
INVARIANTS TypeOK ForksPaired
PROPERTY Finishes
