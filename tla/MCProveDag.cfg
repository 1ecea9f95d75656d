\* The coordinator, three workers and the verifier, with and without advice.
SPECIFICATION Spec
CONSTANTS
    LOG_T = 3
    LOG_K_RAM = 3
    RAM_CHUNK = 2
    LOG_REGISTERS = 1
    LOG_K_BYTECODE = 2
    BYTECODE_CHUNK = 1
    LOG_K_CHUNK = 1
    D = 4
    NUM_TABLES = 2
    NUM_FLAGS = 2
    LOG_ROWS = 1
    LOG_VARS = 2
    SWITCH = 1
    WORKER_SWITCH = 1
    LOG_ADVICE <- AdviceSizes
INVARIANTS
    TranscriptsAgree
    ClaimsAreSums
    OpeningsAgree
    Finishes
CHECK_DEADLOCK FALSE
