SPECIFICATION Spec
CONSTANTS
    XLEN = 8
    P = 32749
    LOG_M = 4
    LOG_K_CHUNK = 2
    ROT = 3
    Slots = {0, 1}
    Rho <- MCRho
    Traces <- DivisorTraces
    Challenges <- MCChallenges
INVARIANTS
    ClaimIsRemainingSum
