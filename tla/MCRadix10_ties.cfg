SPECIFICATION MCSpecTies
CONSTANTS
    Base = 64
    Ten = 10
    MAX_SCALE = 4
    MAX_I32_SCALE = 1
    MAX_I64_SCALE = 3
    PowLimit = 8
    POWERS <- MCPowersTies
    WordBits = 6
    LOG_BITS = 77
    UnscaleChunk = 1
    UnscaleSteps <- MCSteps
INVARIANT DivTiesToEven
CHECK_DEADLOCK FALSE
