SPECIFICATION MCSpecMax
CONSTANTS
    Base = 32
    Ten = 4
    MAX_SCALE = 7
    MAX_I32_SCALE = 2
    MAX_I64_SCALE = 4
    PowLimit = 14
    POWERS <- MCPowers
    WordBits = 5
    LOG_BITS = 120
INVARIANT ScaleWithinMax
CHECK_DEADLOCK FALSE
