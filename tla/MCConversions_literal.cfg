SPECIFICATION MCSpecLiteral
CONSTANTS
    Base = 16
    WordBits = 4
    Ten = 6
    MAX_SCALE = 4
    MAX_I32_SCALE = 1
    MAX_I64_SCALE = 3
    PowLimit = 11
    POWERS <- MCPowers
    BYTES_TO_OVERFLOW_U64 = 4
    WILL_OVERFLOW_U64 = 41
    MAX_STR_BUFFER_SIZE = 8
    EstimatedPrecision <- MCEstimatedPrecision
    CoefficientCapacity = 12
    Format <- MCFormat
    GroupDigits = 2
    Max128 = 32767
    Max32 = 31
    Max8 = 7
    CircuitBreaker = 40
    EIGHTH_PI = 255
    ScaleBits = 8
INVARIANT LiteralExact
CHECK_DEADLOCK FALSE
