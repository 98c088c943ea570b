SPECIFICATION MCSpec
CONSTANTS
    Base = 16
    Ten = 10
    MAX_SCALE = 3
    MAX_I32_SCALE = 1
    MAX_I64_SCALE = 2
    PowLimit = 6
    POWERS <- MCPowers
    WordBits = 4
    LOG_BITS = 77
    UnscaleChunk = 1
    UnscaleSteps <- MCSteps
INVARIANTS
    MulTypeOK
    MulProductExact
    AddTypeOK
    ScalingExact
    SumRounded
    LongDivisionExact
    DivNearest
    DivHalfEven
PROPERTIES
    MulImplements
    AddTerminates
    DivTerminates
CHECK_DEADLOCK FALSE
