SPECIFICATION MCSpec
CONSTANTS
    Base = 64
    Ten = 6
    MAX_SCALE = 6
    MAX_I32_SCALE = 2
    MAX_I64_SCALE = 4
    PowLimit = 11
    POWERS <- MCPowers
    WordBits = 6
    UnscaleChunk = 2
    UnscaleSteps <- MCSteps
INVARIANTS
    ScalesByLargest
    RemTypeOK
    PartialDivideExact
    CompareExact
    RemainderExact
    WindowsKeepRemainder
PROPERTY RemTerminates
CHECK_DEADLOCK FALSE
