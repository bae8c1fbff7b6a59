SPECIFICATION AdapterFairSpec
CONSTANTS
    MaxParts = 2
    MaxCalls = 1
    CallTypes = {"function", "custom"}
    LongLines = TRUE
PROPERTIES
    EveryStreamEnds
CHECK_DEADLOCK FALSE
