CONSTANTS
    Props <- MCProps
    NameLen <- MCNameLen
    NodeNameLen = 6
    ValueLens = {0, 5, 8}
    Inputs <- MCInputs
    MaxSize = 90
SPECIFICATION DtbPropSpec
INVARIANTS TypeOK MemorySafe GrowthSuffices SizeIsTotalsize
CHECK_DEADLOCK FALSE
