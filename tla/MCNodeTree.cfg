CONSTANTS
    Setups <- MCSetups
    NULL = NULL
SPECIFICATION NodeTreeSpec
INVARIANTS TreeAsWritten FreedOnce
PROPERTY NestedEnds
CHECK_DEADLOCK FALSE
