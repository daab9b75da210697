CONSTANTS
    Setups <- MCSetups
    WORD = 64
SPECIFICATION Spec
INVARIANT NullIfAbsent
CHECK_DEADLOCK FALSE
