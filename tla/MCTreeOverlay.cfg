CONSTANTS
    Setups <- MCSetups
    WORD = 64
SPECIFICATION Spec
INVARIANTS RefsResolved PhandlesUnique MergedAsWritten BaseRefsKept
CHECK_DEADLOCK FALSE
