CONSTANTS
    Setups <- MCSetups
    NameLen <- MCNameLen
    Hash <- MCHash
    InitSize = 4
    NULL = NULL
SPECIFICATION Spec
INVARIANTS OutputFaithful MoreThanEnough FindsLast NeverFull
CHECK_DEADLOCK FALSE
