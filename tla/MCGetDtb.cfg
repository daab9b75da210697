CONSTANTS
    Names <- MCNames
    Situations <- MCSituations
SPECIFICATION GetDtbSpec
INVARIANT RightTree
CHECK_DEADLOCK FALSE
