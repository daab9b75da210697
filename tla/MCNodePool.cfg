CONSTANTS
    Blocks = {b1, b2, b3}
    EntriesPerBlock = 2
    NULL = NULL
    POOL = POOL
    FOREIGN = FOREIGN
SPECIFICATION Spec
INVARIANTS ListIntact FreeInFront ChainsExact EntriesAccounted AtMostOneUnused
PROPERTY RefinesBlockPool
