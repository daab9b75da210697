--------------------------- MODULE PoolParameters ---------------------------
(* What the node pool and its abstract specification have in common.       *)
EXTENDS Integers

CONSTANTS
    Blocks,           \* blocks that may be allocated, by their addresses
    EntriesPerBlock   \* UFDT_NODE_POOL_ENTRIES_PER_BLOCK

ASSUME PoolAssumption == EntriesPerBlock \in Nat \ {0}

Entries == 1..EntriesPerBlock
=============================================================================
