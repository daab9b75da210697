------------------------------ MODULE NodePool ------------------------------
(***************************************************************************)
(* The allocator of tree nodes of libufdt (ufdt_node_pool.c), at the level *)
(* of its pointers.  The pool is a singly linked list of malloc'ed blocks; *)
(* last_block_ptr is the address of the link that ends the list: either    *)
(* &pool->first_block or the next_block field of the last block.  Each     *)
(* block chains its unused entries.                                        *)
(***************************************************************************)
EXTENDS PoolParameters, Pointers, Sequences, FiniteSets

CONSTANTS
    POOL,      \* the address of pool->first_block as a link
    FOREIGN    \* a pointer into no block

ASSUME NodePoolAssumption ==
    /\ IsFiniteSet(Blocks)
    /\ {NULL, POOL, FOREIGN} \cap Blocks = {} /\ NULL # POOL

Node == Blocks \X Entries

VARIABLES
    first,  \* pool->first_block
    last,   \* pool->last_block_ptr
    next,   \* next_block of each block
    free,   \* the chain from first_free_entry of each block
    cnt,    \* alloc_entry_cnt of each block
    heap,   \* blocks that are malloc'ed and not freed
    live,   \* nodes handed out and not given back (the callers' view)
    err     \* last message of dto_error

poolVars == <<first, last, next, free, cnt, heap, live, err>>

-----------------------------------------------------------------------------
(* The list operations, as functions of the three link variables.          *)
Links == [first |-> first, last |-> last, next |-> next]

Deref(l, link) == IF link = POOL THEN l.first ELSE l.next[link]

(* *link = b                                                               *)
Store(l, link, b) ==
    IF link = POOL THEN [l EXCEPT !.first = b] ELSE [l EXCEPT !.next[link] = b]

(* Mutants: the block goes to the rear; the end of the list is forgotten.  *)
PreppendAtRear(l, b) ==
    [Store([l EXCEPT !.next[b] = NULL], l.last, b) EXCEPT !.last = b]

AppendKeepsLast(l, b) == Store([l EXCEPT !.next[b] = NULL], l.last, b)

preppend_block(l, b) ==
    [first |-> b, next |-> [l.next EXCEPT ![b] = l.first],
     last |-> IF l.first = NULL THEN b ELSE l.last]

append_block(l, b) ==
    [Store([l EXCEPT !.next[b] = NULL], l.last, b) EXCEPT !.last = b]

remove_block(l, link) ==
    LET b == Deref(l, link)
        nextBlock == l.next[b]
        unlinked == Store(l, link, nextBlock)
    IN  [first |-> unlinked.first, next |-> [unlinked.next EXCEPT ![b] = NULL],
         last |-> IF nextBlock = NULL THEN link ELSE l.last]

SetLinks(l) == first' = l.first /\ last' = l.last /\ next' = l.next

(* Mutant: the entry is not chained.                                       *)
BlockFreeUnchained(b, e) ==
    /\ free' = free
    /\ cnt' = [cnt EXCEPT ![b] = @ - 1]

(* block_alloc, for a block whose chain and count are given, and           *)
(* block_free.                                                             *)
block_alloc(b, chain, n) ==
    /\ free' = [free EXCEPT ![b] = Tail(chain)]
    /\ cnt' = [cnt EXCEPT ![b] = n + 1]

block_free(b, e) ==
    /\ free' = [free EXCEPT ![b] = <<e>> \o @]
    /\ cnt' = [cnt EXCEPT ![b] = @ - 1]

(* The link a walk from pool->first_block is at after n blocks: a link is  *)
(* named by the block it is in, and the walk ends at the last one.         *)
Walk(l) ==
    LET walk[n \in Nat] ==
            IF n = 0 THEN POOL
            ELSE IF Deref(l, walk[n - 1]) = NULL THEN walk[n - 1]
            ELSE Deref(l, walk[n - 1])
    IN  walk

(* The link to block b, or the link that ends the list if b is not in it.  *)
search_block(l, b) ==
    LET stops(n) == Deref(l, Walk(l)[n]) \in {b, NULL}
    IN  Walk(l)[CHOOSE n \in 0..Cardinality(Blocks) : stops(n) /\ \A m \in 0..(n - 1) : ~stops(m)]

-----------------------------------------------------------------------------
construct ==
    /\ last = NULL
    /\ first' = NULL /\ last' = POOL
    /\ live' = {} /\ err' = "none"
    /\ UNCHANGED <<next, free, cnt, heap>>

(* The blocks a walk of l meets.                                           *)
Linked(l) ==
    {b \in Blocks : Deref(l, search_block(l, b)) = b}

destruct ==
    /\ last # NULL
    /\ heap' = heap \ Linked(Links)
    /\ err' = IF \E b \in Linked(Links) : cnt[b] # 0 THEN "leak" ELSE "none"
    /\ first' = NULL /\ last' = NULL
    /\ UNCHANGED <<next, free, cnt, live>>

(* Mutant: a full block stays in front.                                    *)
NeverMoved(l, b, rest) == l

(* A block left without unused entries moves to the end of the list.       *)
MovedIfFull(l, b, rest) ==
    IF rest = << >> /\ Deref(l, l.last) # b
    THEN append_block(remove_block(l, POOL), b)
    ELSE l

(* create_block and the two list updates of ufdt_node_pool_alloc are one   *)
(* call; the block b is the fresh one or the first of the list.            *)
AllocFrom(b, l, chain, n) ==
    /\ block_alloc(b, chain, n)
    /\ SetLinks(MovedIfFull(l, b, free'[b]))
    /\ live' = live \cup {<<b, Head(chain)>>}
    /\ err' = "none"

FirstHasRoom == first # NULL /\ free[first] # << >>

AllocOld ==
    /\ last # NULL
    /\ FirstHasRoom
    /\ AllocFrom(first, Links, free[first], cnt[first])
    /\ UNCHANGED heap

AllocNew ==
    /\ last # NULL
    /\ ~FirstHasRoom
    /\ \E b \in Blocks \ heap :
        /\ AllocFrom(b, preppend_block([Links EXCEPT !.next[b] = NULL], b),
                     [e \in Entries |-> e], 0)
        /\ heap' = heap \cup {b}

(* Mutants: a block is given up while callers hold nodes of it; never.     *)
DestroyedInUse(l, b) == l.first # NULL /\ free[l.first] # << >>

NeverDestroyed(l, b) == FALSE

(* Nothing is left in block b and the rest of the list l has room.         *)
Destroyed(l, b) == cnt'[b] = 0 /\ l.first # NULL /\ free[l.first] # << >>

(* Callers give back only nodes they were handed.                          *)
FreeNode ==
    /\ last # NULL
    /\ \E n \in live :
        LET b == n[1]
            link == search_block(Links, b)
            l == remove_block(Links, link)
        IN  /\ Deref(Links, link) # NULL
            /\ block_free(b, n[2])
            /\ live' = live \ {n}
            /\ err' = "none"
            /\ IF Destroyed(l, b)
               THEN SetLinks(l) /\ heap' = heap \ {b}
               ELSE SetLinks(preppend_block(l, b)) /\ UNCHANGED heap

FreeForeign ==
    /\ last # NULL
    /\ Deref(Links, search_block(Links, FOREIGN)) = NULL
    /\ err' = "not in the pool"
    /\ UNCHANGED <<first, last, next, free, cnt, heap, live>>

ufdt_node_pool_alloc == AllocOld \/ AllocNew

ufdt_node_pool_free == FreeNode \/ FreeForeign

Init ==
    /\ first = NULL /\ last = NULL
    /\ next = [b \in Blocks |-> NULL]
    /\ free = [b \in Blocks |-> << >>]
    /\ cnt = [b \in Blocks |-> 0]
    /\ heap = {} /\ live = {} /\ err = "none"

Next == construct \/ destruct \/ ufdt_node_pool_alloc \/ ufdt_node_pool_free

Spec == Init /\ [][Next]_poolVars

-----------------------------------------------------------------------------
(* Properties *)

(* While the pool is constructed, last_block_ptr is the link that really   *)
(* ends the list, and the list holds exactly the malloc'ed blocks: an      *)
(* append or a removal never loses a block and never links a freed one.    *)
ListIntact ==
    last # NULL => /\ last \in {POOL} \cup Linked(Links)
                   /\ Deref(Links, last) = NULL
                   /\ Linked(Links) = heap

(* ufdt_node_pool.h: "Blocks with one or more unused entries are in front; *)
(* blocks without unused entry are in rear."  ufdt_node_pool_alloc looks   *)
(* only at the first block because of it.                                  *)
FreeInFront ==
    \A b \in Linked(Links) :
        (last # NULL /\ next[b] # NULL /\ free[b] = << >>) => free[next[b]] = << >>

(* The chain of unused entries of a block has no entry twice, none that a  *)
(* caller holds, and alloc_entry_cnt is the number of the others.          *)
ChainsExact ==
    last # NULL => \A b \in heap :
        LET chain == {free[b][i] : i \in DOMAIN free[b]}
            used == {e \in Entries : <<b, e>> \in live}
        IN  /\ Cardinality(chain) = Len(free[b])
            /\ chain = Entries \ used
            /\ cnt[b] = Cardinality(used)

(* The pool without its lists; it is empty before construct and after      *)
(* destruct.                                                               *)
Abstract == INSTANCE BlockPool WITH
    pool <- IF last = NULL THEN {} ELSE heap,
    room <- [b \in Blocks |->
               IF last = NULL \/ b \notin heap THEN {}
               ELSE {free[b][i] : i \in DOMAIN free[b]}],
    held <- IF last = NULL THEN {} ELSE live

(* The pool keeps the promises of BlockPool: in particular a new block is  *)
(* taken only when all blocks are full, though ufdt_node_pool_alloc looks  *)
(* only at the first, and at most one unused block is kept.                *)
RefinesBlockPool == Abstract!Spec

(* What BlockPool is proved to keep, of the lists themselves: no node is   *)
(* handed out twice, lost, or freed with its block while a caller holds    *)
(* it, ...                                                                 *)
EntriesAccounted == Abstract!EntriesAccounted

(* ... and the delayed free of blocks never leaves two that nobody uses.   *)
AtMostOneUnused == Abstract!AtMostOneUnused
=============================================================================
