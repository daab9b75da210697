------------------------------ MODULE BlockPool ------------------------------
(***************************************************************************)
(* What the node pool of libufdt promises, without its lists: nodes come   *)
(* from fixed-size blocks, a block is added only when every other one is   *)
(* full, and a block whose last node is given back is kept only if no      *)
(* other block has room ("Delay free block" in ufdt_node_pool_free).       *)
(***************************************************************************)
EXTENDS PoolParameters

VARIABLES
    pool,   \* the blocks of the pool
    room,   \* the unused entries of each block of the pool, {} for the others
    held    \* the nodes callers hold

poolVars == <<pool, room, held>>

Roomy(b) == room[b] # {}
Unused(b) == room[b] = Entries

Init == pool = {} /\ room = [b \in Blocks |-> {}] /\ held = {}

Take(b, e, entries) ==
    /\ room' = [room EXCEPT ![b] = entries \ {e}]
    /\ held' = held \cup {<<b, e>>}

AllocOld(b, e) ==
    /\ b \in pool /\ e \in room[b]
    /\ Take(b, e, room[b])
    /\ UNCHANGED pool

AllocNew(b, e) ==
    /\ \A c \in pool : ~Roomy(c)
    /\ b \notin pool
    /\ pool' = pool \cup {b}
    /\ Take(b, e, Entries)

Alloc == \E b \in Blocks, e \in Entries : AllocOld(b, e) \/ AllocNew(b, e)

GiveBack(b, e) ==
    LET unused == room[b] \cup {e} = Entries
        spare == \E c \in pool \ {b} : Roomy(c)
    IN  /\ <<b, e>> \in held
        /\ held' = held \ {<<b, e>>}
        /\ IF unused /\ spare
           THEN pool' = pool \ {b} /\ room' = [room EXCEPT ![b] = {}]
           ELSE pool' = pool /\ room' = [room EXCEPT ![b] = @ \cup {e}]

Free == \E b \in Blocks, e \in Entries : GiveBack(b, e)

(* ufdt_node_pool_destruct frees every block, whoever still holds nodes.   *)
Clear == pool' = {} /\ room' = [b \in Blocks |-> {}] /\ held' = {}

Next == Alloc \/ Free \/ Clear

Spec == Init /\ [][Next]_poolVars

-----------------------------------------------------------------------------
TypeOK ==
    /\ pool \subseteq Blocks
    /\ room \in [Blocks -> SUBSET Entries]
    /\ held \subseteq (Blocks \X Entries)

(* Every entry of every block of the pool is either unused or held by a    *)
(* caller, and never both: no node is handed out twice, none is lost, and  *)
(* no block is freed while a caller holds one of its nodes.                *)
EntriesAccounted ==
    \A b \in Blocks, e \in Entries :
        (<<b, e>> \in held) <=> (b \in pool /\ e \notin room[b])

(* ufdt_node_pool_free keeps at most one block that no caller uses.        *)
AtMostOneUnused ==
    \A b, c \in pool : Unused(b) /\ Unused(c) => b = c

(* Blocks outside the pool have no entries to give.                        *)
OutsideEmpty == \A b \in Blocks \ pool : room[b] = {}

(* EntriesAccounted and AtMostOneUnused are inductive only together with   *)
(* the types and the fact that blocks outside the pool offer no entries.   *)
Inv == TypeOK /\ OutsideEmpty /\ EntriesAccounted /\ AtMostOneUnused
=============================================================================
