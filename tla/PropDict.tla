------------------------------ MODULE PropDict ------------------------------
(***************************************************************************)
(* The dictionary ufdt_to_fdt keeps of the properties it has written       *)
(* (libufdt/ufdt_prop_dict.c): an open hash table with linear probing that *)
(* doubles when it is two thirds full.  A dictionary is [props, num_used], *)
(* with props[i] a property written, that is a record with a name, or      *)
(* NULL.                                                                   *)
(***************************************************************************)
EXTENDS Integers, FiniteSets, FiniteSetsExt

CONSTANTS
    Hash,      \* name -> _ufdt_prop_dict_str_hash, as unsigned
    InitSize,  \* UFDT_PROP_DICT_INIT_SZ
    NULL

(* What a slot holds: the name of a property written, its offset and where *)
(* in the output it is.                                                    *)
Written == [name : DOMAIN Hash, nameoff : Int, pos : Nat]

ASSUME PropDictAssumption ==
    /\ Hash \in [DOMAIN Hash -> Nat]
    /\ InitSize \in Nat \ {0, 1}
    /\ NULL \notin Written

Size(t) == Cardinality(DOMAIN t)

(* Slots in the order in which they are probed for a name.                 *)
Probe(t, name, i) == (Hash[name] + i) % Size(t)

(* The slot of the name or the first free one; -1 if there is neither.     *)
find_index_by_name(t, name) ==
    LET stops == {i \in DOMAIN t : t[Probe(t, name, i)] = NULL \/ t[Probe(t, name, i)].name = name}
    IN  IF stops = {} THEN -1 ELSE Probe(t, name, Min(stops))

ufdt_prop_dict_find(d, name) ==
    LET idx == find_index_by_name(d.props, name) IN IF idx = -1 THEN NULL ELSE d.props[idx]

Slots(size) == [i \in 0..(size - 1) |-> NULL]
EmptyDict == [props |-> Slots(InitSize), num_used |-> 0]

(* Mutant: the slots are copied, not hashed again.                         *)
CopiedOver(t) == [i \in 0..(2 * Size(t) - 1) |-> IF i < Size(t) THEN t[i] ELSE NULL]

(* The loop that hashes slot by slot into a table of twice the size.       *)
Rehashed(t) ==
    LET fill[k \in 0..Size(t)] ==
            IF k = 0 THEN Slots(2 * Size(t))
            ELSE LET p == t[k - 1] IN
                 IF p = NULL THEN fill[k - 1]
                 ELSE [fill[k - 1] EXCEPT ![find_index_by_name(fill[k - 1], p.name)] = p]
    IN  fill[Size(t)]

(* Mutant: the table may fill up.                                          *)
NeverEnlarged(d) == FALSE

(* num_used * DICT_LIMIT_DEN > mem_size * DICT_LIMIT_NUM                   *)
MustEnlarge(d) == d.num_used * 3 > Size(d.props) * 2

(* The property takes the slot of its name; without a slot nothing is done *)
(* and the result -1 is ignored.                                           *)
Stored(d, p) ==
    LET idx == find_index_by_name(d.props, p.name) IN
    IF idx = -1 THEN d
    ELSE [props |-> [d.props EXCEPT ![idx] = p],
          num_used |-> IF d.props[idx] = NULL THEN d.num_used + 1 ELSE d.num_used]

ufdt_prop_dict_add(d, p) ==
    LET s == Stored(d, p) IN
    IF find_index_by_name(d.props, p.name) # -1 /\ MustEnlarge(s)
    THEN [s EXCEPT !.props = Rehashed(@)] ELSE s
=============================================================================
