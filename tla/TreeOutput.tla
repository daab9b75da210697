----------------------------- MODULE TreeOutput -----------------------------
(***************************************************************************)
(* ufdt_to_fdt: the merged tree is written into a buffer of fixed size.    *)
(* The string tables of both blobs are copied to its end, the last one in  *)
(* front, and names are offsets from the end, hence negative, until        *)
(* fdt_finish makes them relative to the start of the strings.  Structure  *)
(* and strings grow towards each other; for a property the code checks     *)
(* only the end of the buffer, libfdt checks for the strings when a node   *)
(* begins or ends.                                                         *)
(*                                                                         *)
(* A blob is [tree, table, rsv, slack]: an item tree whose values are      *)
(* lengths of data, the names in its string table, the number of memory    *)
(* reservations and unused bytes.  Positions and sizes are in bytes.       *)
(***************************************************************************)
EXTENDS Tree, PropDict

CONSTANTS
    Setups,   \* [main, over: blobs, src, dst: paths, buf: size of the buffer,
              \*  or 0 for the one ufdt_apply_overlay allocates]
    NameLen   \* length of each node's and property's name

(* What fdt_to_ufdt_tree accepts: a tree, whose names are in the blob's    *)
(* string table.                                                           *)
IsBlob(b) ==
    /\ b.table \in Seq(DOMAIN Hash) /\ b.rsv \in Nat /\ b.slack \in Nat
    /\ IsFiniteSet(DOMAIN b.tree)
    /\ DOMAIN b.tree \subseteq [path : Seq(DOMAIN NameLen), prop : DOMAIN Hash \cup {""}]
    /\ node(<< >>) \in DOMAIN b.tree
    /\ \A i \in DOMAIN b.tree :
        /\ b.tree[i] \in Nat
        /\ IF i.prop = "" THEN b.tree[i] = 0 /\ (i.path # << >> => node(Front(i.path)) \in DOMAIN b.tree)
           ELSE i.prop \in Range(b.table) /\ node(i.path) \in DOMAIN b.tree

(* The target of the overlay is a node of the tree.                        *)
ASSUME TreeOutputAssumption ==
    /\ NameLen \in [DOMAIN NameLen -> Nat]
    /\ DOMAIN Hash \subseteq DOMAIN NameLen /\ "" \notin DOMAIN Hash
    /\ \A s \in Setups :
        /\ IsBlob(s.main) /\ IsBlob(s.over) /\ s.buf \in Nat
        /\ s.src \in Seq(DOMAIN NameLen) /\ s.dst \in Seq(DOMAIN NameLen)
        /\ node(s.dst) \in DOMAIN s.main.tree

VARIABLES
    setup,
    pc,
    buf_size,       \* totalsize while the tree is written
    off_dt_struct, size_dt_struct, size_dt_strings,
    layout,         \* where each string table was copied to, from the end
    at, left,       \* the node being written and what is not written yet
    dict,           \* the dictionary of properties written
    out             \* the tags written

outVars == <<setup, pc, buf_size, off_dt_struct, size_dt_struct, size_dt_strings,
             layout, at, left, dict, out>>

HEADER == 40
RSVENTRY == 16
TAGSIZE == 4
PROPHEADER == 12
TAGALIGN(n) == ((n + TAGSIZE - 1) \div TAGSIZE) * TAGSIZE

NodeLen(path) == IF path = << >> THEN 0 ELSE NameLen[Last(path)]
BeginSize(path) == TAGSIZE + TAGALIGN(NodeLen(path) + 1)
PropSize(len) == PROPHEADER + TAGALIGN(len)

-----------------------------------------------------------------------------
(* The blobs *)

ItemSizes(t) ==
    [i \in DOMAIN t |-> IF i.prop = "" THEN BeginSize(i.path) + TAGSIZE ELSE PropSize(t[i])]
StructSize(t) == SumFunctionOnSet(ItemSizes(t), DOMAIN t) + TAGSIZE

StringSizes(table) == [j \in DOMAIN table |-> NameLen[table[j]] + 1]
Before(table, k) == SumFunctionOnSet(StringSizes(table), 1..(k - 1))
StringsSize(table) == Before(table, Len(table) + 1)
fdt_totalsize(b) ==
    HEADER + RSVENTRY * (b.rsv + 1) + StructSize(b.tree) + StringsSize(b.table) + b.slack

(* Mutant: the overlay needs no room of its own.                           *)
SizeOfMain == fdt_totalsize(setup.main)

out_fdt_size == fdt_totalsize(setup.main) + fdt_totalsize(setup.over)

(* The tree to be written, and the blobs whose strings it uses.            *)
tree == LaidOver(setup.main.tree, setup.over.tree, setup.src, setup.dst)
fdtps == <<setup.main, setup.over>>
TableSizes == [k \in DOMAIN fdtps |-> StringsSize(fdtps[k].table)]

(* A property that was there keeps its node, and the node its name.        *)
Owner(i) == IF i \in DOMAIN setup.main.tree THEN 1 ELSE 2

-----------------------------------------------------------------------------
(* libfdt *)

struct_top == off_dt_struct + size_dt_struct
Fits(len) == struct_top + len <= buf_size - size_dt_strings

Stop(why) ==
    /\ pc' = why
    /\ UNCHANGED <<setup, buf_size, off_dt_struct, size_dt_struct, size_dt_strings,
                   layout, at, left, dict, out>>

(* fdt_create, the reservations of the first blob only, and the empty one  *)
(* that ends them.  Only the last result is looked at.                     *)
CreateAndReserve ==
    LET n == setup.main.rsv + 1 IN
    /\ pc = "create"
    /\ IF buf_size < HEADER + RSVENTRY * n THEN Stop("nospace")
       ELSE /\ pc' = "strtab"
            /\ off_dt_struct' = HEADER + RSVENTRY * n
            /\ UNCHANGED <<setup, buf_size, size_dt_struct, size_dt_strings,
                           layout, at, left, dict, out>>

(* Mutant: the first table goes in front.                                  *)
InOrder == [k \in DOMAIN fdtps |-> 0 - SumFunctionOnSet(TableSizes, k..Len(fdtps))]

Reversed == [k \in DOMAIN fdtps |-> 0 - SumFunctionOnSet(TableSizes, 1..k)]

(* The dictionary is allocated next.                                       *)
ufdt_output_strtab_to_fdt ==
    /\ pc = "strtab"
    /\ \/ /\ buf_size + Min(Range(Reversed)) < struct_top
          /\ Stop("nospace")
       \/ /\ buf_size + Min(Range(Reversed)) >= struct_top
          /\ pc' \in {"node", "nomemory"}
          /\ layout' = Reversed
          /\ size_dt_strings' = 0 - Min(Range(Reversed))
          /\ UNCHANGED <<setup, buf_size, off_dt_struct, size_dt_struct, at, left, dict, out>>

-----------------------------------------------------------------------------
(* The tree: a node's properties first, then its subnodes, each in the     *)
(* order of the list of children, which may be any.                        *)

ufdt_get_string_off(i) ==
    LET table == fdtps[Owner(i)].table
        k == CHOOSE j \in DOMAIN table : table[j] = i.prop
    IN  Before(table, k) - StringsSize(table)
        - SumFunctionOnSet(TableSizes, 1..(Owner(i) - 1))

ufdt_get_property_nameoff(i) ==
    LET same == ufdt_prop_dict_find(dict, i.prop)
    IN  IF same = NULL THEN ufdt_get_string_off(i) ELSE same.nameoff

PropsLeft == {i \in left : i.path = at /\ i.prop # "" /\ node(at) \notin left}
NodesLeft == {i \in left : i.prop = "" /\ i.path # << >> /\ Front(i.path) = at}

(* The table is enlarged without a look at whether there was memory for    *)
(* it; if not, it is garbage, and what follows is not defined.             *)
ufdt_output_property_to_fdt ==
    /\ pc = "node"
    /\ \E i \in PropsLeft :
        IF struct_top + PropSize(tree[i]) > buf_size THEN Stop("nospace")
        ELSE LET nameoff == ufdt_get_property_nameoff(i)
                 new_prop == [name |-> i.prop, nameoff |-> nameoff, pos |-> Len(out) + 1]
             IN
             /\ size_dt_struct' = size_dt_struct + PropSize(tree[i])
             /\ out' = Append(out, [tag |-> "prop", nameoff |-> nameoff, len |-> tree[i]])
             /\ \/ dict' = ufdt_prop_dict_add(dict, new_prop) /\ UNCHANGED pc
                \/ /\ MustEnlarge(Stored(dict, new_prop))
                   /\ pc' = "garbage" /\ UNCHANGED dict
             /\ left' = left \ {i}
             /\ UNCHANGED <<setup, buf_size, off_dt_struct, size_dt_strings, layout, at>>

fdt_begin_node ==
    /\ pc = "node" /\ PropsLeft = {}
    /\ \E i \in (IF node(<< >>) \in left THEN {node(<< >>)} ELSE NodesLeft) :
        IF ~Fits(BeginSize(i.path)) THEN Stop("nospace")
        ELSE /\ size_dt_struct' = size_dt_struct + BeginSize(i.path)
             /\ out' = Append(out, [tag |-> "begin_node", path |-> i.path])
             /\ at' = i.path
             /\ left' = left \ {i}
             /\ UNCHANGED <<setup, pc, buf_size, off_dt_struct, size_dt_strings, layout, dict>>

fdt_end_node ==
    /\ pc = "node" /\ node(<< >>) \notin left /\ PropsLeft = {} /\ NodesLeft = {}
    /\ IF ~Fits(TAGSIZE) THEN Stop("nospace")
       ELSE /\ size_dt_struct' = size_dt_struct + TAGSIZE
            /\ out' = Append(out, [tag |-> "end_node"])
            /\ IF at = << >> THEN pc' = "finish" /\ UNCHANGED at ELSE at' = Front(at) /\ UNCHANGED pc
            /\ UNCHANGED <<setup, buf_size, off_dt_struct, size_dt_strings, layout, left, dict>>

(* fdt_finish moves the strings behind the structure and makes the names   *)
(* relative to their start; fdt_open_into keeps the whole buffer in use.   *)
fdt_finish ==
    /\ pc = "finish"
    /\ IF ~Fits(TAGSIZE) THEN Stop("nospace")
       ELSE /\ pc' = "written"
            /\ size_dt_struct' = size_dt_struct + TAGSIZE
            /\ out' = [k \in DOMAIN out |->
                         IF out[k].tag = "prop" THEN [out[k] EXCEPT !.nameoff = @ + size_dt_strings]
                         ELSE out[k]]
            /\ layout' = [k \in DOMAIN layout |-> layout[k] + size_dt_strings]
            /\ UNCHANGED <<setup, buf_size, off_dt_struct, size_dt_strings, at, left, dict>>

-----------------------------------------------------------------------------
Init ==
    /\ setup \in Setups
    /\ pc = "create"
    /\ buf_size = IF setup.buf = 0 THEN out_fdt_size ELSE setup.buf
    /\ off_dt_struct = HEADER /\ size_dt_struct = 0 /\ size_dt_strings = 0
    /\ layout = << >>
    /\ at = << >> /\ left = DOMAIN tree
    /\ dict = EmptyDict /\ out = << >>

Next ==
    \/ CreateAndReserve
    \/ ufdt_output_strtab_to_fdt
    \/ ufdt_output_property_to_fdt
    \/ fdt_begin_node
    \/ fdt_end_node
    \/ fdt_finish

Spec == Init /\ [][Next]_outVars

-----------------------------------------------------------------------------
(* Properties *)

(* The name a reader of the result finds at an offset into the strings.    *)
NameAt(off) ==
    {name \in DOMAIN Hash : \E k \in DOMAIN fdtps : \E j \in DOMAIN fdtps[k].table :
        fdtps[k].table[j] = name /\ layout[k] + Before(fdtps[k].table, j) = off}

(* The tree a reader of the result finds.                                  *)
Around(tags, k) ==
    LET level[j \in 0..k] ==
            IF j = 0 THEN << >>
            ELSE IF tags[j].tag = "begin_node" THEN tags[j].path
            ELSE IF tags[j].tag = "end_node" /\ level[j - 1] # << >> THEN Front(level[j - 1])
            ELSE level[j - 1]
    IN  level[k]
ReadBack ==
    {<<node(out[k].path), 0>> : k \in {j \in DOMAIN out : out[j].tag = "begin_node"}}
    \cup UNION {{<<prop(Around(out, k), n), out[k].len>> : n \in NameAt(out[k].nameoff)} :
                   k \in {j \in DOMAIN out : out[j].tag = "prop"}}

(* If ufdt_to_fdt succeeds, whatever the size of the buffer, the result    *)
(* reads as the merged tree, every name included: no property has run into *)
(* the strings, and offsets into two tables copied in reversed order point *)
(* to the right names.  The root comes first, as a reader expects.         *)
OutputFaithful ==
    pc = "written" =>
        /\ struct_top + size_dt_strings <= buf_size
        /\ out[1].tag = "begin_node"
        /\ ReadBack = {<<i, tree[i]>> : i \in DOMAIN tree}

(* ufdt_overlay.c, of out_fdt_size: "It's actually more than enough".  The *)
(* buffer ufdt_apply_overlay allocates never runs out, whatever the        *)
(* overlay adds or replaces.                                               *)
MoreThanEnough == setup.buf = 0 => pc # "nospace"

(* For every name the dictionary finds the property written last under it, *)
(* and nothing for a name that was not written, whatever collided with it  *)
(* and however often the table has been hashed anew since: a name offset   *)
(* that is used again is the offset of that very name.                     *)
FindsLast ==
    pc # "garbage" => \A name \in DOMAIN Hash :
        LET written == {k \in DOMAIN out : out[k].tag = "prop" /\ name \in NameAt(out[k].nameoff)}
            found == ufdt_prop_dict_find(dict, name)
        IN  IF written = {} THEN found = NULL ELSE found # NULL /\ found.pos = Max(written)

(* No probe runs through a full table: adding never fails, whose result is *)
(* ignored.                                                                *)
NeverFull == \E i \in DOMAIN dict.props : dict.props[i] = NULL
=============================================================================
