----------------------------- MODULE TreeOverlay -----------------------------
(***************************************************************************)
(* ufdt_overlay_apply and the rest of ufdt_apply_overlay (libufdt): trees  *)
(* of overlay fragments are merged into the main tree, one overlay after   *)
(* the other.  Phandles of the overlay are moved out of the way,           *)
(* references in it are brought up to date, and each fragment's            *)
(* __overlay__ is merged into the node it names.                           *)
(*                                                                         *)
(* Trees are those of module Tree.  A property's value is a sequence of    *)
(* 32-bit cells, except: a symbol's or alias's is a path, a target-path's  *)
(* a text [alias, path] (alias "" for an absolute path), a __fixups__      *)
(* property's a sequence of places [path, prop, cell].  Cells are numbered *)
(* from 0.  Siblings have different names, as dtc makes them.              *)
(***************************************************************************)
EXTENDS Tree

CONSTANTS
    Setups,  \* boards with overlays, and the references in them
    WORD     \* 2^32

VARIABLES
    setup,   \* main: a tree; refs: its references [at, cell, node]; overlays: in
             \* order, [over: a tree, or no items if its header is bad; children:
             \* names of its root's subnodes in order; local, external: references]
    nth,            \* which overlay is being applied
    pc, frag,       \* where ufdt_overlay_apply is, and which child it is at
    main, over,     \* the trees
    table,          \* main_tree->phandle_table
    base, refs,     \* history: main when the call began, references that held then
    fixed           \* history: the overlay when its references were done

treeVars == <<setup, nth, pc, frag, main, over, table, base, refs, fixed>>

overlay == setup.overlays[nth]

-----------------------------------------------------------------------------
(* Phandles *)

PhandleNames == {"phandle", "linux,phandle"}
IsCell(t, i) == i \in DOMAIN t /\ Len(t[i]) = 1

ufdt_node_get_phandle(t, p) ==
    IF IsCell(t, prop(p, "phandle")) THEN t[prop(p, "phandle")][1]
    ELSE IF IsCell(t, prop(p, "linux,phandle")) THEN t[prop(p, "linux,phandle")][1]
    ELSE 0

Phandled(t) == {i.path : i \in {j \in DOMAIN t : ufdt_node_get_phandle(t, j.path) > 0}}

(* Phandles are counted as unsigned and entered as int: the table has room *)
(* for the large ones and leaves it as malloc returned it.                 *)
Large(t) == {p \in Phandled(t) : ufdt_node_get_phandle(t, p) >= WORD \div 2}
Garbage == {0, WORD - 1}
Wild(p) == <<"?">> \o p
IsWild(p) == p # << >> /\ p[1] = "?"

(* The nodes sorted by phandle: every table that may result.               *)
Entered(t) == {[phandle |-> ufdt_node_get_phandle(t, p), node |-> p] : p \in Phandled(t) \ Large(t)}
Left(g) == {[phandle |-> g[p], node |-> Wild(p)] : p \in DOMAIN g}
Sorted(s) == \A i, j \in DOMAIN s : i < j => s[i].phandle <= s[j].phandle

build_phandle_table(t) ==
    UNION {{s \in SetToSeqs(Entered(t) \cup Left(g)) : Sorted(s)} : g \in [Large(t) -> Garbage]}

(* Mutant: the table is taken to be sorted the other way.                  *)
SmallestPhandle == IF table = << >> THEN 0 ELSE table[1].phandle

ufdt_get_max_phandle == IF table = << >> THEN 0 ELSE table[Len(table)].phandle

(* Mutant: the search ends at the upper bound.                             *)
SearchEndsAbove(ph) ==
    LET n == Len(table)
        search[b \in (0..n) \X (0..n)] ==
            LET mid == b[1] + (b[2] - b[1]) \div 2 IN
            IF b[2] - b[1] <= 1 THEN Min({b[2], n - 1})
            ELSE search[IF ph < table[mid + 1].phandle THEN <<b[1], mid>> ELSE <<mid, b[2]>>]
    IN  IF table = << >> THEN {} ELSE {table[search[<<0, n>>] + 1].node}

(* The binary search between two bounds; the entry it ends at is not       *)
(* compared.  The result is a set: empty for NULL.                         *)
ufdt_get_node_by_phandle(ph) ==
    LET n == Len(table)
        search[b \in (0..n) \X (0..n)] ==
            LET mid == b[1] + (b[2] - b[1]) \div 2 IN
            IF b[2] - b[1] <= 1 THEN b[1]
            ELSE search[IF ph < table[mid + 1].phandle THEN <<b[1], mid>> ELSE <<mid, b[2]>>]
    IN  IF table = << >> THEN {} ELSE {table[search[<<0, n>>] + 1].node}

-----------------------------------------------------------------------------
(* References inside the overlay *)

(* Mutant: the old spelling is forgotten.                                  *)
IncreaseOnlyPhandle(t, offset) ==
    [i \in DOMAIN t |->
        IF i.prop = "phandle" /\ IsCell(t, i) /\ i.path \in Phandled(t) \ Large(t)
        THEN <<(t[i][1] + offset) % WORD>> ELSE t[i]]

(* For the nodes in the overlay's own table.                               *)
ufdt_try_increase_phandle(t, offset) ==
    [i \in DOMAIN t |->
        IF i.prop \in PhandleNames /\ IsCell(t, i) /\ i.path \in Phandled(t) \ Large(t)
        THEN <<(t[i][1] + offset) % WORD>> ELSE t[i]]

(* Entries that were never written are followed too, and after a bad       *)
(* header the whole table is garbage.                                      *)
FollowsGarbage(offset) == offset > 0 /\ (DOMAIN over = {} \/ Large(over) # {})

(* __local_fixups__ mirrors the overlay; its properties list cells.        *)
LocalFixups(t) == {i \in DOMAIN t : i.path # << >> /\ i.path[1] = "__local_fixups__"}
Mirrored(i) == [i EXCEPT !.path = Tail(@)]
Mirror(i) == [i EXCEPT !.path = <<"__local_fixups__">> \o @]

LocalFixupFails(t) ==
    \E i \in LocalFixups(t) :
        \/ Mirrored(i) \notin DOMAIN t
        \/ i.prop # "" /\ \E k \in DOMAIN t[i] : t[i][k] >= Len(t[Mirrored(i)])

(* Every time a cell is listed it is increased.                            *)
LocallyFixed(t, offset) ==
    [i \in DOMAIN t |->
        IF i.prop = "" \/ Mirror(i) \notin DOMAIN t THEN t[i]
        ELSE LET listed(c) == {k \in DOMAIN t[Mirror(i)] : t[Mirror(i)][k] = c - 1}
             IN  [c \in DOMAIN t[i] |-> (t[i][c] + offset * Cardinality(listed(c))) % WORD]]

Fail == pc' = "failing" /\ UNCHANGED over

ufdt_overlay_local_ref_update ==
    LET offset == ufdt_get_max_phandle
        raised == IF offset > 0 THEN ufdt_try_increase_phandle(over, offset) ELSE over
    IN
    /\ pc = "local"
    /\ \/ FollowsGarbage(offset) /\ pc' = "undefined" /\ UNCHANGED over
       \/ LocalFixupFails(raised) /\ Fail
       \/ ~LocalFixupFails(raised) /\ pc' = "fixups" /\ over' = LocallyFixed(raised, offset)
    /\ UNCHANGED <<setup, nth, frag, main, table, base, refs, fixed>>

-----------------------------------------------------------------------------
(* References into the main tree *)

Fixups(t) == {i \in DOMAIN t : i.path = <<"__fixups__">> /\ i.prop # ""}
Symbol(label) == prop(<<"__symbols__">>, label)
Place(l) == prop(l.path, l.prop)
Places(t) == {Place(l) : l \in UNION {Range(t[f]) : f \in Fixups(t)}}

Resolves(label) == Symbol(label) \in DOMAIN main /\ node(main[Symbol(label)]) \in DOMAIN main

(* ufdt_get_fixup_location finds the place.                                *)
Locates(l) == Place(l) \in DOMAIN over /\ l.cell < Len(over[Place(l)])

ufdt_overlay_do_fixups ==
    LET written(i, c) ==
            {f \in Fixups(over) : \E l \in Range(over[f]) : Place(l) = i /\ l.cell = c - 1}
        value(i, c) ==
            IF written(i, c) = {} THEN over[i][c]
            ELSE LET f == CHOOSE g \in written(i, c) : TRUE
                 IN  ufdt_node_get_phandle(main, main[Symbol(f.prop)])
    IN
    /\ pc = "fixups"
    /\ IF \E f \in Fixups(over) : ~Resolves(f.prop) \/ \E l \in Range(over[f]) : ~Locates(l)
       THEN Fail
       ELSE /\ pc' = "fragments"
            /\ over' = [i \in DOMAIN over |->
                          IF i \in Places(over) THEN [c \in DOMAIN over[i] |-> value(i, c)]
                          ELSE over[i]]
    /\ fixed' = over'
    /\ UNCHANGED <<setup, nth, frag, main, table, base, refs>>

-----------------------------------------------------------------------------
(* Fragments *)

Source(k) == <<overlay.children[k], "__overlay__">>
TargetProp(k) == prop(<<overlay.children[k]>>, "target")
PathProp(k) == prop(<<overlay.children[k]>>, "target-path")

(* A relative path starts with an alias.  The alias's length includes its  *)
(* terminating zero, with which "/" is not the root but a missing child.   *)
ufdt_get_node_by_path(t, text) ==
    LET alias == prop(<<"aliases">>, text.alias)
        start == IF text.alias = "" THEN {<< >>}
                 ELSE {p \in {t[a] : a \in {alias} \cap DOMAIN t} : p # << >>}
    IN  {p \in {s \o text.path : s \in start} : node(p) \in DOMAIN t}

(* The node a fragment is for: by phandle if it has a "target".            *)
TargetNode(k) ==
    IF TargetProp(k) \in DOMAIN over THEN ufdt_get_node_by_phandle(over[TargetProp(k)][1])
    ELSE IF PathProp(k) \in DOMAIN over THEN ufdt_get_node_by_path(main, over[PathProp(k)])
    ELSE {}

(* merge_children, for the whole subtree, as NodeTree shows it done.       *)
ufdt_node_merge_into(src, dst) ==
    /\ main' = LaidOver(main, over, src, dst)
    /\ over' = Restrict(over, DOMAIN over \ Inside(over, src))

(* A child that is no fragment, or whose target is not found, is passed    *)
(* over in silence.                                                        *)
ufdt_apply_fragment ==
    LET found == {p \in TargetNode(frag) : ~IsWild(p)}
        wild == TargetNode(frag) # found
    IN
    /\ pc = "fragments" /\ frag \in DOMAIN overlay.children
    /\ frag' = frag + 1
    /\ pc' \in {"fragments"} \cup (IF wild THEN {"undefined"} ELSE {})
    /\ IF found # {} /\ node(Source(frag)) \in DOMAIN over
       THEN \E dst \in found : ufdt_node_merge_into(Source(frag), dst)
       ELSE UNCHANGED <<main, over>>
    /\ UNCHANGED <<setup, nth, table, base, refs, fixed>>

-----------------------------------------------------------------------------
(* ufdt_to_fdt writes the main tree out, or fails for want of memory.      *)
(* Both trees are destructed; without a header the overlay's table is not  *)
(* a pointer that may be freed.                                            *)
Finish ==
    /\ \/ pc = "fragments" /\ frag \notin DOMAIN overlay.children /\ pc' \in {"merged", "failed"}
       \/ pc = "failing" /\ pc' = "failed"
       \/ pc = "fragments" /\ DOMAIN over = {} /\ pc' = "undefined"
    /\ UNCHANGED <<setup, nth, frag, main, over, table, base, refs, fixed>>

(* The main tree's node a fragment is meant for: what the label in its     *)
(* "target" stands for, or the path it gives.                              *)
LabelOf(k) == {r.label : r \in {e \in overlay.external : e.at = TargetProp(k)}}
PathMeant(t, text) ==
    IF text.alias = "" THEN {text.path}
    ELSE {t[a] \o text.path : a \in {prop(<<"aliases">>, text.alias)} \cap DOMAIN t}
Meant(k) ==
    {base[Symbol(l)] : l \in LabelOf(k)}
    \cup (IF PathProp(k) \in DOMAIN overlay.over THEN PathMeant(base, overlay.over[PathProp(k)]) ELSE {})

(* Where a fragment's items go, if the target is there by then.            *)
Frags == DOMAIN overlay.children
Goes(k) == {Moved(i, Source(k), p) : i \in Inside(fixed, Source(k)), p \in Meant(k)}
There ==
    LET there[k \in 0..Len(overlay.children)] ==
            IF k = 0 THEN DOMAIN base
            ELSE there[k - 1] \cup (IF \E p \in Meant(k) : node(p) \in there[k - 1]
                                    THEN Goes(k) ELSE {})
    IN  there
Valid(k) == \E p \in Meant(k) : node(p) \in There[k - 1]

(* The references the overlay has brought in, where they are now.          *)
Brought ==
    LET at(r, k) == r.at \in Inside(fixed, Source(k)) /\ Valid(k)
        dst(k) == CHOOSE p \in Meant(k) : TRUE
        new(r, k, p) == [at |-> Moved(r.at, Source(k), dst(k)), cell |-> r.cell, node |-> p]
    IN  UNION {{new(r, k, base[Symbol(r.label)]) : r \in {e \in overlay.external : at(e, k)}}
               \cup {new(r, k, Moved(node(r.node), Source(k), dst(k)).path) :
                        r \in {e \in overlay.local : at(e, k) /\ IsPrefix(Source(k), e.node)}} :
               k \in Frags}
Holds(t, r) ==
    /\ r.at \in DOMAIN t /\ r.node \in Phandled(t)
    /\ t[r.at][r.cell + 1] = ufdt_node_get_phandle(t, r.node)

(* The call for the next overlay reads what the last one wrote.            *)
ufdt_apply_overlay ==
    /\ pc = "merged" /\ nth < Len(setup.overlays)
    /\ nth' = nth + 1 /\ pc' = "local" /\ frag' = 1
    /\ over' = setup.overlays[nth'].over
    /\ table' \in build_phandle_table(main)
    /\ base' = main
    /\ refs' = {r \in refs \cup Brought : Holds(main, r)}
    /\ fixed' = over'
    /\ UNCHANGED <<setup, main>>

-----------------------------------------------------------------------------
(* What dtc writes: each node with those above it, single cells as         *)
(* phandles, and no node called "?".                                       *)
IsTree(t) ==
    /\ IsFiniteSet(DOMAIN t)
    /\ DOMAIN t \subseteq [path : Seq(STRING), prop : STRING]
    /\ \A i \in DOMAIN t :
        /\ \A n \in 0..Len(i.path) : node(SubSeq(i.path, 1, n)) \in DOMAIN t
        /\ i.prop \in PhandleNames => t[i] \in [1..1 -> 0..(WORD - 1)]
        /\ "?" \notin Range(i.path)

Unique(t) == \A p, q \in Phandled(t) :
    ufdt_node_get_phandle(t, p) = ufdt_node_get_phandle(t, q) => p = q

(* Phandles, paths and the fixups themselves are never to be fixed up.     *)
FixesRefs(t) ==
    /\ \A i \in DOMAIN t :
        i.prop \in PhandleNames \cup {"target-path"} \/ i \in Fixups(t) =>
            Mirror(i) \notin DOMAIN t /\ i \notin Places(t)
    /\ \A i \in Fixups(t) : i.prop \notin PhandleNames
    /\ \A i \in LocalFixups(t) : i.prop # "" => t[i] \in Seq(Nat)

(* A reference to a node holds its phandle and is listed once; one to a    *)
(* label is listed with the label.                                         *)
LocalListed(t, r) ==
    /\ r.at \in DOMAIN t /\ r.at.prop # "" /\ r.at.prop \notin PhandleNames
    /\ r.cell \in Nat /\ t[r.at] \in Seq(0..(WORD - 1)) /\ r.cell < Len(t[r.at])
    /\ r.node \in Phandled(t) /\ t[r.at][r.cell + 1] = ufdt_node_get_phandle(t, r.node)
    /\ Mirror(r.at) \in DOMAIN t
    /\ Cardinality({k \in DOMAIN t[Mirror(r.at)] : t[Mirror(r.at)][k] = r.cell}) = 1
    /\ \A f \in Fixups(t) : \A l \in Range(t[f]) : ~(Place(l) = r.at /\ l.cell = r.cell)

ExternalListed(t, r) ==
    /\ r.at \in DOMAIN t
    /\ r.cell \in Nat /\ t[r.at] \in Seq(0..(WORD - 1)) /\ r.cell < Len(t[r.at])
    /\ \E f \in Fixups(t) : \E l \in Range(t[f]) : Place(l) = r.at /\ l.cell = r.cell
    /\ \A f \in Fixups(t) : \A l \in Range(t[f]) :
        Place(l) = r.at /\ l.cell = r.cell => f.prop = r.label

IsOverlay(o) ==
    /\ IsTree(o.over) /\ Unique(o.over) /\ FixesRefs(o.over)
    /\ o.children \in Seq(STRING) /\ IsInjective(o.children)
    /\ \A n \in Range(o.children) :
        /\ prop(<<n>>, "target") \in DOMAIN o.over =>
            o.over[prop(<<n>>, "target")] \in [1..1 -> 0..(WORD - 1)]
        /\ prop(<<n>>, "target-path") \in DOMAIN o.over =>
            o.over[prop(<<n>>, "target-path")] \in [alias : STRING, path : Seq(STRING)]
    /\ \A r \in o.local : LocalListed(o.over, r)
    /\ \A r \in o.external : ExternalListed(o.over, r)

ASSUME TreeOverlayAssumption ==
    /\ WORD \in Nat \ {0, 1}
    /\ \A s \in Setups :
        /\ IsTree(s.main) /\ \A r \in s.refs : Holds(s.main, r)
        /\ s.overlays \in Seq(Range(s.overlays)) /\ s.overlays # << >>
        /\ \A o \in Range(s.overlays) : IsOverlay(o)

Init ==
    /\ setup \in Setups
    /\ nth = 1 /\ pc = "local" /\ frag = 1
    /\ main = setup.main
    /\ over = overlay.over
    /\ table \in build_phandle_table(main)
    /\ base = main /\ refs = setup.refs
    /\ fixed = over

Next ==
    \/ ufdt_overlay_local_ref_update
    \/ ufdt_overlay_do_fixups
    \/ ufdt_apply_fragment
    \/ Finish
    \/ ufdt_apply_overlay

Spec == Init /\ [][Next]_treeVars

-----------------------------------------------------------------------------
(* Properties.  They are stated for phandles below 2^31: with larger ones  *)
(* the offset may come from an entry that was never written, and phandles  *)
(* of the overlay are raised onto those of the main tree, which then is no *)
(* base for further overlays.                                              *)
Small == Large(base) = {} /\ Large(overlay.over) = {} /\ Unique(base)

(* When the fragments are merged, every reference of the overlay holds the *)
(* phandle of the node it is to: a node of the overlay, whose phandle has  *)
(* been increased, or the node a label of the main tree stands for.        *)
RefsResolved ==
    (pc = "fragments" /\ frag = 1 /\ Small) =>
        /\ \A r \in overlay.local :
            over[r.at][r.cell + 1] = ufdt_node_get_phandle(over, r.node)
        /\ \A r \in overlay.external :
            over[r.at][r.cell + 1] = ufdt_node_get_phandle(main, base[Symbol(r.label)])

(* "so it won't lead to collision that different nodes have the same       *)
(* phandle value" (ufdt_overlay.c): the merged tree has no phandle twice,  *)
(* overlay after overlay, each merged tree being the main tree of the next *)
(* one.                                                                    *)
PhandlesUnique == (pc = "merged" /\ Small) => Unique(main)

(* Every "target" is a label, of a node with a phandle; no alias stands    *)
(* for the root, and no fragment changes one.                              *)
TargetsLabelled ==
    /\ \A k \in Frags : TargetProp(k) \in DOMAIN overlay.over =>
        /\ LabelOf(k) # {} /\ PathProp(k) \notin DOMAIN overlay.over
        /\ \A l \in LabelOf(k) : base[Symbol(l)] \in Phandled(base)
    /\ \A i \in DOMAIN base : i.path = <<"aliases">> /\ i.prop # "" => base[i] # << >>
    /\ \A k \in Frags : \A q \in Goes(k) : q.path # <<"aliases">>

(* The merged tree is the main tree with every fragment laid over it, each *)
(* at the node its label, path or alias means, the later over the earlier, *)
(* and it differs nowhere else, whichever way fragments and overlays build *)
(* on or overlap each other.                                               *)
MergedAsWritten ==
    (pc = "merged" /\ Small /\ TargetsLabelled) =>
        /\ DOMAIN main = There[Len(overlay.children)]
        /\ \A q \in DOMAIN main :
            LET givers == {k \in Frags : Valid(k) /\ q \in Goes(k)}
                k == Max(givers)
                dst == CHOOSE p \in Meant(k) : TRUE
            IN  main[q] = IF givers = {} THEN base[q]
                          ELSE fixed[CHOOSE i \in Inside(fixed, Source(k)) :
                                       Moved(i, Source(k), dst) = q]

(* No fragment gives another phandle to a node that has one.               *)
KeepsLabels ==
    TargetsLabelled /\ \A k \in Frags : \A q \in Goes(k) :
        q.prop \in PhandleNames => \A n \in PhandleNames : prop(q.path, n) \notin DOMAIN base

(* References of the main tree, its own and those earlier overlays brought *)
(* in, are never looked at, and still hold, unless an overlay relabels a   *)
(* node.  (A reference to a label without phandle is 0, and is none.)      *)
BaseRefsKept ==
    (pc = "merged" /\ Small /\ KeepsLabels) =>
        \A r \in refs : main[r.at] = base[r.at] => Holds(main, r)

(* libufdt.h, of ufdt_get_node_by_phandle: "NULL if no ufdt_node has       *)
(* phandle = phandle".  The search returns a neighbour instead, and the    *)
(* fragment is merged into it.                                             *)
NullIfAbsent ==
    (pc = "fragments" /\ frag \in Frags /\ TargetProp(frag) \in DOMAIN over) =>
        \A p \in TargetNode(frag) :
            \E e \in Range(table) : e.node = p /\ e.phandle = over[TargetProp(frag)][1]
=============================================================================
