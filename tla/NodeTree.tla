------------------------------ MODULE NodeTree ------------------------------
(***************************************************************************)
(* The linked nodes of libufdt: fdt_to_ufdt_tree builds them from the tags *)
(* of a flattened tree, merge_children moves or frees the overlay's nodes  *)
(* one by one, ufdt_node_destruct gives the rest back to the pool.  The    *)
(* module shows that what TreeOverlay does to whole trees (LaidOver) is    *)
(* what the pointers do.                                                   *)
(*                                                                         *)
(* A tag is [tag, name, val]; a pointer into a blob is <<which, position>> *)
(* and a node has the address of the tag it was made for.  fdt_tag_ptr may *)
(* change later, the address does not.                                     *)
(***************************************************************************)
EXTENDS Tree, Pointers

CONSTANT
    Setups   \* [main, over: sequences of tags, dst, src: paths]

VARIABLES
    setup,
    pc,
    pos,     \* next tag
    open,    \* nodes being built, one per active call of fdt_to_ufdt_tree
    mem,     \* nodes in the pool: [ptr, sibling, child, last]
    root,    \* of each tree
    frames,  \* active calls of merge_children: [a, b, it]
    bad,     \* a node was freed twice or used after it was freed
    written  \* history: the trees the tags spell out

(* A blob begins with its root, as dtc writes it and libfdt presumes.      *)
ASSUME NodeTreeAssumption ==
    /\ NULL \notin {"main", "over"} \X Nat
    /\ \A s \in Setups : \A which \in {"main", "over"} :
        /\ Len(s[which]) \in Nat \ {0} /\ DOMAIN s[which] = 1..Len(s[which])
        /\ s[which][1].tag = "begin_node"
    /\ \A s \in Setups : Len(s.dst) \in Nat /\ Len(s.src) \in Nat

nodeVars == <<setup, pc, pos, open, mem, root, frames, bad, written>>

-----------------------------------------------------------------------------
(* Nodes *)

Tag(ptr) == setup[ptr[1]][ptr[2]]
TagOf(m, n) == Tag(m[n].ptr).tag
NameOf(m, n) == Tag(m[n].ptr).name

(* last is the address of the field the next child's address goes to.      *)
ufdt_node_construct(ptr) == [ptr |-> ptr, sibling |-> NULL, child |-> NULL, last |-> <<ptr, "child">>]

(* Mutant: the next child goes to the same place.                          *)
AddWithoutMoving(m, parent, child) ==
    LET last == m[parent].last IN [m EXCEPT ![last[1]][last[2]] = child]

ufdt_node_add_child(m, parent, child) ==
    LET last == m[parent].last
    IN  [m EXCEPT ![last[1]][last[2]] = child, ![parent].last = <<child, "sibling">>]

(* Where a pointer leads: empty for NULL.                                  *)
Follow(m, n, field) == {m[n][field]} \cap DOMAIN m

(* The children in turn, as the loops over the sibling pointers see them.  *)
Children(m, n) ==
    LET nth[k \in 0..Cardinality(DOMAIN m)] ==
            IF k = 0 THEN Follow(m, n, "child") ELSE UNION {Follow(m, c, "sibling") : c \in nth[k - 1]}
    IN  nth

(* The first child of the kind and name: empty for NULL.                   *)
ChildByName(m, n, tag, name) ==
    LET c == Children(m, n)
        is(k) == {x \in c[k] : TagOf(m, x) = tag /\ NameOf(m, x) = name}
        found == {k \in DOMAIN c : is(k) # {}}
    IN  IF found = {} THEN {} ELSE is(Min(found))

ufdt_node_get_node_by_path(m, n, path) ==
    LET at[k \in 0..Len(path)] ==
            IF k = 0 THEN {n} ELSE UNION {ChildByName(m, c, "begin_node", path[k]) : c \in at[k - 1]}
    IN  at[Len(path)]

-----------------------------------------------------------------------------
(* Building *)

Blob == setup[pc]

(* Behind the last tag libfdt returns FDT_END, as often as it is asked.    *)
fdt_next_tag == IF pos \in DOMAIN Blob THEN Blob[pos].tag ELSE "end"

Offset == Min({pos + 1, Len(Blob) + 1})

Alloc(m, ptr) == [n \in DOMAIN m \cup {ptr} |-> IF n = ptr THEN ufdt_node_construct(ptr) ELSE m[n]]

(* One round of the loop in the innermost call.  A node is added to its    *)
(* parent when the call for it returns; the outermost call returns the     *)
(* root.                                                                   *)
BeginNode(ptr) ==
    /\ fdt_next_tag = "begin_node"
    /\ open' = Append(open, ptr)
    /\ mem' = Alloc(mem, ptr)
    /\ pos' = Offset
    /\ UNCHANGED <<pc, root>>

Prop(ptr) ==
    /\ fdt_next_tag = "prop"
    /\ mem' = ufdt_node_add_child(Alloc(mem, ptr), Last(open), ptr)
    /\ pos' = Offset
    /\ UNCHANGED <<pc, open, root>>

EndNode ==
    /\ fdt_next_tag = "end_node"
    /\ open' = Front(open)
    /\ IF open' # << >>
       THEN /\ mem' = ufdt_node_add_child(mem, Last(open'), Last(open))
            /\ pos' = Offset
            /\ UNCHANGED <<pc, root>>
       ELSE /\ root' = [root EXCEPT ![pc] = Last(open)]
            /\ pc' = IF pc = "main" THEN "over" ELSE "apply"
            /\ pos' = 1
            /\ UNCHANGED mem

(* Mutant: the offset behind a tag that makes no node is not taken over.   *)
NopStays ==
    /\ fdt_next_tag \in {"nop", "end"}
    /\ UNCHANGED <<pc, pos, open, mem, root>>

NopOrEnd ==
    /\ fdt_next_tag \in {"nop", "end"}
    /\ pos' = Offset
    /\ UNCHANGED <<pc, open, mem, root>>

fdt_to_ufdt_tree ==
    /\ pc \in {"main", "over"}
    /\ BeginNode(<<pc, pos>>) \/ Prop(<<pc, pos>>) \/ EndNode \/ NopOrEnd
    /\ UNCHANGED <<setup, frames, bad>>

-----------------------------------------------------------------------------
(* Merging *)

Frame(a, b) == [a |-> a, b |-> b, it |-> mem[b].child]

(* ufdt_apply_fragment for one fragment; without target or source nothing  *)
(* is merged.                                                              *)
Apply ==
    LET a == ufdt_node_get_node_by_path(mem, root.main, setup.dst)
        b == ufdt_node_get_node_by_path(mem, root.over, setup.src)
    IN
    /\ pc = "apply"
    /\ frames' = [k \in 1..Cardinality(a \X b) |->
                    Frame(CHOOSE n \in a : TRUE, CHOOSE n \in b : TRUE)]
    /\ pc' = "merge"
    /\ UNCHANGED <<setup, pos, open, mem, root, bad>>

Free(m, n) ==
    /\ mem' = Restrict(m, DOMAIN m \ {n})
    /\ bad' = (bad \/ n \notin DOMAIN m)

(* Mutant: the merged node keeps its children.                             *)
KeepingChild(m, n) == m

Unlinked(m, n) == [m EXCEPT ![n].sibling = NULL]
Emptied(m, n) == [m EXCEPT ![n].child = NULL]
Retagged(m, n, ptr) == [m EXCEPT ![n].ptr = ptr]

(* One child of b: it moves to a, or is merged into a's child of its name. *)
MergeChild ==
    LET f == Last(frames)
        cur == f.it
        m == Unlinked(mem, cur)
        target == ChildByName(m, f.a, TagOf(m, cur), NameOf(m, cur))
        next == Append(Front(frames), [f EXCEPT !.it = mem[cur].sibling])
    IN
    /\ frames # << >> /\ cur # NULL
    /\ \/ /\ target = {}
          /\ mem' = ufdt_node_add_child(m, f.a, cur)
          /\ frames' = next
          /\ UNCHANGED bad
       \/ \E t \in target :
            \/ /\ TagOf(m, t) = "prop"
               /\ Free(Retagged(m, t, m[cur].ptr), cur)
               /\ frames' = next
            \/ /\ TagOf(m, t) = "begin_node"
               /\ mem' = m
               /\ frames' = Append(next, Frame(t, cur))
               /\ UNCHANGED bad

(* The end of merge_children; the caller frees the merged node.            *)
MergeReturns ==
    LET b == Last(frames).b IN
    /\ frames # << >> /\ Last(frames).it = NULL
    /\ frames' = Front(frames)
    /\ IF frames' = << >> THEN mem' = Emptied(mem, b) /\ UNCHANGED bad ELSE Free(Emptied(mem, b), b)

ufdt_node_merge_into ==
    /\ pc = "merge"
    /\ \/ MergeChild /\ UNCHANGED pc
       \/ MergeReturns /\ UNCHANGED pc
       \/ frames = << >> /\ pc' = "destruct_over" /\ UNCHANGED <<frames, mem, bad>>
    /\ UNCHANGED <<setup, pos, open, root>>

-----------------------------------------------------------------------------
(* Destruction *)

(* What can be reached from n, which itself has siblings nobody looks at.  *)
LinksFrom(m, n) ==
    {l \in (DOMAIN m) \X {"child", "sibling"} : l # <<n, "sibling">> /\ m[l[1]][l[2]] # NULL}
Reached(m, n) ==
    LET r[k \in 0..Cardinality(DOMAIN m)] ==
            IF k = 0 THEN {n}
            ELSE UNION {{c} \cup {m[l[1]][l[2]] : l \in {x \in LinksFrom(m, n) : x[1] = c}} : c \in r[k - 1]}
    IN  r[Cardinality(DOMAIN m)]

(* Every node reached is freed once for each link to it.                   *)
ufdt_node_destruct(n) ==
    LET r == Reached(mem, n)
        links == {l \in LinksFrom(mem, n) : l[1] \in r}
    IN  /\ mem' = Restrict(mem, DOMAIN mem \ r)
        /\ bad' = (bad \/ ~(r \subseteq DOMAIN mem) \/ Cardinality(links) # Cardinality(r) - 1)

ufdt_destruct ==
    /\ \/ pc = "destruct_over" /\ ufdt_node_destruct(root.over) /\ pc' = "destruct_main"
       \/ pc = "destruct_main" /\ ufdt_node_destruct(root.main) /\ pc' = "done"
    /\ UNCHANGED <<setup, pos, open, root, frames>>

-----------------------------------------------------------------------------
(* The path of the innermost open node after each tag, and the items the   *)
(* tags spell out.                                                         *)
Within(tags) ==
    LET w[k \in 0..Len(tags)] ==
            IF k = 0 THEN << >>
            ELSE IF tags[k].tag = "begin_node" THEN Append(w[k - 1], tags[k].name)
            ELSE IF tags[k].tag = "end_node" THEN Front(w[k - 1])
            ELSE w[k - 1]
    IN  w
ItemAt(tags, k) ==
    IF tags[k].tag = "prop" THEN prop(Tail(Within(tags)[k]), tags[k].name) ELSE node(Tail(Within(tags)[k]))
Making(tags) == {k \in DOMAIN tags : tags[k].tag \in {"begin_node", "prop"}}
Written(tags) ==
    [i \in {ItemAt(tags, k) : k \in Making(tags)} |->
        tags[CHOOSE k \in Making(tags) : ItemAt(tags, k) = i].val]

NodeTreeInit ==
    /\ setup \in Setups
    /\ pc = "main" /\ pos = 1 /\ open = << >>
    /\ mem = << >>
    /\ root = [main |-> NULL, over |-> NULL]
    /\ frames = << >> /\ bad = FALSE
    /\ written = [main |-> Written(setup.main), over |-> Written(setup.over)]

NodeTreeNext ==
    /\ fdt_to_ufdt_tree \/ Apply \/ ufdt_node_merge_into \/ ufdt_destruct
    /\ UNCHANGED written

(* One thread runs the calls to their end.                                 *)
NodeTreeSpec == NodeTreeInit /\ [][NodeTreeNext]_nodeVars /\ WF_nodeVars(NodeTreeNext)

-----------------------------------------------------------------------------
(* Properties *)

(* No two siblings have the same name, as dtc sees to.                     *)
NoTwins(which) == Cardinality(DOMAIN written[which]) = Cardinality(Making(setup[which]))

(* The items of a linked tree, by following the pointers.                  *)
LinkedTree(m, n) ==
    LET nodes == Reached(m, n)
        parent(c) == CHOOSE p \in nodes : c \in UNION Range(Children(m, p))
        path[c \in nodes] == IF c = n THEN << >> ELSE Append(path[parent(c)], NameOf(m, c))
        item(c) == IF TagOf(m, c) = "prop" THEN prop(Front(path[c]), NameOf(m, c)) ELSE node(path[c])
    IN  [i \in {item(c) : c \in nodes} |-> Tag(m[CHOOSE c \in nodes : item(c) = i].ptr).val]

(* The linked main tree after the merge is the tree its blob spells out    *)
(* with the overlay's laid over it, each item once: building and merging   *)
(* lose, double and misplace nothing.                                      *)
TreeAsWritten ==
    (pc = "destruct_over" /\ NoTwins("main") /\ NoTwins("over")) =>
        /\ LinkedTree(mem, root.main) =
              IF node(setup.dst) \in DOMAIN written.main /\ node(setup.src) \in DOMAIN written.over
              THEN LaidOver(written.main, written.over, setup.src, setup.dst) ELSE written.main
        /\ Cardinality(Reached(mem, root.main)) = Cardinality(DOMAIN LinkedTree(mem, root.main))

(* Each node is freed exactly once, by the merge or with the tree that     *)
(* holds it then, and none is touched afterwards: none belongs to both     *)
(* trees, none to neither.                                                 *)
FreedOnce == ~bad /\ (pc = "done" => DOMAIN mem = {})

(* Every node is closed, so that the blob ends with its root.              *)
Nested(tags) == \E k \in DOMAIN tags : Within(tags)[k] = << >>

(* Both trees are built, merged and destructed in the end, if their tags   *)
(* are nested: fdt_to_ufdt_tree waits for an FDT_END_NODE for ever.        *)
NestedEnds == (Nested(setup.main) /\ Nested(setup.over)) => <>(pc = "done")
=============================================================================
