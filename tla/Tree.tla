-------------------------------- MODULE Tree --------------------------------
(***************************************************************************)
(* A device tree as a function from items to values, and what it means to  *)
(* lay a part of one tree over another.  An item is a node                 *)
(* [path, prop |-> ""] or a property [path of its node, prop]; the path of *)
(* the root is empty.  TreeOverlay merges such trees; NodeTree shows that  *)
(* the linked nodes of libufdt are merged to the same effect.              *)
(***************************************************************************)
EXTENDS Integers, FiniteSets, SequencesExt, FiniteSetsExt, Functions

node(p) == [path |-> p, prop |-> ""]
prop(p, name) == [path |-> p, prop |-> name]

(* What is inside the node src, and where it goes.                         *)
Inside(t, src) ==
    {i \in DOMAIN t : IF i.prop = "" THEN IsStrictPrefix(src, i.path) ELSE IsPrefix(src, i.path)}
Moved(i, src, dst) == [i EXCEPT !.path = dst \o SubSeq(@, Len(src) + 1, Len(@))]

(* Mutant: a property that is there keeps its value.                       *)
LaidUnder(main, over, src, dst) ==
    LET inside == Inside(over, src)
        back(q) == CHOOSE i \in inside : Moved(i, src, dst) = q
        target == {Moved(i, src, dst) : i \in inside}
    IN  [q \in DOMAIN main \cup target |-> IF q \in DOMAIN main THEN main[q] ELSE over[back(q)]]

(* The tree main after all that is inside src has been merged into dst: an *)
(* item that is there takes the value, any other is added.                 *)
LaidOver(main, over, src, dst) ==
    LET inside == Inside(over, src)
        back(q) == CHOOSE i \in inside : Moved(i, src, dst) = q
        target == {Moved(i, src, dst) : i \in inside}
    IN  [q \in DOMAIN main \cup target |-> IF q \in target THEN over[back(q)] ELSE main[q]]
=============================================================================
