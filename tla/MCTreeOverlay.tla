---------------------------- MODULE MCTreeOverlay ----------------------------
(* A board with two labelled nodes, one of which has a subnode, and        *)
(* overlays of two fragments: every pair of targets and contents, followed *)
(* by a second overlay that builds on what the first has added.            *)
EXTENDS TreeOverlay, TLC

Root == node(<< >>) :> << >>
N(p) == node(p) :> << >>
P(p, name, val) == prop(p, name) :> val

UART == <<"uart">>
GPIO == <<"gpio">>
DEV == <<"gpio", "dev">>

Board ==
    Root @@ N(UART) @@ P(UART, "phandle", <<1>>) @@ P(UART, "ctl", <<7, 3>>)
    @@ N(GPIO) @@ P(GPIO, "linux,phandle", <<2>>)
    @@ N(DEV) @@ P(DEV, "phandle", <<3>>) @@ P(DEV, "status", <<0>>)
    @@ N(<<"__symbols__">>) @@ P(<<"__symbols__">>, "uart", UART)
    @@ P(<<"__symbols__">>, "gpio", GPIO) @@ P(<<"__symbols__">>, "bare", << >>)
    @@ N(<<"aliases">>) @@ P(<<"aliases">>, "serial0", UART)

BoardRefs == {[at |-> prop(UART, "ctl"), cell |-> 1, node |-> DEV]}
Unlabelled == Root @@ N(UART)

(* The fragments of an overlay are called by their number.                 *)
Name(k) == IF k = 1 THEN "fragment@0" ELSE "fragment@1"
Ov(k) == <<Name(k), "__overlay__">>
OvDev(k) == Append(Ov(k), "dev")

(* A part of an overlay: items, references to labels and to own nodes.     *)
Part(items, external, local) == [items |-> items, external |-> external, local |-> local]

TargetBy(k, label) ==
    Part(P(<<Name(k)>>, "target", <<15>>),
         {[at |-> prop(<<Name(k)>>, "target"), cell |-> 0, label |-> label]}, {})
TargetAt(k, alias, path) ==
    Part(P(<<Name(k)>>, "target-path", [alias |-> alias, path |-> path]), {}, {})
TargetParts(k) ==
    { TargetBy(k, "uart"), TargetBy(k, "gpio"), TargetBy(k, "bare"),
      Part(P(<<Name(k)>>, "target", <<15>>), {}, {}),
      TargetAt(k, "", DEV), TargetAt(k, "serial0", <<"dev">>),
      Part(N(<<Name(k)>>), {}, {}) }

Contents(k) ==
    { Part(P(Ov(k), "status", <<k>>), {}, {}),
      Part(P(Ov(k), "phandle", <<k>>), {}, {}),
      Part(N(OvDev(k)) @@ P(OvDev(k), "status", <<k>>) @@ P(OvDev(k), "pins", <<5, 15>>),
           {[at |-> prop(OvDev(k), "pins"), cell |-> 1, label |-> "gpio"]}, {}),
      Part(N(OvDev(k)) @@ P(OvDev(k), IF k = 1 THEN "phandle" ELSE "linux,phandle", <<k>>)
           @@ P(OvDev(k), "self", <<k>>),
           {}, {[at |-> prop(OvDev(k), "self"), cell |-> 0, node |-> OvDev(k)]}) }

(* The tables dtc adds: one __fixups__ property per label, and the mirror  *)
(* of all that lies on the way to a local reference.                       *)
FixupItems(external) ==
    N(<<"__fixups__">>) @@
    [i \in {prop(<<"__fixups__">>, r.label) : r \in external} |->
        SetToSeq({[path |-> r.at.path, prop |-> r.at.prop, cell |-> r.cell] :
                    r \in {e \in external : e.label = i.prop}})]
LocalItems(local) ==
    [i \in {node(<<"__local_fixups__">> \o SubSeq(r.at.path, 1, n)) : r \in local, n \in 0..3} |-> << >>]
    @@ [i \in {Mirror(r.at) : r \in local} |-> <<0>>]

Overlay(parts) ==
    LET external == UNION {p.external : p \in parts}
        local == UNION {p.local : p \in parts}
        items == { p.items : p \in parts }
        all == [i \in UNION {DOMAIN s : s \in items} |->
                  (CHOOSE s \in items : i \in DOMAIN s)[i]]
    IN  [over |-> Root @@ N(<<Name(1)>>) @@ N(<<Name(2)>>) @@ N(Ov(1)) @@ N(Ov(2))
                  @@ all @@ FixupItems(external) @@ LocalItems(local),
         external |-> external, local |-> local]

Names == <<Name(1), Name(2), "__fixups__", "__local_fixups__">>
On(board, boardRefs, os) ==
    [main |-> board, refs |-> boardRefs,
     overlays |-> [k \in DOMAIN os |-> os[k] @@ [children |-> Names]]]

Pairs ==
    {Overlay({t1, t2, c1, c2}) : t1 \in TargetParts(1), c1 \in Contents(1),
                                 t2 \in TargetParts(2), c2 \in Contents(2)}

(* What comes second: to a node the first may have added, and to a label.  *)
Self(k) == CHOOSE c \in Contents(k) : c.local # {}
Some == Overlay({TargetBy(1, "uart"), Self(1)})
Second == Overlay({TargetAt(1, "serial0", <<"dev">>), Part(P(Ov(1), "status", <<9>>), {}, {}),
                   TargetBy(2, "gpio"), Self(2)})

(* Besides: a board without symbols, one whose alias is the root; a place  *)
(* and a cell that do not exist; no header.                                *)
Lost == [Some EXCEPT !.over = P(<<"__fixups__">>, "gpio",
            <<[path |-> Ov(2), prop |-> "nothing", cell |-> 0]>>) @@ @]
Beyond == [Some EXCEPT !.over = (Mirror(prop(OvDev(1), "self")) :> <<1>>) @@ @, !.local = {}]
RootAlias == P(<<"aliases">>, "serial0", << >>) @@ Board
NoHeader == [main |-> Board, refs |-> BoardRefs,
             overlays |-> <<[over |-> << >>, external |-> {}, local |-> {}, children |-> << >>]>>]

(* Phandles of 2^31 and more, in the board or in the overlay.              *)
LargeBoard == P(DEV, "phandle", <<WORD \div 2 + 3>>) @@ Board
LargeSelf == [Some EXCEPT !.over = P(OvDev(1), "phandle", <<WORD \div 2 + 1>>)
                                   @@ P(OvDev(1), "self", <<WORD \div 2 + 1>>) @@ @]
Unmarked == Overlay({Part(P(<<Name(1)>>, "target", <<WORD - 1>>), {}, {}), Self(1), TargetAt(2, "", UART), Self(2)})
MCLarge ==
    {On(LargeBoard, {}, <<o>>) : o \in {Some, Unmarked, LargeSelf}} \cup {On(Board, BoardRefs, <<LargeSelf>>)}

(* In order: a phandle for a node that had none when it was referred to,   *)
(* an alias another fragment changes, phandles that have collided.         *)
Bare == Overlay({TargetBy(1, "uart"), Part(P(Ov(1), "root", <<15>>),
                   {[at |-> prop(Ov(1), "root"), cell |-> 0, label |-> "bare"]}, {})})
Numbered == Overlay({TargetAt(1, "", << >>), Part(P(Ov(1), "phandle", <<1>>), {}, {})})
Realias == Overlay({TargetAt(1, "", <<"aliases">>), Part(P(Ov(1), "serial0", GPIO), {}, {}),
                    TargetAt(2, "serial0", << >>), Part(P(Ov(2), "status", <<9>>), {}, {})})
Collides == Overlay({TargetAt(1, "", DEV), Part(P(Ov(1), "phandle", <<3>>), {}, {})})
MCOrders ==
    {On(Board, BoardRefs, <<Bare, Numbered>>), On(Board, BoardRefs, <<Realias>>),
     On(LargeBoard, {}, <<Collides, Some>>)}

MCSetups ==
    MCOrders \cup
    {On(Board, BoardRefs, <<o, Second>>) : o \in Pairs}
    \cup {On(Board, BoardRefs, <<o>>) : o \in {Lost, Beyond}}
    \cup {On(Unlabelled, {}, <<[Some EXCEPT !.external = {}]>>), On(RootAlias, {}, <<Second>>), NoHeader}
    \cup MCLarge
=============================================================================
