----------------------------- MODULE MCNodeTree -----------------------------
(* All trees of up to four tags below the root, twins included, under all  *)
(* overlays of up to four tags.                                            *)
EXTENDS NodeTree

T(tag, name, val) == [tag |-> tag, name |-> name, val |-> val]
B(name) == T("begin_node", name, 0)
E == T("end_node", "", 0)
Nop == T("nop", "", 0)
End == T("end", "", 0)

(* The nested words of n tags; properties have the value v.                *)
Words(v) ==
    LET w[n \in 0..4] ==
            IF n = 0 THEN {<< >>}
            ELSE {<<T("prop", p, v)>> \o t : p \in {"p", "q"}, t \in w[n - 1]}
                 \cup UNION {{<<B(c)>> \o s \o <<E>> \o t :
                                c \in {"a", "b"}, s \in w[k], t \in w[n - 2 - k]} : k \in 0..(n - 2)}
    IN  w
UpTo(v, n) == UNION {Words(v)[k] : k \in 0..n}

Main(s) == <<B("")>> \o s \o <<E, End>>
Over(s) == <<B(""), B("o")>> \o s \o <<E, E, End>>
With(m, o, dst) == [main |-> m, over |-> o, dst |-> dst, src |-> <<"o">>]

(* Besides: tags to be skipped, a structure block that breaks off, and an  *)
(* overlay without the node to be merged.                                  *)
Skipping == <<B(""), Nop, B("a"), Nop, E, Nop, T("prop", "p", 1), E, End>>
Broken == <<B(""), B("a"), E, End>>

MCSetups ==
    {With(Main(m), Over(o), dst) : m \in UpTo(1, 4), o \in UpTo(2, 3), dst \in {<< >>, <<"a">>}}
    \cup {With(Main(m), Over(o), <<"a">>) : m \in UpTo(1, 3), o \in Words(2)[4]}
    \cup {With(Skipping, Over(<<B("a"), T("prop", "q", 2), E>>), << >>),
          With(Broken, Over(<< >>), << >>), With(Skipping, Broken, << >>),
          With(Skipping, Main(<< >>), << >>)}
=============================================================================
