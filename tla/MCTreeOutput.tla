---------------------------- MODULE MCTreeOutput ----------------------------
(* A board and overlays that add, replace and share names, into buffers of *)
(* every size; and one overlay with so many names that the dictionary      *)
(* doubles twice, written in every order.                                  *)
EXTENDS TreeOutput, TLC

N(p) == node(p) :> 0
P(p, name, len) == prop(p, name) :> len

MCNameLen ==
    "uart" :> 4 @@ "dev" :> 3 @@ "f" :> 1 @@ "__overlay__" :> 11 @@ "target" :> 6
    @@ "reg" :> 3 @@ "pins" :> 4 @@ "irq" :> 3 @@ "clocks" :> 6 @@ "dma" :> 3 @@ "bus" :> 3

(* Several names collide in tables of 4, 8 and 16 slots.                   *)
MCHash == "reg" :> 3 @@ "pins" :> 7 @@ "irq" :> 15 @@ "clocks" :> 0 @@ "dma" :> 4 @@ "bus" :> 11
          @@ "target" :> 2

Board == [tree |-> N(<< >>) @@ P(<< >>, "reg", 4) @@ N(<<"uart">>) @@ P(<<"uart">>, "reg", 5),
          table |-> <<"reg">>, rsv |-> 1, slack |-> 0]

Ov == <<"f", "__overlay__">>
Base == N(<< >>) @@ N(<<"f">>) @@ N(Ov)

(* What an overlay holds, with the names in the order of its table.        *)
Contents ==
    { Base,
      Base @@ P(<<"f">>, "target", 4) @@ P(Ov, "reg", 9) @@ P(Ov, "pins", 1),
      Base @@ P(Ov, "pins", 40) @@ N(Append(Ov, "dev")) @@ P(Append(Ov, "dev"), "pins", 0),
      Base @@ N(Append(Ov, "uart")) @@ P(Append(Ov, "uart"), "reg", 1)
           @@ P(Append(Ov, "uart"), "pins", 3) }
Tables == {<<"target", "reg", "pins">>, <<"pins", "reg", "target">>}

Many == Base @@ P(Ov, "pins", 4) @@ P(Ov, "irq", 4) @@ P(Ov, "clocks", 4) @@ P(Ov, "dma", 4)
        @@ P(Ov, "bus", 4)
ManyTable == <<"bus", "irq", "pins", "dma", "clocks">>

With(t, table, slack, dst, buf) ==
    [main |-> Board, over |-> [tree |-> t, table |-> table, rsv |-> 2, slack |-> slack],
     src |-> Ov, dst |-> dst, buf |-> buf]

MCSetups ==
    {With(t, table, slack, dst, 0) :
        t \in Contents, table \in Tables, slack \in {0, 8}, dst \in {<< >>, <<"uart">>}}
    \cup {With(t, table, 0, dst, buf) :
        t \in Contents, table \in Tables, dst \in {<< >>, <<"uart">>}, buf \in 36..260}
    \cup {With(Many, ManyTable, 0, <<"uart">>, 0)}
=============================================================================
