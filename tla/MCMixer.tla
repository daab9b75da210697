------------------------------- MODULE MCMixer -------------------------------
(* Files of one or two devices, paths or stray controls, and all nestings  *)
(* of up to four events.                                                   *)
EXTENDS Mixer

Ev(ev, elem, name, val) == [ev |-> ev, elem |-> elem, name |-> name, val |-> val]
Elem(elem, name, inner) == <<Ev("start", elem, name, NULL)>> \o inner \o <<Ev("end", elem, NULL, NULL)>>
Ctl(name, val) == <<Ev("start", "ctl", name, val), Ev("end", "ctl", NULL, NULL)>>

MCAtoi == [v \in {"0", "7", "Mixer", "2nd", "Line"} |-> IF v = "7" THEN 7 ELSE IF v = "2nd" THEN 2 ELSE 0]
MCKind == [c \in {"vol", "mux"} |-> IF c = "vol" THEN "int" ELSE "enum"]
MCValues == [c \in {"vol", "mux"} |-> IF c = "vol" THEN 2 ELSE 1]
MCItems == [c \in {"vol", "mux"} |-> IF c = "vol" THEN {} ELSE {"Mixer"}]

Ctls == {Ctl("vol", "7"), Ctl("mux", "Mixer"), Ctl("lost", "0")}
Strange == {Ctl("mux", "2nd"), Ctl("vol", "Mixer"), Ctl("mux", "Line"), Ctl(NULL, "0"), Ctl("vol", NULL)}
Runs(S) == {<< >>} \cup S \cup {s \o t : s \in S, t \in S}

PathsOf(S) == {Elem("path", n, c) : n \in {"on", "off", NULL}, c \in S}
DevicesOf(S) == {Elem("device", n, c) : n \in {"spk", "mic"}, c \in S}
Paths1 == PathsOf({<< >>} \cup Ctls)
Tops == DevicesOf(Paths1) \cup Paths1 \cup Ctls

(* All nestings of up to n elements, whether they make sense or not.       *)
Nestings ==
    LET w[n \in 0..3] ==
            IF n = 0 THEN {<< >>}
            ELSE UNION {{Elem(x[1], x[2], s) \o t :
                           x \in {<<"device", "spk">>, <<"device", NULL>>, <<"path", "on">>, <<"path", NULL>>},
                           s \in w[k], t \in w[n - 1 - k]} : k \in 0..(n - 1)}
                 \cup {Ctl("vol", "7") \o t : t \in w[n - 1]}
    IN  w[3]

MCFiles ==
    {s \o t : s \in Tops, t \in Tops}
    \cup {Elem("tinyhal", NULL, s) : s \in PathsOf(Runs(Ctls \cup Strange)) \cup Nestings}

MCArgs ==
    {[argc |-> 4, path |-> "spk", en |-> en, card |-> TRUE] : en \in {0, 1}}
    \cup {[argc |-> 4, path |-> "mic", en |-> 1, card |-> FALSE]}
    \cup {[argc |-> n, path |-> "", en |-> 0, card |-> TRUE] : n \in {1, 2}}
=============================================================================
