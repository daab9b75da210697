------------------------------ MODULE MCDtbProp ------------------------------
(* DtbProp on small trees: with and without /chosen, with properties       *)
(* already there in every short length, packed, with slack in the blob,    *)
(* with a file longer than the blob, and in every form.                    *)
EXTENDS DtbProp, TLC

BA == "bootargs"
IS == "initrd-start"

MCProps == {BA, IS}
MCNameLen == (BA :> 8) @@ (IS :> 18)
(* A property exists only in /chosen, and its name is in the string table. *)
Consistent(b) ==
    \A p \in MCProps : b.len[p] # Absent => b.chosen /\ p \in b.names

MCInputs ==
    {i \in {[blob |-> [alloc |-> 40 + s + f, total |-> 40 + s, used |-> 40,
                       chosen |-> c, len |-> l, names |-> n, form |-> m],
             size |-> 40 + s + f] :
                s \in {0, 4}, f \in {0, 5}, c \in BOOLEAN,
                l \in [MCProps -> {Absent, 3, 6}], n \in SUBSET MCProps,
                m \in {"rw", "ro", "bad"}} : Consistent(i.blob)}
=============================================================================
