------------------------------ MODULE MCGetDtb ------------------------------
(* Every device of the table and an unknown one, named in any of up to     *)
(* three pieces of the command line, with any two or fewer trees present.  *)
EXTENDS GetDtb

MCNames == {"I9300", "I9305", "N7100", "N7105", "G9000"}
Trees == UNION {{devices[i].dtbs[j] : j \in DOMAIN devices[i].dtbs} : i \in DOMAIN devices}

Lines ==
    {[reads |-> r, value |-> v, piece |-> p, how |-> h, stale |-> s] :
        r \in 1..3, v \in MCNames \cup {NoName}, p \in 1..3, h \in {"whole", "key", "value"},
        s \in {NoName, "I9305"}}

MCSituations ==
    {[cmdline |-> l, argc |-> 2, files |-> f] :
        l \in {x \in Lines : x.piece <= x.reads},
        f \in {{}} \cup {{t} : t \in Trees} \cup {{t, u} : t \in {"t0", "galaxy-s3-common"}, u \in Trees}}
    \cup {[cmdline |-> l, argc |-> 1, files |-> {}] : l \in {CHOOSE x \in Lines : TRUE}}
=============================================================================
