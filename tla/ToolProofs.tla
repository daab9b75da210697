----------------------------- MODULE ToolProofs -----------------------------
(***************************************************************************)
(* Proofs about the two tools beside the boot program: getdtb, for every   *)
(* command line and set of trees, and the audio tool, for every file,      *)
(* command line and card.                                                  *)
(***************************************************************************)
EXTENDS GetDtb, Mixer, NumberFacts, TLAPS

(* getdtb *)

(* Nothing failed that getdtb cannot know of; getdtb can know the name;    *)
(* the devices of a name.                                                  *)
Legible == ~failed /\ Readable(setup.cmdline)
Known == setup.cmdline.value # NoName /\ setup.cmdline.how = "whole"
Number(name) == {i \in 1..4 : devices[i].bl_name = name}

(* The name is still ahead; it is found in its piece; the devices looked   *)
(* at are others; the trees tried are not there.                           *)
Reading == (pc = "read" /\ Legible) => round <= setup.cmdline.reads /\ (Known => round < setup.cmdline.piece)
Matching ==
    (pc \in {"match", "matched"} /\ Legible) => Known /\ bl_name = setup.cmdline.value
Searched ==
    pc = "match" => round < Len(devices) /\ \A i \in 1..round : devices[i].bl_name # bl_name
Trying ==
    pc = "matched" =>
        \/ device = Nobody /\ Number(bl_name) = {}
        \/ /\ \E i \in Number(bl_name) : device = devices[i]
           /\ round <= Len(device.dtbs) /\ \A j \in 1..round : device.dtbs[j] \notin setup.files

(* The inductive invariant of getdtb.                                      *)
DtbInv ==
    /\ setup \in Situations /\ round \in Nat
    /\ pc \in {"start", "read", "match", "matched", "done"}
    /\ pc # "done" => dtb = NoTree
    /\ pc = "start" => round = 0
    /\ Reading /\ Matching /\ Searched /\ Trying /\ RightTree

(* The table: four devices of different names with two trees each.         *)
LEMMA Table ==
    /\ DOMAIN devices = 1..4 /\ Len(devices) = 4
    /\ \A i \in 1..4 : 
         /\ DOMAIN devices[i].dtbs = 1..2 /\ Len(devices[i].dtbs) = 2
         /\ \A j \in 1..2 : devices[i].dtbs[j] # NoTree
         /\ devices[i].bl_name # NoName /\ devices[i] # Nobody
         /\ \A j \in 1..4 : devices[i].bl_name = devices[j].bl_name => i = j
<1> DEFINE d == devices
<1>1. /\ DOMAIN d = 1..4 /\ Len(d) = 4
      /\ d[1] = [bl_name |-> "I9300", dtbs |-> <<"m0", "galaxy-s3-common">>]
      /\ d[2] = [bl_name |-> "I9305", dtbs |-> <<"m3", "galaxy-s3-common">>]
      /\ d[3] = [bl_name |-> "N7100", dtbs |-> <<"t0-3g", "t0">>]
      /\ d[4] = [bl_name |-> "N7105", dtbs |-> <<"t0-lte", "t0">>]
  BY DEF devices
<1> HIDE DEF d
<1> DEFINE Pair(t) == DOMAIN t = 1..2 /\ Len(t) = 2 /\ t[1] # "" /\ t[2] # ""
<1>2. \A i \in 1..4 : Pair(d[i].dtbs)
  <2>1. \A a, b : (a # "" /\ b # "") => Pair(<<a, b>>)
    <3> TAKE a, b
    <3>1. Len(<<a, b>>) = 2
      OBVIOUS
    <3>2. DOMAIN <<a, b>> = 1..2 /\ <<a, b>>[1] = a /\ <<a, b>>[2] = b
      OBVIOUS
    <3> QED BY <3>1, <3>2
  <2> HIDE DEF Pair
  <2>2. Pair(d[1].dtbs)
    <3>1. d[1].dtbs = <<"m0", "galaxy-s3-common">>
      BY <1>1
    <3> QED BY <2>1, <3>1
  <2>3. Pair(d[2].dtbs)
    <3>1. d[2].dtbs = <<"m3", "galaxy-s3-common">>
      BY <1>1
    <3> QED BY <2>1, <3>1
  <2>4. Pair(d[3].dtbs)
    <3>1. d[3].dtbs = <<"t0-3g", "t0">>
      BY <1>1
    <3> QED BY <2>1, <3>1
  <2>5. Pair(d[4].dtbs)
    <3>1. d[4].dtbs = <<"t0-lte", "t0">>
      BY <1>1
    <3> QED BY <2>1, <3>1
  <2>6. \A i \in 1..4 : i = 1 \/ i = 2 \/ i = 3 \/ i = 4
    OBVIOUS
  <2> QED BY <2>2, <2>3, <2>4, <2>5, <2>6
<1> HIDE DEF Pair
<1>3. \A i \in 1..4 : d[i].bl_name # "" /\ \A j \in 1..4 : d[i].bl_name = d[j].bl_name => i = j
  <2>1. d[1].bl_name = "I9300" /\ d[2].bl_name = "I9305" /\ d[3].bl_name = "N7100" /\ d[4].bl_name = "N7105"
    BY <1>1
  <2>2. \A i \in 1..4 : i = 1 \/ i = 2 \/ i = 3 \/ i = 4
    OBVIOUS
  <2>3. ASSUME NEW i \in 1..4, NEW j \in 1..4, d[i].bl_name = d[j].bl_name PROVE i = j
    BY <2>1, <2>2, <2>3
  <2>4. \A i \in 1..4 : d[i].bl_name # ""
    BY <2>1, <2>2
  <2> QED BY <2>3, <2>4
<1>4. \A i \in 1..4 : d[i] # Nobody
  <2>1. Nobody.bl_name = ""
    BY DEF Nobody
  <2> QED BY <1>3, <2>1
<1>5. ASSUME NEW i \in 1..4 PROVE DOMAIN d[i].dtbs = 1..2 /\ Len(d[i].dtbs) = 2 /\ \A j \in 1..2 : d[i].dtbs[j] # ""
  <2>1. \A j \in 1..2 : j = 1 \/ j = 2
    OBVIOUS
  <2>2. ASSUME NEW t, Pair(t) PROVE DOMAIN t = 1..2 /\ Len(t) = 2 /\ \A j \in 1..2 : t[j] # ""
    BY <2>1, <2>2 DEF Pair
  <2> QED BY <1>2, <2>2
<1> QED BY <1>1, <1>3, <1>4, <1>5 DEF d, NoTree, NoName

(* The trees of a device that are there.                                   *)
There(i) == {j \in DOMAIN devices[i].dtbs : devices[i].dtbs[j] \in setup.files}

(* What getdtb should print, said of the one device of the name.           *)
LEMMA WantedIs ==
    ASSUME DtbInv
    PROVE  /\ ~Known => Wanted = {}
           /\ Number(setup.cmdline.value) = {} => Wanted = {}
           /\ \A i \in Number(setup.cmdline.value) : 
                /\ (Known /\ There(i) # {}) => Wanted = {devices[i].dtbs[Min(There(i))]}
                /\ There(i) = {} => Wanted = {}
<1> DEFINE named == {i \in DOMAIN devices : devices[i].bl_name = setup.cmdline.value /\ setup.cmdline.how = "whole"}
           W == {devices[i].dtbs[Min(There(i))] : i \in {x \in named : There(x) # {}}}
<1>1. Wanted = W
  BY DEF Wanted, There
<1>2. named \subseteq Number(setup.cmdline.value) /\ (Known => named = Number(setup.cmdline.value))
  BY Table DEF Number, Known
<1>3. ~Known => named = {}
  BY Table DEF Known
<1>4. \A i, j \in Number(setup.cmdline.value) : i = j
  BY Table DEF Number
<1> HIDE DEF named
<1>5. \A i \in Number(setup.cmdline.value) : named \subseteq {i} /\ (Known => named = {i})
  BY <1>2, <1>4
<1>6. ASSUME NEW i \in Number(setup.cmdline.value) 
      PROVE  /\ (Known /\ There(i) # {}) => W = {devices[i].dtbs[Min(There(i))]}
             /\ There(i) = {} => W = {}
  BY <1>5
<1> QED BY <1>1, <1>2, <1>3, <1>6

(* For every command line, however it is cut into pieces, and every set of *)
(* trees there: getdtb prints the right tree.                              *)
THEOREM RightTreeHolds == GetDtbSpec => []RightTree
<1>1. GetDtbInit => DtbInv
  BY DEF GetDtbInit, DtbInv, Reading, Matching, Searched, Trying, RightTree
<1>2. DtbInv /\ [GetDtbNext]_getdtbVars => DtbInv'
  <2> SUFFICES ASSUME DtbInv, [GetDtbNext]_getdtbVars PROVE DtbInv'
    OBVIOUS
  <2>1. setup' = setup /\ (pc # "done" => dtb = NoTree)
    BY DEF DtbInv, GetDtbNext, getdtbVars, Usage, OpenCmdline, ReadPiece, MatchDevice, NoDevice, TryDtb, GiveUp, Exits
  <2>2. /\ setup.argc \in Int /\ setup.cmdline.reads \in Nat
        /\ setup.cmdline.value # NoName => setup.cmdline.piece \in 1..setup.cmdline.reads
        /\ setup.cmdline.how \in {"whole", "key", "value"}
    BY GetDtbAssumption DEF DtbInv
  <2>10. Wanted' = Wanted
    BY <2>1 DEF Wanted
  <2> USE <2>1, <2>10 DEF DtbInv, Reading, Matching, Searched, Trying
  <2>3. CASE Usage
    BY <2>3, <2>2 DEF Usage, GiveUp, Exits, RightTree
  <2>4. CASE OpenCmdline
    BY <2>4, <2>2 DEF OpenCmdline, GiveUp, Exits, RightTree, Legible, Known
  <2>5. CASE ReadPiece
    <3>0. pc = "read"
      BY <2>5 DEF ReadPiece
    <3> DEFINE Step(name) ==
          IF name = NoName THEN round' = round + 1 /\ UNCHANGED <<pc, bl_name>>
          ELSE round' = 0 /\ pc' = "match" /\ bl_name' = name
    <3>1. CASE round < setup.cmdline.reads /\ (\E name \in NameFound(setup.cmdline, round + 1) : Step(name))
               /\ UNCHANGED <<setup, device, dtb, failed, code>>
      <4>1. PICK name \in NameFound(setup.cmdline, round + 1) : Step(name)
        BY <3>1
      <4>9. CASE name = NoName
        <5>1. (Known /\ Legible) => round + 1 # setup.cmdline.piece
          BY <4>1, <4>9, <2>2 DEF NameFound, Known, Legible, Readable
        <5> QED BY <3>0, <3>1, <4>1, <4>9, <5>1, <2>2 DEF Legible, Known, RightTree
      <4>8. CASE name # NoName
        <5>2. Legible => Known /\ name = setup.cmdline.value
          BY <4>1, <4>8, <2>2 DEF NameFound, Legible, Known, Readable
        <5>3. Legible' = Legible /\ Known' = Known
          BY <3>1, <4>1, <4>8 DEF Legible, Known
        <5>4. pc' # "done" /\ round' \in Nat /\ round' < Len(devices) /\ \A i \in 1..round' : devices[i].bl_name # bl_name
          BY <3>1, <4>1, <4>8, Table
        <5> HIDE DEF Known
        <5> QED BY <3>0, <3>1, <4>1, <4>8, <5>2, <5>3, <5>4, Table DEF RightTree
      <4> QED BY <4>8, <4>9
    <3>3. CASE round = setup.cmdline.reads /\ GiveUp /\ UNCHANGED failed
      <4>1. (Legible /\ Known) => FALSE
        BY <3>3, <2>5, <2>2 DEF ReadPiece, Known
      <4> QED BY <3>3, <4>1, <2>5, WantedIs DEF ReadPiece, RightTree, GiveUp, Exits, Legible
    <3>4. CASE GiveUp /\ failed' = TRUE
      BY <3>4, <2>5 DEF ReadPiece, GiveUp, Exits, RightTree
    <3> QED BY <2>5, <3>1, <3>3, <3>4 DEF ReadPiece
  <2>6. CASE MatchDevice
    <3>1. CASE devices[round + 1].bl_name = bl_name
      BY <3>1, <2>6, Table DEF MatchDevice, Number, RightTree, Legible, Known
    <3>2. CASE devices[round + 1].bl_name # bl_name
      BY <3>2, <2>6, Table DEF MatchDevice, Number, RightTree, Legible, Known
    <3> QED BY <3>1, <3>2
  <2>7. CASE NoDevice
    <3>1. Number(bl_name) = {}
      BY <2>7, Table DEF NoDevice, Number
    <3> QED BY <2>7, <3>1, WantedIs DEF NoDevice, GiveUp, Exits, RightTree, Legible
  <2>8. CASE TryDtb
    <3>1. PICK i \in Number(bl_name) : device = devices[i]
      BY <2>8 DEF TryDtb
    <3>2. /\ i \in 1..4 /\ DOMAIN device.dtbs = 1..2 /\ Len(device.dtbs) = 2
          /\ \A j \in 1..2 : device.dtbs[j] # NoTree
      BY <3>1, Table DEF Number
    <3>3. round <= 2 /\ \A j \in 1..round : device.dtbs[j] \notin setup.files
      BY <2>8, <3>2 DEF TryDtb
    <3>4. Legible => Known /\ i \in Number(setup.cmdline.value)
      BY <2>8, <3>1 DEF TryDtb
    <3>5. CASE round < 2 /\ device.dtbs[round + 1] \in setup.files
      <4>1. There(i) \in SUBSET Nat /\ round + 1 \in There(i) /\ \A j \in There(i) : round + 1 <= j
        BY <3>1, <3>2, <3>3, <3>5 DEF There
      <4>2. Min(There(i)) = round + 1
        BY <4>1, MinIs
      <4>3. pc' = "done" /\ dtb' = device.dtbs[round + 1] /\ code' = 0 /\ failed' = failed /\ round' = round
        BY <2>8, <3>2, <3>5 DEF TryDtb
      <4> QED BY <3>1, <3>2, <3>4, <3>5, <4>1, <4>2, <4>3, WantedIs DEF RightTree, Legible
    <3>6. CASE round < 2 /\ device.dtbs[round + 1] \notin setup.files
      <4>1. round' = round + 1 /\ UNCHANGED <<pc, device, dtb, bl_name>>
        BY <3>2, <3>6, <2>8 DEF TryDtb
      <4>2. pc = "matched" /\ \A j \in 1..round' : device.dtbs[j] \notin setup.files
        BY <2>8, <3>2, <3>3, <3>6, <4>1 DEF TryDtb
      <4>3. Legible' => Legible
        BY <2>8, <3>2, <3>6 DEF TryDtb, Legible
      <4> QED BY <3>1, <3>2, <3>3, <3>4, <3>6, <4>1, <4>2, <4>3 DEF RightTree, Known, Number
    <3>7. CASE round = 2
      <4>1. There(i) = {}
        BY <3>1, <3>2, <3>3, <3>7 DEF There
      <4>2. GiveUp /\ failed' = failed
        BY <2>8, <3>2, <3>7 DEF TryDtb
      <4> QED BY <2>8, <3>4, <4>1, <4>2, WantedIs DEF GiveUp, Exits, RightTree, Legible, TryDtb
    <3> QED BY <3>3, <3>5, <3>6, <3>7
  <2>9. CASE UNCHANGED getdtbVars
    BY <2>9 DEF getdtbVars, RightTree, Legible, Known, Number
  <2> QED BY <2>3, <2>4, <2>5, <2>6, <2>7, <2>8, <2>9 DEF GetDtbNext
<1> QED BY <1>1, <1>2, PTL DEF GetDtbSpec, DtbInv

------------------------------------------------------------------------
(* Mixer: nesting *)

(* How much deeper tag j of f leads than the place before tag i, and the   *)
(* open elements from i on.                                                *)
Tags(f, ev, i, j) == {x \in i..j : f[x].ev = ev}
Depth(f, i, j) == Cardinality(Tags(f, "start", i, j)) - Cardinality(Tags(f, "end", i, j))
Inner(f, k, i) == {x \in OpenIn(f, k) : x >= i}

(* Each open element is as deep as there are open elements from it on.     *)
Balanced(f, k) == \A i \in OpenIn(f, k) : Depth(f, i, k - 1) = Cardinality(Inner(f, k, i))

(* The tags of one kind from i to j are finitely many, and one more if the *)
(* next tag is of that kind.                                               *)
LEMMA TagsNext ==
    ASSUME NEW f, NEW ev, NEW i \in Int, NEW j \in Int, i <= j + 1
    PROVE  /\ IsFiniteSet(Tags(f, ev, i, j)) /\ Cardinality(Tags(f, ev, i, j)) \in Nat
           /\ Cardinality(Tags(f, ev, i, j + 1)) =
                 Cardinality(Tags(f, ev, i, j)) + IF f[j + 1].ev = ev THEN 1 ELSE 0
<1> DEFINE S == Tags(f, ev, i, j)
           T == Tags(f, ev, i, j + 1)
<1>1. IsFiniteSet(S)
  <2>1. S \subseteq i..j
    BY DEF Tags
  <2> QED BY <2>1, FS_Interval, FS_Subset
<1>2. j + 1 \notin S
  BY DEF Tags
<1>3. T = IF f[j + 1].ev = ev THEN S \cup {j + 1} ELSE S
  <2>1. i..(j + 1) = (i..j) \cup {j + 1}
    OBVIOUS
  <2> QED BY <2>1 DEF Tags
<1> HIDE DEF S, T
<1>4. Cardinality(S \cup {j + 1}) = Cardinality(S) + 1 /\ Cardinality(S) \in Nat
  BY <1>1, <1>2, FS_AddElement, FS_CardinalityType
<1> QED BY <1>1, <1>3, <1>4 DEF S, T

(* There is no tag from i to i - 1.                                        *)
LEMMA TagsNone ==
    ASSUME NEW f, NEW ev, NEW i \in Int
    PROVE  Cardinality(Tags(f, ev, i, i - 1)) = 0
<1>1. Tags(f, ev, i, i - 1) = {}
  BY DEF Tags
<1> QED BY <1>1, FS_EmptySet

(* A start tag leads one deeper, an end tag one back.                      *)
LEMMA DepthNext ==
    ASSUME NEW f, NEW i \in Int, NEW j \in Int, i <= j + 1
    PROVE  /\ Depth(f, i, j) \in Int
           /\ f[j + 1].ev = "start" => Depth(f, i, j + 1) = Depth(f, i, j) + 1
           /\ f[j + 1].ev = "end" => Depth(f, i, j + 1) = Depth(f, i, j) - 1
<1> DEFINE c(ev, n) == Cardinality(Tags(f, ev, i, n))
<1>1. \A ev : c(ev, j) \in Nat /\ c(ev, j + 1) = c(ev, j) + IF f[j + 1].ev = ev THEN 1 ELSE 0
  BY TagsNext
<1>2. Depth(f, i, j) = c("start", j) - c("end", j) /\ Depth(f, i, j + 1) = c("start", j + 1) - c("end", j + 1)
  BY DEF Depth
<1> HIDE DEF c
<1>3. c("start", j) \in Nat /\ c("end", j) \in Nat
  BY <1>1
<1>4. ASSUME f[j + 1].ev = "start" PROVE c("start", j + 1) = c("start", j) + 1 /\ c("end", j + 1) = c("end", j)
  BY <1>1, <1>4
<1>5. ASSUME f[j + 1].ev = "end" PROVE c("start", j + 1) = c("start", j) /\ c("end", j + 1) = c("end", j) + 1
  BY <1>1, <1>5
<1> QED BY <1>2, <1>3, <1>4, <1>5

(* Before element i one is not in it.                                      *)
LEMMA DepthNone ==
    ASSUME NEW f, NEW i \in Int
    PROVE  Depth(f, i, i - 1) = 0
BY TagsNone DEF Depth

(* Element i is closed before tag k.                                       *)
Closed(f, i, k) == \E j \in (i + 1)..(k - 1) : f[j].ev = "end" /\ Depth(f, i, j) = 0
(* The open elements are those that have started and not been closed.      *)
LEMMA OpenIs ==
    ASSUME NEW f, NEW k \in Int
    PROVE  OpenIn(f, k) = {i \in 1..(k - 1) : f[i].ev = "start" /\ ~Closed(f, i, k)}
<1>1. ASSUME NEW i \in 1..(k - 1), NEW j \in (i + 1)..(k - 1)
      PROVE  (Depth(f, i, j) = 0) = (Cardinality(Tags(f, "start", i, j)) = Cardinality(Tags(f, "end", i, j)))
  <2>1. Cardinality(Tags(f, "start", i, j)) \in Nat /\ Cardinality(Tags(f, "end", i, j)) \in Nat
    BY TagsNext
  <2> QED BY <2>1 DEF Depth
<1> DEFINE matched(i) ==
        \E j \in (i + 1)..(k - 1) : f[j].ev = "end" /\
            Cardinality(Tags(f, "start", i, j)) = Cardinality(Tags(f, "end", i, j))
<1>2. \A i \in 1..(k - 1) : matched(i) <=> Closed(f, i, k)
  BY <1>1 DEF Closed
<1>3. OpenIn(f, k) = {i \in 1..(k - 1) : f[i].ev = "start" /\ ~matched(i)}
  BY DEF OpenIn, Tags
<1> HIDE DEF matched
<1> QED BY <1>2, <1>3

(* The open elements are finitely many of the tags seen.                   *)
LEMMA OpenFinite ==
    ASSUME NEW f, NEW k \in Int
    PROVE  /\ IsFiniteSet(OpenIn(f, k)) /\ OpenIn(f, k) \subseteq 1..(k - 1)
           /\ \A i : IsFiniteSet(Inner(f, k, i)) /\ Cardinality(Inner(f, k, i)) \in Nat
<1>1. OpenIn(f, k) \subseteq 1..(k - 1)
  BY DEF OpenIn
<1>2. IsFiniteSet(1..(k - 1))
  BY FS_Interval
<1>3. IsFiniteSet(OpenIn(f, k))
  BY <1>1, <1>2, FS_Subset
<1>4. \A i : Inner(f, k, i) \subseteq OpenIn(f, k)
  BY DEF Inner
<1> QED BY <1>1, <1>3, <1>4, FS_Subset, FS_CardinalityType

(* A start tag opens its element, an end tag closes the innermost.         *)
LEMMA OpenStart ==
    ASSUME NEW f, NEW k \in Nat, k >= 1, Balanced(f, k), f[k].ev = "start"
    PROVE  OpenIn(f, k + 1) = OpenIn(f, k) \cup {k} /\ Balanced(f, k + 1)
<1> DEFINE O == OpenIn(f, k)
<1>1. O \subseteq 1..(k - 1) /\ IsFiniteSet(O)
  BY OpenFinite
<1>2. \A i \in 1..(k - 1) : Closed(f, i, k + 1) <=> Closed(f, i, k)
  <2> TAKE i \in 1..(k - 1)
  <2>1. (i + 1)..((k + 1) - 1) = ((i + 1)..(k - 1)) \cup {k}
    OBVIOUS
  <2> QED BY <2>1 DEF Closed
<1>3. ~Closed(f, k, k + 1)
  BY DEF Closed
<1>4. 1..((k + 1) - 1) = 1..(k - 1) \cup {k}
  OBVIOUS
<1>5. OpenIn(f, k + 1) = O \cup {k}
  BY <1>2, <1>3, <1>4, OpenIs
<1>6. ASSUME NEW i \in O PROVE Depth(f, i, k) = Cardinality(Inner(f, k + 1, i))
  <2>1. Inner(f, k + 1, i) = Inner(f, k, i) \cup {k} /\ k \notin Inner(f, k, i)
    BY <1>1, <1>5 DEF Inner
  <2>2. Cardinality(Inner(f, k + 1, i)) = Cardinality(Inner(f, k, i)) + 1
    BY <2>1, OpenFinite, FS_AddElement
  <2>3. Depth(f, i, (k - 1) + 1) = Depth(f, i, k - 1) + 1
    <3>1. i \in Int /\ k - 1 \in Int /\ i <= (k - 1) + 1 /\ (k - 1) + 1 = k
      BY <1>1
    <3> QED BY <3>1, DepthNext
  <2>4. Depth(f, i, k - 1) = Cardinality(Inner(f, k, i))
    BY DEF Balanced
  <2> QED BY <2>2, <2>3, <2>4
<1>7. Depth(f, k, k) = Cardinality(Inner(f, k + 1, k))
  <2>1. Inner(f, k + 1, k) = {k}
    BY <1>1, <1>5 DEF Inner
  <2>2. Depth(f, k, (k - 1) + 1) = Depth(f, k, k - 1) + 1
    BY DepthNext
  <2>3. Depth(f, k, k - 1) = 0
    BY DepthNone
  <2>4. Cardinality({k}) = 1
    BY FS_Singleton
  <2>5. (k - 1) + 1 = k
    OBVIOUS
  <2> QED BY <2>1, <2>2, <2>3, <2>4, <2>5
<1>8. (k + 1) - 1 = k
  OBVIOUS
<1> HIDE DEF O
<1> QED BY <1>5, <1>6, <1>7, <1>8 DEF Balanced, O

(* An end tag closes the innermost of the open elements.                   *)
LEMMA OpenEnd ==
    ASSUME NEW f, NEW k \in Nat, k >= 1, Balanced(f, k), f[k].ev = "end", OpenIn(f, k) # {}
    PROVE  /\ Max(OpenIn(f, k)) \in OpenIn(f, k) /\ \A x \in OpenIn(f, k) : x <= Max(OpenIn(f, k))
           /\ OpenIn(f, k + 1) = OpenIn(f, k) \ {Max(OpenIn(f, k))} /\ Balanced(f, k + 1)
<1> DEFINE O == OpenIn(f, k)
           m == Max(O)
<1>1. O \subseteq 1..(k - 1) /\ IsFiniteSet(O)
  BY OpenFinite
<1>2. m \in O /\ \A x \in O : x <= m
  <2>1. k - 1 \in Nat /\ O \in SUBSET (1..(k - 1)) /\ O # {}
    BY <1>1
  <2> HIDE DEF O
  <2> QED BY <2>1, MaxOf
<1> HIDE DEF m
<1>3. ASSUME NEW i \in O
      PROVE  /\ Depth(f, i, k) = Depth(f, i, k - 1) - 1 /\ Depth(f, i, k - 1) = Cardinality(Inner(f, k, i))
             /\ m \in Inner(f, k, i) /\ Cardinality(Inner(f, k, i)) \in Nat
             /\ Depth(f, i, k) = 0 <=> i = m
  <2>1. i \in Int /\ k - 1 \in Int /\ i <= (k - 1) + 1 /\ (k - 1) + 1 = k /\ i \in 1..(k - 1)
    BY <1>1
  <2>2. Depth(f, i, k) = Depth(f, i, k - 1) - 1
    BY <2>1, DepthNext
  <2>3. Depth(f, i, k - 1) = Cardinality(Inner(f, k, i))
    BY DEF Balanced
  <2>4. m \in Inner(f, k, i) /\ i \in Inner(f, k, i)
    BY <1>1, <1>2 DEF Inner
  <2>5. i = m => Inner(f, k, i) = {m}
    BY <1>1, <1>2 DEF Inner
  <2>6. Cardinality(Inner(f, k, i)) = 1 <=> \E x : Inner(f, k, i) = {x}
    <3>1. IsFiniteSet(Inner(f, k, i))
      BY OpenFinite
    <3> QED BY <3>1, FS_Singleton
  <2>7. Cardinality(Inner(f, k, i)) = 1 <=> i = m
    BY <2>4, <2>5, <2>6
  <2>8. Cardinality(Inner(f, k, i)) \in Nat
    BY OpenFinite
  <2> QED BY <2>2, <2>3, <2>4, <2>7, <2>8
<1>4. \A i \in O : Closed(f, i, k + 1) <=> i = m
  <2> TAKE i \in O
  <2>1. (i + 1)..((k + 1) - 1) = ((i + 1)..(k - 1)) \cup {k} /\ i \in 1..(k - 1)
    BY <1>1
  <2>2. ~Closed(f, i, k)
    BY OpenIs
  <2>3. Closed(f, i, k + 1) <=> Depth(f, i, k) = 0
    BY <2>1, <2>2 DEF Closed
  <2> QED BY <1>3, <2>3
<1>5. \A i \in 1..(k - 1) : ~Closed(f, i, k + 1) => ~Closed(f, i, k)
  <2> TAKE i \in 1..(k - 1)
  <2>1. (i + 1)..(k - 1) \subseteq (i + 1)..((k + 1) - 1)
    OBVIOUS
  <2> QED BY <2>1 DEF Closed
<1>6. 1..((k + 1) - 1) = 1..(k - 1) \cup {k}
  OBVIOUS
<1>7. OpenIn(f, k + 1) = O \ {m}
  <2>1. OpenIn(f, k + 1) = {i \in 1..((k + 1) - 1) : f[i].ev = "start" /\ ~Closed(f, i, k + 1)}
    BY OpenIs
  <2>2. O = {i \in 1..(k - 1) : f[i].ev = "start" /\ ~Closed(f, i, k)}
    BY OpenIs
  <2> HIDE DEF O
  <2>3. ASSUME NEW i \in OpenIn(f, k + 1) PROVE i \in O \ {m}
    <3>1. i # k /\ i \in 1..(k - 1) /\ f[i].ev = "start" /\ ~Closed(f, i, k + 1)
      BY <1>6, <2>1
    <3> QED BY <1>4, <1>5, <2>2, <3>1
  <2>4. ASSUME NEW i \in O \ {m} PROVE i \in OpenIn(f, k + 1)
    BY <1>4, <1>6, <2>1, <2>2
  <2> QED BY <2>3, <2>4
<1>8. ASSUME NEW i \in O \ {m} PROVE Depth(f, i, k) = Cardinality(Inner(f, k + 1, i))
  <2>1. Inner(f, k + 1, i) = Inner(f, k, i) \ {m}
    BY <1>7 DEF Inner
  <2>2. Cardinality(Inner(f, k + 1, i)) = Cardinality(Inner(f, k, i)) - 1
    BY <1>3, <2>1, OpenFinite, FS_RemoveElement
  <2> QED BY <1>3, <2>2
<1>9. (k + 1) - 1 = k
  OBVIOUS
<1> HIDE DEF O
<1> QED BY <1>2, <1>7, <1>8, <1>9 DEF Balanced, O, m

-----------------------------------------------------------------------------
(* The order of the controls *)
LEMMA RankLast ==
    ASSUME NEW K, IsFiniteSet(K), K \subseteq Int, NEW k \in Int, \A j \in K : j < k
    PROVE  /\ Cardinality(K \cup {k}) = Cardinality(K) + 1
           /\ Rank(K \cup {k}, k) = Cardinality(K) + 1
           /\ \A j \in K : Rank(K \cup {k}, j) = Rank(K, j)
<1>1. Cardinality(K \cup {k}) = Cardinality(K) + 1
  BY FS_AddElement
<1>2. {j \in K \cup {k} : j <= k} = K \cup {k}
  <2>1. \A j \in K \cup {k} : j <= k
    OBVIOUS
  <2> QED BY <2>1
<1>3. ASSUME NEW x \in K PROVE {j \in K \cup {k} : j <= x} = {j \in K : j <= x}
  OBVIOUS
<1> QED BY <1>1, <1>2, <1>3 DEF Rank

(* The places of the controls are numbers up to their number, in the order *)
(* of the file.                                                            *)
LEMMA RankIn ==
    ASSUME NEW K, IsFiniteSet(K), K \subseteq Int, NEW k \in K
    PROVE  /\ Rank(K, k) \in 1..Cardinality(K)
           /\ \A j \in K : j < k => Rank(K, j) < Rank(K, k)
<1> DEFINE Upto(x) == {j \in K : j <= x}
<1>1. \A x : IsFiniteSet(Upto(x)) /\ Cardinality(Upto(x)) \in Nat /\ Cardinality(Upto(x)) <= Cardinality(K)
  BY FS_Subset, FS_CardinalityType
<1>2. Cardinality(Upto(k)) # 0
  <2>1. Upto(k) # {}
    BY k \in Int
  <2> HIDE DEF Upto
  <2> QED BY <1>1, <2>1, FS_EmptySet
<1>3. ASSUME NEW j \in K, j < k PROVE Cardinality(Upto(j)) < Cardinality(Upto(k))
  <2>0. \A x \in K : x <= j => x <= k
    <3>1. \A x, y, z \in Int : (x <= y /\ y < z) => x <= z
      OBVIOUS
    <3>2. K \subseteq Int /\ j \in Int /\ k \in Int
      OBVIOUS
    <3> QED BY <1>3, <3>1, <3>2
  <2>1. Upto(j) \subseteq Upto(k) /\ k \in Upto(k) /\ k \notin Upto(j)
    <3>1. k \in Int /\ j \in Int
      OBVIOUS
    <3>2. k <= k /\ ~(k <= j)
      BY <1>3, <3>1
    <3> QED BY <2>0, <3>2
  <2> HIDE DEF Upto
  <2>2. Cardinality(Upto(j)) <= Cardinality(Upto(k)) /\ (Cardinality(Upto(j)) = Cardinality(Upto(k)) => Upto(j) = Upto(k))
    BY <1>1, <2>1, FS_Subset
  <2> QED BY <1>1, <2>1, <2>2
<1>4. Cardinality(K) \in Nat
  BY FS_CardinalityType
<1>5. \A x : Rank(K, x) = Cardinality(Upto(x))
  BY DEF Rank
<1> HIDE DEF Upto
<1>6. Cardinality(Upto(k)) \in 1..Cardinality(K)
  BY <1>1, <1>2, <1>4
<1> QED BY <1>3, <1>5, <1>6

(* Every place in the order is taken.                                      *)
LEMMA RankOnto ==
    ASSUME NEW K, IsFiniteSet(K), K \subseteq Int, NEW n \in 1..Cardinality(K)
    PROVE  \E k \in K : Rank(K, k) = n
<1> DEFINE N == Cardinality(K)
           r == [k \in K |-> Rank(K, k)]
<1>1. N \in Nat
  BY FS_CardinalityType
<1>2. \A k \in K : Rank(K, k) \in 1..N
  BY RankIn
<1>3. \A j, k \in K : Rank(K, j) = Rank(K, k) => j = k
  <2> TAKE j, k \in K
  <2>1. \A a, b \in K : a < b => Rank(K, a) < Rank(K, b)
    BY RankIn
  <2>2. Rank(K, j) \in Int /\ Rank(K, k) \in Int
    BY <1>1, <1>2
  <2>3. j \in Int /\ k \in Int
    OBVIOUS
  <2>4. ASSUME Rank(K, j) = Rank(K, k) PROVE j = k
    <3>1. ~(j < k) /\ ~(k < j)
      BY <2>1, <2>2, <2>4
    <3> QED BY <2>3, <3>1
  <2> QED BY <2>4
<1>4. r \in Injection(K, 1..N)
  BY <1>2, <1>3 DEF Injection, IsInjective
<1>5. IsFiniteSet(1..N) /\ Cardinality(1..N) = N
  BY <1>1, FS_Interval
<1> HIDE DEF N
<1>6. r \in Surjection(K, 1..N)
  <2> HIDE DEF r
  <2> QED BY <1>4, <1>5, FS_Injection DEF N
<1> QED BY <1>6 DEF Surjection, N

-----------------------------------------------------------------------------
(* Mixer: what the parser holds *)

(* What the file and the lists are made of.                                *)
WidgetOf(ctl) ==
    [name |-> ctl.name, intval |-> Atoi[ctl.val], strval |-> IF IsNumber(ctl.val) THEN NULL ELSE ctl.val]
Named == {file[k].name : k \in DOMAIN file}
Widgets == {WidgetOf(file[k]) : k \in {j \in DOMAIN file : NULL \notin {file[j].name, file[j].val}}}
WidgetLists == Seq(Widgets)
Places == {NULL, DefaultList} \cup ((DOMAIN cfg.settings) \X {"en", "dis"})

(* The types.                                                              *)
TypeOK ==
    /\ file \in Files /\ args \in Args
    /\ pc \in {"start", "parse", "parsed", "defaults", "path", "done"}
    /\ pos \in Nat \ {0} /\ 1..(pos - 1) \subseteq DOMAIN file
    /\ cur_device \in Named \cup {NULL}
    /\ cur_widget_list \in Places
    /\ cfg \in [default: WidgetLists, settings: Seq([name: Named, en: WidgetLists, dis: WidgetLists])]
    /\ short \in BOOLEAN

(* One setting per device.                                                 *)
Distinct ==
    \A i, j \in DOMAIN cfg.settings : cfg.settings[i].name = cfg.settings[j].name => i = j

(* The elements open now, and what of them the parser holds.               *)
Paths == OpenElems(pos, "path")
Devs == OpenElems(pos, "device")
Nesting ==
    /\ \A p, q \in Paths : p = q
    /\ \A d, e1 \in Devs : d = e1
    /\ \A d \in Devs : file[d].name # NULL
    /\ \A p \in Paths : \A d \in Devs : d < p /\ file[p].name # NULL
Held ==
    /\ Devs = {} => cur_device = NULL
    /\ \A d \in Devs : cur_device = file[d].name
    /\ Paths = {} => cur_widget_list = NULL
    /\ \A p \in Paths :
        IF cur_device = NULL THEN cur_widget_list = DefaultList
        ELSE Setting(cur_device) # 0
             /\ cur_widget_list = <<Setting(cur_device), IF file[p].name = "on" THEN "en" ELSE "dis">>

(* The list has the widget of each of the controls at its place, and no    *)
(* other.                                                                  *)
Placed(f, list, ctls) ==
    /\ Len(list) = Cardinality(ctls)
    /\ \A k \in ctls : list[Rank(ctls, k)] = WidgetOf(f[k])
AllPlaced ==
    /\ Placed(file, cfg.default, Nested(NULL, "en"))
    /\ \A d \in (Named \cup {args.path}) \ {NULL} : \A s \in {"en", "dis"} :
        Placed(file, ListOf(d, s), Nested(d, s))

(* As long as no allocation has failed: the types, and for a flat file     *)
(* what is open, what is held of it and what has been collected.           *)
Collected ==
    /\ TypeOK /\ Distinct /\ Balanced(file, pos)
    /\ (Flat /\ ~short) => Nesting /\ Held /\ AllPlaced

(* The parser's invariant.                                                 *)
FileOK ==
    /\ file \in Files /\ args \in Args
    /\ pos \in Nat \ {0} /\ 1..(pos - 1) \subseteq DOMAIN file /\ Balanced(file, pos)
    /\ pc \in {"start", "parse", "parsed", "defaults", "path", "done"} /\ short \in BOOLEAN
ParseInv == FileOK /\ (~short => Collected)

(* Nesting is a matter of the file alone.                                  *)
LEMMA SameFile ==
    ASSUME file' = file
    PROVE  /\ \A k, x : OpenElems(k, x)' = OpenElems(k, x)
           /\ \A k, d, s : In(k, d, s)' <=> In(k, d, s)
<1>1. \A k, x : OpenElems(k, x)' = OpenElems(k, x)
  BY DEF OpenElems, OpenIn
<1>2. \A k, d, s : In(k, d, s)' <=> In(k, d, s)
  <2> TAKE k, d, s
  <2>1. OpenElems(k, "path")' = OpenElems(k, "path") /\ OpenElems(k, "device")' = OpenElems(k, "device")
    BY <1>1
  <2>2. {file[i].name : i \in OpenElems(k, "device")}' = {file[i].name : i \in OpenElems(k, "device")}
    BY <2>1
  <2>3. (NULL \notin {file[k].name, file[k].val})' <=> NULL \notin {file[k].name, file[k].val}
    OBVIOUS
  <2> DEFINE names == {file[i].name : i \in OpenElems(k, "device")}
             present == NULL \notin {file[k].name, file[k].val}
             paths == OpenElems(k, "path")
  <2>4. In(k, d, s) <=> /\ file[k].ev = "start" /\ file[k].elem = "ctl" /\ present
                        /\ \E p \in paths : names = {d} \ {NULL} /\ (d # NULL => (file[p].name = "on") = (s = "en"))
    BY DEF In
  <2>5. In(k, d, s)' <=> /\ file'[k].ev = "start" /\ file'[k].elem = "ctl" /\ present'
                         /\ \E p \in paths' : names' = {d} \ {NULL} /\ (d # NULL => (file'[p].name = "on") = (s = "en"))
    BY DEF In
  <2>6. names' = names /\ present' = present /\ paths' = paths
    BY <2>1, <2>2, <2>3
  <2> HIDE DEF names, present, paths
  <2> QED BY <2>4, <2>5, <2>6
<1> QED BY <1>1, <1>2

(* What one tag of a well-nested file does to the open elements of each    *)
(* name.                                                                   *)
LEMMA OpensNext ==
    ASSUME file \in Files, pos \in Nat \ {0}, pos \in DOMAIN file, Balanced(file, pos)
    PROVE  /\ Balanced(file, pos + 1)
           /\ file[pos].ev = "start" =>
                \A x : OpenElems(pos + 1, x) =
                        IF file[pos].elem = x THEN OpenElems(pos, x) \cup {pos} ELSE OpenElems(pos, x)
           /\ file[pos].ev = "end" =>
                \E m \in OpenElems(pos, file[pos].elem) :
                    /\ \A x : \A i \in OpenElems(pos, x) : i <= m
                    /\ \A x : OpenElems(pos + 1, x) = OpenElems(pos, x) \ {m}
           /\ file[pos].ev = "start" \/ file[pos].ev = "end" 
<1> DEFINE O == OpenIn(file, pos)
           P == OpenIn(file, pos + 1)
           m == Max(O)
<1>1. \A k, x : OpenElems(k, x) = {i \in OpenIn(file, k) : file[i].elem = x}
  BY DEF OpenElems
<1>2. \/ file[pos].ev = "start"
      \/ file[pos].ev = "end" /\ O # {} /\ file[m].elem = file[pos].elem
  BY MixerAssumption DEF WellNested
<1>3. CASE file[pos].ev = "start"
  <2>1. P = O \cup {pos} /\ Balanced(file, pos + 1)
    BY <1>3, OpenStart
  <2> HIDE DEF O, P
  <2>2. \A x : OpenElems(pos + 1, x) = IF file[pos].elem = x THEN OpenElems(pos, x) \cup {pos} ELSE OpenElems(pos, x)
    BY <1>1, <2>1 DEF O, P
  <2> QED BY <1>3, <2>1, <2>2
<1>4. CASE file[pos].ev = "end" /\ O # {} /\ file[m].elem = file[pos].elem
  <2>1. P = O \ {m} /\ Balanced(file, pos + 1) /\ m \in O /\ \A x \in O : x <= m
    BY <1>4, OpenEnd
  <2> HIDE DEF O, P, m
  <2>2. \A x : OpenElems(pos + 1, x) = OpenElems(pos, x) \ {m}
    BY <1>1, <2>1 DEF O, P
  <2>3. m \in OpenElems(pos, file[pos].elem) /\ \A x : \A i \in OpenElems(pos, x) : i <= m
    BY <1>1, <1>4, <2>1 DEF O
  <2> QED BY <1>4, <2>1, <2>2, <2>3
<1> QED BY <1>2, <1>3, <1>4

(* A file that is flat up to here was so before, and this tag does not     *)
(* nest a path or a device wrongly.                                        *)
LEMMA FlatNext ==
    ASSUME file' = file, pos' = pos + 1, pos \in Nat \ {0}, Flat'
    PROVE  /\ Flat
           /\ file[pos].ev = "start" =>
                /\ file[pos].elem = "path" => Paths = {} /\ (file[pos].name = NULL => Devs = {})
                /\ file[pos].elem = "device" => Paths = {} /\ Devs = {} /\ file[pos].name # NULL
<1>1. \A k, x : OpenElems(k, x)' = OpenElems(k, x)
  BY SameFile
<1>2. 1..(pos' - 1) = 1..(pos - 1) \cup {pos}
  OBVIOUS
<1>3. \A k \in 1..(pos - 1) \cup {pos} : file[k].ev = "start" =>
        /\ file[k].elem = "path" =>
            OpenElems(k, "path") = {} /\ (file[k].name = NULL => OpenElems(k, "device") = {})
        /\ file[k].elem = "device" =>
            OpenElems(k, "path") \cup OpenElems(k, "device") = {} /\ file[k].name # NULL
  BY <1>1, <1>2 DEF Flat
<1> QED BY <1>3 DEF Flat, Paths, Devs

(* The place of a name in a list of settings.                              *)
Find(list, n) ==
    LET there == {i \in 1..Len(list) : list[i].name = n} IN IF there # {} THEN Min(there) ELSE 0

(* The search finds a setting of the name if there is one.                 *)
LEMMA FindIs ==
    ASSUME NEW T, NEW list \in Seq(T), NEW n
    PROVE  IF \E i \in DOMAIN list : list[i].name = n
           THEN Find(list, n) \in DOMAIN list /\ Find(list, n) # 0 /\ list[Find(list, n)].name = n
           ELSE Find(list, n) = 0
<1> DEFINE I == {i \in 1..Len(list) : list[i].name = n}
<1>1. Find(list, n) = IF I # {} THEN Min(I) ELSE 0
  BY DEF Find
<1>2. DOMAIN list = 1..Len(list) /\ I \in SUBSET Nat
  OBVIOUS
<1>3. ASSUME I # {} PROVE Min(I) \in I
  <2> HIDE DEF I
  <2> QED BY <1>2, <1>3, MinOf
<1>4. CASE I = {}
  BY <1>1, <1>2, <1>4
<1>5. CASE I # {}
  <2>1. Find(list, n) \in I
    BY <1>1, <1>3, <1>5
  <2> QED BY <1>2, <1>5, <2>1
<1> QED BY <1>4, <1>5

(* find_list finds the place of the name.                                  *)
LEMMA SettingIs == \A n : Setting(n) = Find(cfg.settings, n) /\ Setting(n)' = Find(cfg'.settings, n)
BY DEF Setting, Find, SelectInSeq

(* What a setting is.                                                      *)
SettingRecords == [name: Named, en: WidgetLists, dis: WidgetLists]

(* Where a setting is: at the only place with its name, or nowhere.        *)
LEMMA SettingAt ==
    ASSUME TypeOK, Distinct, NEW n
    PROVE  /\ \A i \in DOMAIN cfg.settings : cfg.settings[i].name = n => Setting(n) = i
           /\ Setting(n) # 0 => Setting(n) \in DOMAIN cfg.settings /\ cfg.settings[Setting(n)].name = n
           /\ Setting(n) = 0 => \A i \in DOMAIN cfg.settings : cfg.settings[i].name # n
           /\ Setting(n) \in Nat
<1>1. cfg.settings \in Seq(SettingRecords)
  BY DEF TypeOK, SettingRecords
<1>2. \A i \in DOMAIN cfg.settings : i \in Nat /\ i # 0
  BY <1>1
<1> QED BY <1>1, <1>2, FindIs, SettingIs DEF Distinct

(* A device gets a setting, empty as it was taken to be before.            *)
LEMMA SettingNew ==
    ASSUME TypeOK, Distinct, cur_device \in Named, cur_device # NULL, Setting(cur_device) = 0,
           cur_device' = cur_device,
           cfg' = [cfg EXCEPT !.settings = Append(@, [name |-> cur_device, en |-> << >>, dis |-> << >>])]
    PROVE  /\ cfg' \in [default: WidgetLists, settings: Seq(SettingRecords)] /\ cfg'.default = cfg.default
           /\ DOMAIN cfg.settings \subseteq DOMAIN cfg'.settings
           /\ Distinct'
           /\ Len(cfg'.settings) \in DOMAIN cfg'.settings
           /\ \A d, s : s \in {"en", "dis"} => ListOf(d, s)' = ListOf(d, s)
           /\ Setting(cur_device)' = Len(cfg'.settings) /\ Len(cfg'.settings) # 0
<1> DEFINE S == cfg.settings
           r == [name |-> cur_device, en |-> << >>, dis |-> << >>]
           n == Len(S)
<1>1. S \in Seq(SettingRecords) /\ cfg.default \in WidgetLists /\ cfg = [default |-> cfg.default, settings |-> S]
  BY DEF TypeOK, SettingRecords
<1>2. << >> \in WidgetLists
  BY DEF WidgetLists
<1>3. r \in SettingRecords
  BY <1>2 DEF SettingRecords
<1>4. cfg' = [default |-> cfg.default, settings |-> Append(S, r)]
  BY <1>1
<1> HIDE DEF S, r
<1>5. /\ Append(S, r) \in Seq(SettingRecords) /\ n \in Nat /\ Len(Append(S, r)) = n + 1
      /\ DOMAIN S = 1..n /\ DOMAIN Append(S, r) = 1..(n + 1)
      /\ \A i \in 1..n : Append(S, r)[i] = S[i]
      /\ Append(S, r)[n + 1] = r
  BY <1>1, <1>3
<1>6. r.name = cur_device /\ r["en"] = << >> /\ r["dis"] = << >>
  BY DEF r
<1>7. \A i \in 1..n : S[i].name # cur_device
  BY <1>5, SettingAt DEF S
<1>8. 1..(n + 1) = 1..n \cup {n + 1} /\ n + 1 \notin 1..n /\ n + 1 # 0 /\ 1..n \subseteq Nat
  BY <1>5
<1> HIDE DEF n
<1>9. Distinct'
  <2>1. \A i, j \in DOMAIN S : S[i].name = S[j].name => i = j
    BY DEF Distinct, S
  <2> QED BY <1>4, <1>5, <1>6, <1>7, <1>8, <2>1 DEF Distinct
<1>10. \A d : Setting(d)' = IF d = cur_device THEN n + 1 ELSE Setting(d)
  <2> TAKE d
  <2>1. Setting(d)' = Find(Append(S, r), d) /\ Setting(d) = Find(S, d)
    BY <1>4, SettingIs DEF S
  <2>2. IF \E i \in DOMAIN Append(S, r) : Append(S, r)[i].name = d
        THEN Find(Append(S, r), d) \in DOMAIN Append(S, r) /\ Find(Append(S, r), d) # 0 /\ Append(S, r)[Find(Append(S, r), d)].name = d
        ELSE Find(Append(S, r), d) = 0
    BY <1>5, FindIs
  <2>3. IF \E i \in DOMAIN S : S[i].name = d
        THEN Find(S, d) \in DOMAIN S /\ Find(S, d) # 0 /\ S[Find(S, d)].name = d
        ELSE Find(S, d) = 0
    BY <1>1, FindIs
  <2>4. CASE d = cur_device
    BY <1>5, <1>6, <1>7, <1>8, <2>1, <2>2, <2>4
  <2>5. CASE d # cur_device
    <3>1. \A i, j \in DOMAIN S : S[i].name = S[j].name => i = j
      BY DEF Distinct, S
    <3> QED BY <1>5, <1>6, <1>8, <2>1, <2>2, <2>3, <2>5, <3>1
  <2> QED BY <2>4, <2>5
<1>11. ASSUME NEW d, NEW s \in {"en", "dis"} PROVE ListOf(d, s)' = ListOf(d, s)
  <2>1. CASE d = cur_device
    <3>1. ListOf(d, s) = << >>
      BY <2>1 DEF ListOf
    <3>2. ListOf(d, s)' = r[s]
      BY <1>4, <1>5, <1>8, <1>10, <2>1 DEF ListOf
    <3> QED BY <1>6, <3>1, <3>2
  <2>2. CASE d # cur_device
    <3>1. Setting(d)' = Setting(d) /\ (Setting(d) # 0 => Setting(d) \in 1..n)
      BY <1>5, <1>10, <2>2, SettingAt DEF S
    <3>2. Setting(d) # 0 => cfg'.settings[Setting(d)] = cfg.settings[Setting(d)]
      BY <1>4, <1>5, <3>1 DEF S
    <3>3. ListOf(d, s)' = IF Setting(d) = 0 THEN << >> ELSE cfg'.settings[Setting(d)][s]
      BY <3>1 DEF ListOf
    <3>4. CASE Setting(d) = 0
      BY <3>3, <3>4 DEF ListOf
    <3>5. CASE Setting(d) # 0
      <4>1. ListOf(d, s)' = cfg'.settings[Setting(d)][s] /\ ListOf(d, s) = cfg.settings[Setting(d)][s]
        BY <3>3, <3>5 DEF ListOf
      <4> QED BY <3>2, <3>5, <4>1
    <3> QED BY <3>4, <3>5
  <2> QED BY <2>1, <2>2
<1>12. Setting(cur_device)' = n + 1
  <2>1. Setting(cur_device)' = Find(cfg'.settings, cur_device)
    BY SettingIs
  <2>2. \A d : d = cur_device => Find(cfg'.settings, d) = n + 1
    BY <1>10, SettingIs
  <2> QED BY <2>1, <2>2
<1>13. cfg' \in [default: WidgetLists, settings: Seq(SettingRecords)]
  <2>1. \A a, b, U, V : (a \in U /\ b \in V) => [default |-> a, settings |-> b] \in [default: U, settings: V]
    OBVIOUS
  <2>2. cfg.default \in WidgetLists /\ Append(S, r) \in Seq(SettingRecords)
    BY <1>1, <1>5
  <2>3. cfg' = [default |-> cfg.default, settings |-> Append(S, r)]
    BY <1>4
  <2> HIDE DEF S, r
  <2> QED BY <2>1, <2>2, <2>3
<1> QED BY <1>4, <1>5, <1>8, <1>9, <1>11, <1>12, <1>13 DEF S

(* A widget is added to one list of a setting.                             *)
LEMMA WidgetAdded ==
    ASSUME TypeOK, Distinct, NEW w \in Widgets, NEW i \in DOMAIN cfg.settings, NEW side \in {"en", "dis"},
           cfg' = [cfg EXCEPT !.settings[i][side] = Append(@, w)]
    PROVE  /\ cfg' \in [default: WidgetLists, settings: Seq(SettingRecords)] /\ cfg'.default = cfg.default
           /\ DOMAIN cfg'.settings = DOMAIN cfg.settings
           /\ Distinct'
           /\ \A d : Setting(d)' = Setting(d)
           /\ \A d, s : s \in {"en", "dis"} =>
                ListOf(d, s)' = IF d = cfg.settings[i].name /\ s = side THEN Append(ListOf(d, s), w) ELSE ListOf(d, s)
<1> DEFINE S == cfg.settings
           r == [S[i] EXCEPT ![side] = Append(@, w)]
           Z == [S EXCEPT ![i] = r]
<1>1. S \in Seq(SettingRecords) /\ cfg.default \in WidgetLists /\ cfg = [default |-> cfg.default, settings |-> S]
  BY DEF TypeOK, SettingRecords
<1>2. S[i] \in SettingRecords
  BY <1>1
<1>3. S[i][side] \in WidgetLists /\ Append(S[i][side], w) \in WidgetLists
  <2>1. S[i].en \in WidgetLists /\ S[i].dis \in WidgetLists
    BY <1>2 DEF SettingRecords
  <2>2. \A l \in WidgetLists : Append(l, w) \in WidgetLists
    BY DEF WidgetLists
  <2>3. S[i][side] \in WidgetLists
    BY <2>1
  <2> QED BY <2>2, <2>3
<1>4. /\ r \in SettingRecords /\ r.name = S[i].name /\ r[side] = Append(S[i][side], w)
      /\ \A s \in {"en", "dis"} : s # side => r[s] = S[i][s]
  BY <1>2, <1>3 DEF SettingRecords
<1>5. cfg' = [default |-> cfg.default, settings |-> Z]
  BY <1>1
<1> HIDE DEF S, r
<1>6. DOMAIN S = 1..Len(S) /\ Len(S) \in Nat /\ i \in DOMAIN S
  BY <1>1 DEF S
<1>7. Z \in Seq(SettingRecords) /\ DOMAIN Z = DOMAIN S /\ Z[i] = r /\ \A j \in DOMAIN S : j # i => Z[j] = S[j]
  BY <1>1, <1>4, <1>6
<1>8. \A j \in DOMAIN S : Z[j].name = S[j].name
  BY <1>4, <1>7
<1> HIDE DEF Z
<1>9. Distinct'
  <2>1. \A j, k \in DOMAIN S : S[j].name = S[k].name => j = k
    BY DEF Distinct, S
  <2> QED BY <1>5, <1>7, <1>8, <2>1 DEF Distinct
<1>10. \A d : Setting(d)' = Setting(d)
  <2> TAKE d
  <2>1. Setting(d)' = Find(Z, d) /\ Setting(d) = Find(S, d)
    BY <1>5, SettingIs DEF S
  <2>2. IF \E j \in DOMAIN Z : Z[j].name = d
        THEN Find(Z, d) \in DOMAIN Z /\ Find(Z, d) # 0 /\ Z[Find(Z, d)].name = d
        ELSE Find(Z, d) = 0
    BY <1>7, FindIs
  <2>3. IF \E j \in DOMAIN S : S[j].name = d
        THEN Find(S, d) \in DOMAIN S /\ Find(S, d) # 0 /\ S[Find(S, d)].name = d
        ELSE Find(S, d) = 0
    BY <1>1, FindIs
  <2>4. \A j, k \in DOMAIN S : S[j].name = S[k].name => j = k
    BY DEF Distinct, S
  <2> QED BY <1>7, <1>8, <2>1, <2>2, <2>3, <2>4
<1>11. ASSUME NEW d, NEW s \in {"en", "dis"}
       PROVE  ListOf(d, s)' = IF d = S[i].name /\ s = side THEN Append(ListOf(d, s), w) ELSE ListOf(d, s)
  <2>1. ListOf(d, s)' = IF Setting(d) = 0 THEN << >> ELSE Z[Setting(d)][s]
    <3>1. cfg'.settings = Z /\ Setting(d)' = Setting(d)
      BY <1>5, <1>10
    <3>2. ListOf(d, s)' = IF Setting(d)' = 0 THEN << >> ELSE cfg'.settings[Setting(d)'][s]
      BY DEF ListOf
    <3> QED BY <3>1, <3>2
  <2>2. ListOf(d, s) = IF Setting(d) = 0 THEN << >> ELSE S[Setting(d)][s]
    BY DEF ListOf, S
  <2>3. d = S[i].name => Setting(d) = i /\ Setting(d) # 0
    <3>1. i # 0
      BY <1>6
    <3> QED BY <1>6, <3>1, SettingAt DEF S
  <2>4. d # S[i].name => Setting(d) # i
    <3>1. Setting(d) # 0 => S[Setting(d)].name = d
      BY SettingAt DEF S
    <3>2. i # 0
      BY <1>6
    <3> QED BY <3>1, <3>2
  <2>5. Setting(d) # 0 => Setting(d) \in DOMAIN S
    BY SettingAt DEF S
  <2>6. CASE d = S[i].name
    BY <1>4, <1>7, <2>1, <2>2, <2>3, <2>6
  <2>7. CASE d # S[i].name
    <3>1. Setting(d) # 0 => Z[Setting(d)] = S[Setting(d)]
      BY <1>7, <2>4, <2>5, <2>7
    <3> QED BY <2>1, <2>2, <2>7, <3>1
  <2> QED BY <2>6, <2>7
<1>12. cfg' \in [default: WidgetLists, settings: Seq(SettingRecords)]
  <2>1. \A a, b, U, V : (a \in U /\ b \in V) => [default |-> a, settings |-> b] \in [default: U, settings: V]
    OBVIOUS
  <2>2. [default |-> cfg.default, settings |-> Z] \in [default: WidgetLists, settings: Seq(SettingRecords)]
    BY <1>1, <1>7, <2>1
  <2> QED BY <1>5, <2>2
<1> QED BY <1>5, <1>7, <1>9, <1>10, <1>11, <1>12 DEF S

(* What one tag does to the open paths and devices.                        *)
LEMMA Opened ==
    ASSUME TypeOK, Balanced(file, pos), pos \in DOMAIN file, file' = file, pos' = pos + 1
    PROVE  /\ Balanced(file', pos')
           /\ \/ file[pos].ev = "start"
              \/ file[pos].ev = "end"
           /\ file[pos].ev = "start" =>
                /\ Paths' = IF file[pos].elem = "path" THEN Paths \cup {pos} ELSE Paths
                /\ Devs' = IF file[pos].elem = "device" THEN Devs \cup {pos} ELSE Devs
           /\ file[pos].ev = "end" =>
                /\ file[pos].elem = "path" => \E m \in Paths : Paths' = Paths \ {m} /\ Devs' = Devs
                /\ file[pos].elem = "device" =>
                    \E m \in Devs : Paths' = Paths /\ Devs' = Devs \ {m} /\ \A i \in Paths : i <= m
                /\ file[pos].elem \notin {"path", "device"} => Paths' = Paths /\ Devs' = Devs
           /\ \A i \in Paths \cup Devs : i \in 1..(pos - 1)
<1>1. /\ Paths' = OpenElems(pos + 1, "path") /\ Devs' = OpenElems(pos + 1, "device")
      /\ Paths = OpenElems(pos, "path") /\ Devs = OpenElems(pos, "device")
  BY SameFile DEF Paths, Devs, OpenElems, OpenIn
<1>2. file \in Files /\ pos \in Nat \ {0}
  BY DEF TypeOK
<1>3. ASSUME NEW x, NEW m \in OpenElems(pos, file[pos].elem), file[pos].elem # x PROVE m \notin OpenElems(pos, x)
  BY <1>3 DEF OpenElems
<1>4. \A i \in Paths \cup Devs : i \in 1..(pos - 1)
  BY DEF Paths, Devs, OpenElems, OpenIn
<1>5. CASE file[pos].ev = "start"
  BY <1>1, <1>2, <1>4, <1>5, OpensNext
<1>6. CASE file[pos].ev = "end"
  <2>1. Balanced(file, pos + 1)
    BY <1>2, OpensNext
  <2>2. PICK m \in OpenElems(pos, file[pos].elem) :
              /\ \A x : \A i \in OpenElems(pos, x) : i <= m
              /\ \A x : OpenElems(pos + 1, x) = OpenElems(pos, x) \ {m}
    BY <1>2, <1>6, OpensNext
  <2>3. Paths' = Paths \ {m} /\ Devs' = Devs \ {m} /\ \A i \in Paths : i <= m
    BY <1>1, <2>2
  <2>4. /\ file[pos].elem = "path" => m \in Paths
        /\ file[pos].elem = "device" => m \in Devs
        /\ file[pos].elem # "path" => m \notin Paths
        /\ file[pos].elem # "device" => m \notin Devs
    BY <1>1, <1>3, <2>2
  <2>5. \A T : m \notin T => T \ {m} = T
    OBVIOUS
  <2>6. /\ file[pos].elem # "path" => Paths' = Paths
        /\ file[pos].elem # "device" => Devs' = Devs
    BY <2>3, <2>4, <2>5
  <2> QED BY <1>4, <1>6, <2>1, <2>3, <2>4, <2>6
<1> QED BY <1>2, <1>5, <1>6, OpensNext

(* In a flat file there is never more than one open path and one open      *)
(* device, and where a tag leads.                                          *)
LEMMA NestingNext ==
    ASSUME TypeOK, Balanced(file, pos), pos \in DOMAIN file, file' = file, pos' = pos + 1, Flat', Nesting
    PROVE  /\ Nesting'
           /\ file[pos].ev = "start" =>
                /\ file[pos].elem = "path" => Paths = {} /\ Paths' = {pos} /\ Devs' = Devs
                /\ file[pos].elem = "device" => Paths' = {} /\ Devs' = {pos} /\ file[pos].name # NULL
           /\ file[pos].ev = "end" =>
                /\ file[pos].elem = "path" => Paths' = {} /\ Devs' = Devs
                /\ file[pos].elem = "device" => Paths' = {} /\ Devs' = {}
           /\ file[pos].elem \notin {"path", "device"} => Paths' = Paths /\ Devs' = Devs
<1> DEFINE el == file[pos].elem
<1>1. /\ file[pos].ev = "start" => 
        /\ el = "path" => Paths = {} /\ (file[pos].name = NULL => Devs = {})
        /\ el = "device" => Paths = {} /\ Devs = {} /\ file[pos].name # NULL
  BY FlatNext DEF TypeOK
<1>2. /\ \A p, q \in Paths : p = q
      /\ \A d, e1 \in Devs : d = e1
      /\ \A d \in Devs : file[d].name # NULL
      /\ \A p \in Paths : \A d \in Devs : d < p /\ file[p].name # NULL
      /\ \A i \in Paths \cup Devs : i \in 1..(pos - 1)
  BY Opened DEF Nesting
<1> DEFINE Goal == 
      /\ Nesting'
      /\ file[pos].ev = "start" =>
           /\ el = "path" => Paths = {} /\ Paths' = {pos} /\ Devs' = Devs
           /\ el = "device" => Paths' = {} /\ Devs' = {pos} /\ file[pos].name # NULL
      /\ file[pos].ev = "end" =>
           /\ el = "path" => Paths' = {} /\ Devs' = Devs
           /\ el = "device" => Paths' = {} /\ Devs' = {}
      /\ el \notin {"path", "device"} => Paths' = Paths /\ Devs' = Devs
<1>3. CASE file[pos].ev = "start" /\ el = "path"
  <2>1. Paths' = {pos} /\ Devs' = Devs
    BY <1>1, <1>3, Opened
  <2>2. \A d \in Devs : d < pos
    BY <1>2 DEF TypeOK
  <2>3. Nesting'
    BY <1>1, <1>2, <1>3, <2>1, <2>2 DEF Nesting
  <2> QED BY <1>1, <1>3, <2>1, <2>3
<1>4. CASE file[pos].ev = "start" /\ el = "device"
  <2>1. Paths' = {} /\ Devs' = {pos}
    BY <1>1, <1>4, Opened
  <2>3. Nesting'
    BY <1>1, <1>4, <2>1 DEF Nesting
  <2> QED BY <1>1, <1>4, <2>1, <2>3
<1>5. CASE file[pos].ev = "end" /\ el = "path"
  <2>1. Paths' = {} /\ Devs' = Devs
    <3>1. PICK m \in Paths : Paths' = Paths \ {m} /\ Devs' = Devs
      BY <1>5, Opened
    <3> QED BY <1>2, <3>1
  <2>3. Nesting'
    BY <1>2, <2>1 DEF Nesting
  <2> QED BY <1>5, <2>1, <2>3
<1>6. CASE file[pos].ev = "end" /\ el = "device"
  <2>1. Paths' = {} /\ Devs' = {}
    <3>1. PICK m \in Devs : Paths' = Paths /\ Devs' = Devs \ {m} /\ \A i \in Paths : i <= m
      BY <1>6, Opened
    <3>2. \A p \in Paths : m < p /\ p <= m /\ p \in Int /\ m \in Int
      BY <1>2, <3>1
    <3>3. Paths = {}
      BY <3>2
    <3> QED BY <1>2, <3>1, <3>3
  <2>3. Nesting'
    BY <2>1 DEF Nesting
  <2> QED BY <1>6, <2>1, <2>3
<1>7. CASE el \notin {"path", "device"}
  <2>1. Paths' = Paths /\ Devs' = Devs
    BY <1>7, Opened
  <2>3. Nesting'
    BY <1>2, <2>1 DEF Nesting
  <2> QED BY <1>7, <2>1, <2>3
<1>8. file[pos].ev = "start" \/ file[pos].ev = "end"
  BY Opened
<1> QED BY <1>3, <1>4, <1>5, <1>6, <1>7, <1>8

-----------------------------------------------------------------------------
(* The events *)

(* The controls of a device and state are finitely many.                   *)
LEMMA NestedFinite ==
    ASSUME TypeOK, NEW d, NEW s
    PROVE  Nested(d, s) \subseteq 1..(pos - 1) /\ IsFiniteSet(Nested(d, s))
<1>1. Nested(d, s) \subseteq 1..(pos - 1)
  BY DEF Nested
<1>2. IsFiniteSet(1..(pos - 1))
  BY FS_Interval DEF TypeOK
<1> QED BY <1>1, <1>2, FS_Subset

(* One more tag adds at most itself to the controls.                       *)
LEMMA NestedNext ==
    ASSUME TypeOK, file' = file, pos' = pos + 1
    PROVE  \A d, s : Nested(d, s)' = IF In(pos, d, s) THEN Nested(d, s) \cup {pos} ELSE Nested(d, s)
<1> TAKE d, s
<1>1. \A k : In(k, d, s)' <=> In(k, d, s)
  BY SameFile
<1>2. Nested(d, s)' = {k \in 1..(pos' - 1) : In(k, d, s)'}
  BY DEF Nested
<1>3. 1..(pos' - 1) = 1..(pos - 1) \cup {pos}
  BY DEF TypeOK
<1> QED BY <1>1, <1>2, <1>3 DEF Nested

(* A widget appended for the next control is at its place, and the others  *)
(* stay at theirs.                                                         *)
LEMMA PlacedNext ==
    ASSUME NEW f, NEW T, NEW list \in Seq(T), NEW k \in Nat, NEW K \in SUBSET (1..(k - 1)),
           Placed(f, list, K), WidgetOf(f[k]) \in T
    PROVE  Placed(f, Append(list, WidgetOf(f[k])), K \cup {k})
<1> DEFINE w == WidgetOf(f[k])
<1>1. IsFiniteSet(K) /\ Cardinality(K) \in Nat
  <2>1. IsFiniteSet(1..(k - 1))
    BY FS_Interval
  <2>2. IsFiniteSet(K)
    BY <2>1, FS_Subset
  <2> QED BY <2>2, FS_CardinalityType
<1>2. /\ Cardinality(K \cup {k}) = Cardinality(K) + 1
      /\ Rank(K \cup {k}, k) = Cardinality(K) + 1
      /\ \A j \in K : Rank(K \cup {k}, j) = Rank(K, j)
  <2>1. K \subseteq Int /\ k \in Int /\ \A j \in K : j < k
    OBVIOUS
  <2> QED BY <1>1, <2>1, RankLast
<1>3. \A j \in K : Rank(K, j) \in 1..Cardinality(K)
  <2>1. K \subseteq Int
    OBVIOUS
  <2> QED BY <1>1, <2>1, RankIn
<1>4. Len(list) = Cardinality(K) /\ \A j \in K : list[Rank(K, j)] = WidgetOf(f[j])
  BY DEF Placed
<1> HIDE DEF w
<1>5. /\ Len(Append(list, w)) = Len(list) + 1 /\ Append(list, w)[Len(list) + 1] = w
      /\ \A j \in 1..Len(list) : Append(list, w)[j] = list[j]
  BY DEF w
<1>6. \A j \in K : Append(list, w)[Rank(K \cup {k}, j)] = WidgetOf(f[j])
  BY <1>2, <1>3, <1>4, <1>5
<1>7. Append(list, w)[Rank(K \cup {k}, k)] = WidgetOf(f[k])
  BY <1>2, <1>4, <1>5 DEF w
<1> QED BY <1>2, <1>4, <1>5, <1>6, <1>7 DEF Placed, w

(* Without a new control nothing has to move.                              *)
LEMMA AllPlacedSame ==
    ASSUME TypeOK, AllPlaced, file' = file, args' = args, pos' = pos + 1,
           cfg'.default = cfg.default,
           \A d, s : s \in {"en", "dis"} => ListOf(d, s)' = ListOf(d, s),
           \A d, s : ~In(pos, d, s)
    PROVE  AllPlaced'
<1>1. \A d, s : Nested(d, s)' = Nested(d, s)
  BY NestedNext
<1>2. Placed(file', cfg'.default, Nested(NULL, "en")')
  <2>1. Nested(NULL, "en")' = Nested(NULL, "en")
    BY <1>1
  <2> QED BY <2>1 DEF AllPlaced
<1>3. ASSUME NEW d \in ((Named \cup {args.path}) \ {NULL})', NEW s \in {"en", "dis"}
      PROVE  Placed(file', ListOf(d, s)', Nested(d, s)')
  <2>1. d \in (Named \cup {args.path}) \ {NULL}
    BY <1>3 DEF Named
  <2>2. Nested(d, s)' = Nested(d, s) /\ ListOf(d, s)' = ListOf(d, s)
    BY <1>1
  <2> QED BY <2>1, <2>2 DEF AllPlaced
<1> QED BY <1>2, <1>3 DEF AllPlaced

(* Without a change of the configuration its lists stay.                   *)
LEMMA SameSettings ==
    ASSUME cfg' = cfg
    PROVE  /\ \A n : Setting(n)' = Setting(n)
           /\ \A d, s : ListOf(d, s)' = ListOf(d, s)
           /\ Distinct => Distinct'
<1>1. \A n : Setting(n)' = Setting(n)
  BY SettingIs
<1>2. \A d, s : ListOf(d, s)' = ListOf(d, s)
  <2> TAKE d, s
  <2>1. Setting(d)' = Setting(d)
    BY <1>1
  <2> QED BY <2>1 DEF ListOf
<1>3. Distinct => Distinct'
  BY DEF Distinct
<1> QED BY <1>1, <1>2, <1>3

(* What an event must see to.                                              *)
Kept ==
    /\ TypeOK' /\ Distinct'
    /\ (Flat' /\ ~short' /\ Nesting /\ Held /\ AllPlaced) => Held' /\ AllPlaced'

(* The types after an event, from those of what it sets.                   *)
LEMMA TypeNext ==
    ASSUME TypeOK, pc' \in {"start", "parse", "parsed", "defaults", "path", "done"},
           file' = file, args' = args, pos' = pos + 1, pos \in DOMAIN file,
           cur_device' \in Named \cup {NULL},
           cur_widget_list' \in {NULL, DefaultList} \cup ((DOMAIN cfg'.settings) \X {"en", "dis"}),
           cfg' \in [default: WidgetLists, settings: Seq(SettingRecords)],
           short' \in BOOLEAN
    PROVE  TypeOK'
<1>1. Named' = Named /\ WidgetLists' = WidgetLists /\ DefaultList' = DefaultList
  BY DEF Named, WidgetLists, Widgets, DefaultList
<1>2. pos' \in Nat \ {0} /\ 1..(pos' - 1) \subseteq DOMAIN file
  <2>1. 1..(pos' - 1) = 1..(pos - 1) \cup {pos}
    BY DEF TypeOK
  <2> QED BY <2>1 DEF TypeOK
<1> QED BY <1>1, <1>2 DEF TypeOK, SettingRecords, Places

(* At the start of a path the parser takes the list of the open device and *)
(* of the path's state, and a new setting has no controls yet.             *)
LEMMA PathStarts ==
    ASSUME Collected, ParseEvent, ~short', file[pos].ev = "start", file[pos].elem = "path", StartPath
    PROVE  Kept
<1>1. /\ TypeOK /\ Distinct /\ pos \in DOMAIN file /\ file' = file /\ args' = args /\ pos' = pos + 1 /\ pc' = pc
      /\ cur_device' = cur_device /\ short' = short /\ cur_device \in Named \cup {NULL}
  BY DEF Collected, ParseEvent, StartPath, NewSetting, Dies, TypeOK, mainVars
<1>2. Side \in {"en", "dis"}
  BY DEF Side
<1>3. \A d, s : ~In(pos, d, s)
  BY DEF In
<1> DEFINE k == Setting(cur_device)
           r == [name |-> cur_device, en |-> << >>, dis |-> << >>]
<1>4. /\ cfg' \in [default: WidgetLists, settings: Seq(SettingRecords)] /\ cfg'.default = cfg.default
      /\ Distinct'
      /\ \A d, s : s \in {"en", "dis"} => ListOf(d, s)' = ListOf(d, s)
      /\ \/ cur_device = NULL /\ cur_widget_list' = DefaultList
         \/ /\ cur_device # NULL /\ k' \in DOMAIN cfg'.settings /\ k' # 0
            /\ cur_widget_list' = <<k', Side>>
  <2>1. CASE cur_device = NULL
    BY <1>1, <2>1, SameSettings DEF StartPath, TypeOK, SettingRecords
  <2>2. CASE cur_device # NULL /\ k # 0
    <3>1. cfg' = cfg /\ cur_widget_list' = <<k, Side>>
      BY <2>2 DEF StartPath, Dies
    <3>2. k' = k
      <4>1. \A d : Setting(d)' = Find(cfg'.settings, d) /\ Setting(d) = Find(cfg.settings, d)
        BY SettingIs
      <4>2. k' = Find(cfg'.settings, cur_device')
        BY SettingIs
      <4> QED BY <1>1, <3>1, <4>1, <4>2
    <3>3. k \in DOMAIN cfg.settings
      BY <1>1, <2>2, SettingAt
    <3> QED BY <1>1, <2>2, <3>1, <3>2, <3>3, SameSettings DEF TypeOK, SettingRecords
  <2>3. CASE cur_device # NULL /\ k = 0
    <3>1. cfg' = [cfg EXCEPT !.settings = Append(@, r)] /\ cur_widget_list' = <<Len(cfg'.settings), Side>>
      BY <2>3 DEF StartPath, NewSetting, Dies
    <3>2. /\ cfg' \in [default: WidgetLists, settings: Seq(SettingRecords)] /\ cfg'.default = cfg.default
          /\ Distinct'
          /\ Len(cfg'.settings) \in DOMAIN cfg'.settings
          /\ \A d, s : s \in {"en", "dis"} => ListOf(d, s)' = ListOf(d, s)
          /\ k' = Len(cfg'.settings) /\ Len(cfg'.settings) # 0
      BY <1>1, <2>3, <3>1, SettingNew
    <3> QED BY <2>3, <3>1, <3>2
  <2> QED BY <2>1, <2>2, <2>3
<1>5. TypeOK'
  <2>1. cur_widget_list' \in {NULL, DefaultList} \cup ((DOMAIN cfg'.settings) \X {"en", "dis"})
    BY <1>2, <1>4
  <2>2. pc' \in {"start", "parse", "parsed", "defaults", "path", "done"} /\ short' \in BOOLEAN
    BY <1>1 DEF TypeOK
  <2> QED BY <1>1, <1>4, <2>1, <2>2, TypeNext
<1>6. ASSUME Flat', Nesting, Held, AllPlaced PROVE Held'
  <2>1. Paths = {} /\ Paths' = {pos} /\ Devs' = Devs
    BY <1>1, <1>6, NestingNext DEF Collected
  <2>2. Devs = {} => cur_device = NULL
    BY <1>6 DEF Held
  <2>3. \A d \in Devs : cur_device = file[d].name
    BY <1>6 DEF Held
  <2>4. cur_device # NULL => file[pos].name # NULL
    <3>1. file[pos].name = NULL => Devs = {}
      BY <1>1, <1>6, FlatNext DEF TypeOK
    <3> QED BY <2>2, <3>1
  <2>5. cur_device # NULL => Side = IF file[pos].name = "on" THEN "en" ELSE "dis"
    BY <2>4 DEF StartPath, Side, e
  <2>6. DefaultList' = DefaultList
    BY DEF DefaultList
  <2> QED BY <1>1, <1>4, <2>1, <2>2, <2>3, <2>5, <2>6 DEF Held
<1>7. ASSUME AllPlaced PROVE AllPlaced'
  BY <1>1, <1>3, <1>4, <1>7, AllPlacedSame
<1> QED BY <1>4, <1>5, <1>6, <1>7 DEF Kept

(* Any other tag that is not a control.                                    *)
LEMMA OtherTag ==
    ASSUME Collected, ParseEvent, ~short', cfg' = cfg, short' = short, pc' = pc,
           file[pos].ev = "end" \/ file[pos].elem # "ctl",
           cur_device' \in Named \cup {NULL},
           cur_widget_list' \in {NULL, cur_widget_list},
           (Flat' /\ Nesting /\ Held) => Held'
    PROVE  Kept
<1>1. /\ TypeOK /\ Distinct /\ pos \in DOMAIN file /\ file' = file /\ args' = args /\ pos' = pos + 1 /\ pc' = pc
  BY DEF Collected, ParseEvent
<1>2. \A d, s : ~In(pos, d, s)
  BY DEF In
<1>3. TypeOK'
  <2>1. cur_widget_list' \in {NULL, DefaultList} \cup ((DOMAIN cfg'.settings) \X {"en", "dis"})
    BY <1>1 DEF TypeOK, Places
  <2>2. pc' \in {"start", "parse", "parsed", "defaults", "path", "done"} /\ short' \in BOOLEAN
    BY <1>1 DEF TypeOK
  <2>3. cfg' \in [default: WidgetLists, settings: Seq(SettingRecords)]
    BY <1>1 DEF TypeOK, SettingRecords
  <2> QED BY <1>1, <2>1, <2>2, <2>3, TypeNext
<1>4. AllPlaced => AllPlaced'
  BY <1>1, <1>2, AllPlacedSame, SameSettings
<1> QED BY <1>1, <1>3, <1>4, SameSettings DEF Kept

(* At the start of a device the parser takes its name.                     *)
LEMMA DeviceStarts ==
    ASSUME Collected, ParseEvent, ~short', file[pos].ev = "start", file[pos].elem = "device", StartDevice
    PROVE  Kept
<1>1. /\ TypeOK /\ pos \in DOMAIN file /\ file' = file /\ pos' = pos + 1
      /\ cfg' = cfg /\ short' = short /\ cur_widget_list' = cur_widget_list /\ pc' = pc
      /\ cur_device' = IF file[pos].name = NULL THEN cur_device ELSE file[pos].name
  BY DEF Collected, ParseEvent, StartDevice, mainVars, e
<1>2. cur_device' \in Named \cup {NULL}
  BY <1>1 DEF Named, TypeOK
<1>3. ASSUME Flat', Nesting, Held PROVE Held'
  <2>1. Paths' = {} /\ Devs' = {pos} /\ file[pos].name # NULL
    BY <1>1, <1>3, NestingNext DEF Collected
  <2>2. Paths = {}
    BY <1>1, <1>3, FlatNext DEF TypeOK
  <2>3. cur_widget_list = NULL
    BY <1>3, <2>2 DEF Held
  <2>4. cur_device' = file[pos].name
    BY <1>1, <2>1
  <2> QED BY <1>1, <2>1, <2>3, <2>4 DEF Held
<1> QED BY <1>1, <1>2, <1>3, OtherTag

(* Other elements change nothing.                                          *)
LEMMA OtherStarts ==
    ASSUME Collected, ParseEvent, ~short', file[pos].ev = "start", file[pos].elem \notin {"path", "device", "ctl"},
           UNCHANGED <<parserVars, cfg, short, mainVars>>
    PROVE  Kept
<1>1. /\ TypeOK /\ pos \in DOMAIN file /\ file' = file /\ pos' = pos + 1
      /\ cfg' = cfg /\ short' = short /\ cur_widget_list' = cur_widget_list /\ cur_device' = cur_device
      /\ pc' = pc
  BY DEF Collected, ParseEvent, parserVars, mainVars
<1>2. ASSUME Flat', Nesting, Held PROVE Held'
  <2>1. Paths' = Paths /\ Devs' = Devs
    BY <1>1, <1>2, NestingNext DEF Collected
  <2>2. Setting(cur_device)' = Setting(cur_device) /\ DefaultList' = DefaultList
    <3>1. \A d : Setting(d)' = Find(cfg'.settings, d) /\ Setting(d) = Find(cfg.settings, d)
      BY SettingIs
    <3>2. Setting(cur_device)' = Find(cfg'.settings, cur_device')
      BY SettingIs
    <3> QED BY <1>1, <3>1, <3>2 DEF DefaultList
  <2> QED BY <1>1, <1>2, <2>1, <2>2 DEF Held
<1> QED BY <1>1, <1>2, OtherTag DEF TypeOK

(* At the end of a path or a device the parser forgets it; no list         *)
(* outlives its path.                                                      *)
LEMMA ElementEnds ==
    ASSUME Collected, ParseEvent, ~short', file[pos].ev = "end", config_end
    PROVE  Kept
<1>1. /\ TypeOK /\ pos \in DOMAIN file /\ file' = file /\ pos' = pos + 1
      /\ cfg' = cfg /\ short' = short /\ pc' = pc
      /\ cur_widget_list' = IF file[pos].elem = "path" THEN NULL ELSE cur_widget_list
      /\ cur_device' = IF file[pos].elem = "device" THEN NULL ELSE cur_device
  BY DEF Collected, ParseEvent, config_end, e, mainVars
<1>2. ASSUME Flat', Nesting, Held PROVE Held'
  <2>1. /\ file[pos].elem = "path" => Paths' = {} /\ Devs' = Devs
        /\ file[pos].elem = "device" => Paths' = {} /\ Devs' = {}
        /\ file[pos].elem \notin {"path", "device"} => Paths' = Paths /\ Devs' = Devs
    BY <1>1, <1>2, NestingNext DEF Collected
  <2>2. CASE file[pos].elem = "path"
    BY <1>1, <1>2, <2>1, <2>2 DEF Held
  <2>3. CASE file[pos].elem = "device"
    <3>1. Paths = {}
      <4>1. Paths' = Paths
        <5>1. PICK m \in Devs : Paths' = Paths
          BY <1>1, <2>3, Opened DEF Collected
        <5> QED BY <5>1
      <4> QED BY <2>1, <2>3, <4>1
    <3> QED BY <1>1, <1>2, <2>1, <2>3, <3>1 DEF Held
  <2>4. CASE file[pos].elem \notin {"path", "device"}
    <3>1. cur_widget_list' = cur_widget_list /\ cur_device' = cur_device
      BY <1>1, <2>4
    <3>2. Setting(cur_device)' = Setting(cur_device) /\ DefaultList' = DefaultList
      <4>1. \A d : Setting(d)' = Find(cfg'.settings, d) /\ Setting(d) = Find(cfg.settings, d)
        BY SettingIs
      <4>2. Setting(cur_device)' = Find(cfg'.settings, cur_device')
        BY SettingIs
      <4> QED BY <1>1, <3>1, <4>1, <4>2 DEF DefaultList
    <3> QED BY <1>1, <1>2, <2>1, <2>4, <3>1, <3>2 DEF Held
  <2> QED BY <2>2, <2>3, <2>4
<1>3. cur_device' \in Named \cup {NULL} /\ cur_widget_list' \in {NULL, cur_widget_list}
  BY <1>1 DEF TypeOK
<1> QED BY <1>1, <1>2, <1>3, OtherTag

(* A control goes to the end of the list of the path and the device around *)
(* it, and to no other; without a list it is refused.                      *)
LEMMA CtlStarts ==
    ASSUME Collected, ParseEvent, ~short', file[pos].ev = "start", file[pos].elem = "ctl", StartCtl
    PROVE  Kept
<1> DEFINE w == WidgetOf(file[pos])
           i == cur_widget_list[1]
           side == cur_widget_list[2]
<1>1. /\ TypeOK /\ Distinct /\ pos \in DOMAIN file /\ file' = file /\ args' = args /\ pos' = pos + 1 /\ pc' = pc
      /\ cur_device' = cur_device /\ cur_widget_list' = cur_widget_list /\ pos \in Nat
      /\ cfg \in [default: WidgetLists, settings: Seq(SettingRecords)] /\ short \in BOOLEAN
      /\ cur_widget_list \in {NULL, DefaultList} \cup ((DOMAIN cfg.settings) \X {"en", "dis"})
      /\ cur_device \in Named \cup {NULL}
  BY DEF Collected, ParseEvent, StartCtl, Dies, parserVars, mainVars, TypeOK, SettingRecords, Places
<1>2. \/ Refused /\ cfg' = cfg /\ short' = short
      \/ ~Refused /\ cfg' = Added(w) /\ short' = short
  <2>1. Widget = w
    BY DEF Widget, WidgetOf, e
  <2>2. \/ Refused /\ UNCHANGED <<cfg, short>>
        \/ ~Refused /\ cfg' = Added(Widget) /\ UNCHANGED short
    BY Zenon DEF StartCtl, Dies
  <2> QED BY <2>1, <2>2
<1>3. ~Refused => w \in Widgets /\ NULL \notin {file[pos].name, file[pos].val} /\ cur_widget_list # NULL
  BY <1>1 DEF Refused, Widgets, e
<1>4. ASSUME Flat', Nesting PROVE Paths' = Paths /\ Devs' = Devs
  BY <1>1, <1>4, NestingNext DEF Collected
<1>5. ASSUME cfg' \in [default: WidgetLists, settings: Seq(SettingRecords)], short' \in BOOLEAN,
             DOMAIN cfg'.settings = DOMAIN cfg.settings
      PROVE  TypeOK'
  <2>1. pc' \in {"start", "parse", "parsed", "defaults", "path", "done"}
    BY <1>1 DEF TypeOK
  <2> QED BY <1>1, <1>5, <2>1, TypeNext
<1>6. ASSUME Flat', Nesting, Held, \A d : Find(cfg'.settings, d) = Find(cfg.settings, d) PROVE Held'
  <2>1. Setting(cur_device)' = Setting(cur_device) /\ DefaultList' = DefaultList
    <3>1. \A d : Setting(d)' = Find(cfg'.settings, d) /\ Setting(d) = Find(cfg.settings, d)
      BY SettingIs
    <3>2. Setting(cur_device)' = Find(cfg'.settings, cur_device')
      BY SettingIs
    <3> QED BY <1>1, <1>6, <3>1, <3>2 DEF DefaultList
  <2> QED BY <1>1, <1>4, <1>6, <2>1 DEF Held
<1>7. NULL # DefaultList /\ NULL \notin (DOMAIN cfg.settings) \X {"en", "dis"}
  <2>1. DOMAIN cfg.settings \subseteq Nat
    BY <1>1
  <2> QED BY <2>1, MixerAssumption DEF DefaultList
<1>8. DefaultList \notin (DOMAIN cfg.settings) \X {"en", "dis"}
  <2>1. 0 \notin DOMAIN cfg.settings
    BY <1>1
  <2> QED BY <2>1 DEF DefaultList
<1>9. CASE Refused /\ cfg' = cfg /\ short' = short
  <2>1. TypeOK' /\ Distinct'
    BY <1>1, <1>5, <1>9, SameSettings
  <2>2. ASSUME Flat', Nesting, Held, AllPlaced PROVE Held' /\ AllPlaced'
    <3>1. Held'
      BY <1>6, <1>9, <2>2
    <3>2. \A d, s : ~In(pos, d, s)
      <4>1. ASSUME cur_widget_list = NULL, NEW p \in Paths PROVE FALSE
        <5>1. IF cur_device = NULL THEN cur_widget_list = DefaultList
              ELSE Setting(cur_device) # 0
                   /\ cur_widget_list = <<Setting(cur_device), IF file[p].name = "on" THEN "en" ELSE "dis">>
          BY <2>2 DEF Held
        <5>2. Setting(cur_device) # 0 => Setting(cur_device) \in DOMAIN cfg.settings
          BY <1>1, SettingAt
        <5> QED BY <1>7, <4>1, <5>1, <5>2
      <4> QED BY <1>9, <4>1 DEF Refused, In, Paths, e
    <3> QED BY <1>1, <1>9, <2>2, <3>1, <3>2, AllPlacedSame, SameSettings
  <2> QED BY <2>1, <2>2 DEF Kept
<1>10. CASE ~Refused /\ cfg' = Added(w) /\ short' = short /\ cur_widget_list = DefaultList
  <2>1. cfg' = [cfg EXCEPT !.default = Append(@, w)]
    BY <1>10 DEF Added
  <2>2. cfg.default \in Seq(Widgets) /\ w \in Widgets
    BY <1>1, <1>3, <1>10 DEF WidgetLists
  <2> HIDE DEF w
  <2>3. /\ cfg' \in [default: WidgetLists, settings: Seq(SettingRecords)] /\ cfg'.settings = cfg.settings
        /\ cfg'.default = Append(cfg.default, w)
    <3>1. Append(cfg.default, w) \in WidgetLists
      BY <2>2 DEF WidgetLists
    <3> QED BY <1>1, <2>1, <3>1
  <2>4. TypeOK' /\ Distinct'
    BY <1>1, <1>5, <1>10, <2>3 DEF Distinct
  <2>5. ASSUME Flat', Nesting, Held, AllPlaced PROVE Held' /\ AllPlaced'
    <3>1. Held'
      BY <1>6, <2>3, <2>5
    <3>2. Paths # {} /\ cur_device = NULL
      BY <1>3, <1>7, <1>8, <1>10, <2>5 DEF Held, DefaultList
    <3>3. Devs = {}
      BY <2>5, <3>2 DEF Held, Nesting
    <3>4. \A d, s : In(pos, d, s) <=> d = NULL
      BY <1>3, <1>10, <3>2, <3>3 DEF In, Paths, Devs
    <3>5. \A d, s : ListOf(d, s)' = ListOf(d, s)
      <4> TAKE d, s
      <4>1. Setting(d)' = Setting(d)
        BY <2>3, SettingIs
      <4> QED BY <2>3, <4>1 DEF ListOf
    <3>6. Nested(NULL, "en")' = Nested(NULL, "en") \cup {pos}
      BY <1>1, <3>4, NestedNext
    <3>7. \A d, s : d # NULL => Nested(d, s)' = Nested(d, s)
      BY <1>1, <3>4, NestedNext
    <3>8. Placed(file, Append(cfg.default, w), Nested(NULL, "en") \cup {pos})
      <4>1. Nested(NULL, "en") \in SUBSET (1..(pos - 1))
        BY <1>1, NestedFinite
      <4>2. Placed(file, cfg.default, Nested(NULL, "en"))
        BY <2>5 DEF AllPlaced
      <4> QED BY <1>1, <2>2, <4>1, <4>2, PlacedNext DEF w
    <3>9. ASSUME NEW d \in ((Named \cup {args.path}) \ {NULL})', NEW s \in {"en", "dis"}
          PROVE  Placed(file', ListOf(d, s)', Nested(d, s)')
      <4>1. d \in (Named \cup {args.path}) \ {NULL}
        BY <1>1, <3>9 DEF Named
      <4>2. Nested(d, s)' = Nested(d, s) /\ ListOf(d, s)' = ListOf(d, s)
        BY <3>5, <3>7, <4>1
      <4> QED BY <1>1, <2>5, <4>1, <4>2 DEF AllPlaced
    <3>10. Placed(file', cfg'.default, Nested(NULL, "en")')
      BY <1>1, <2>3, <3>6, <3>8
    <3> QED BY <3>1, <3>9, <3>10 DEF AllPlaced
  <2> QED BY <2>4, <2>5 DEF Kept
<1>11. CASE ~Refused /\ cfg' = Added(w) /\ short' = short /\ cur_widget_list # DefaultList
  <2>1. cfg' = [cfg EXCEPT !.settings[i][side] = Append(@, w)]
    BY <1>11 DEF Added
  <2>2. i \in DOMAIN cfg.settings /\ side \in {"en", "dis"} /\ w \in Widgets /\ cur_widget_list = <<i, side>>
    BY <1>1, <1>3, <1>11
  <2> HIDE DEF w, i, side
  <2>3. /\ cfg' \in [default: WidgetLists, settings: Seq(SettingRecords)] /\ cfg'.default = cfg.default
        /\ DOMAIN cfg'.settings = DOMAIN cfg.settings
        /\ Distinct'
        /\ \A d : Setting(d)' = Setting(d)
        /\ \A d, s : s \in {"en", "dis"} =>
             ListOf(d, s)' = IF d = cfg.settings[i].name /\ s = side THEN Append(ListOf(d, s), w) ELSE ListOf(d, s)
    BY <1>1, <2>1, <2>2, WidgetAdded
  <2>4. TypeOK'
    BY <1>1, <1>5, <1>11, <2>3
  <2>5. ASSUME Flat', Nesting, Held, AllPlaced PROVE Held' /\ AllPlaced'
    <3>1. Held'
      <4>1. \A d : Find(cfg'.settings, d) = Find(cfg.settings, d)
        BY <2>3, SettingIs
      <4> QED BY <1>6, <2>5, <4>1
    <3>2. PICK p \in Paths : TRUE
      BY <1>3, <1>11, <2>5 DEF Held
    <3>3. /\ cur_device # NULL /\ Setting(cur_device) # 0 
          /\ cur_widget_list = <<Setting(cur_device), IF file[p].name = "on" THEN "en" ELSE "dis">>
      BY <1>11, <2>5, <3>2 DEF Held
    <3>4. i = Setting(cur_device) /\ side = IF file[p].name = "on" THEN "en" ELSE "dis"
      BY <2>2, <3>3
    <3>5. cfg.settings[i].name = cur_device
      BY <1>1, <3>3, <3>4, SettingAt
    <3>6. {file[d].name : d \in Devs} = {cur_device}
      <4>1. Devs # {}
        BY <2>5, <3>3 DEF Held
      <4>2. \A d \in Devs : file[d].name = cur_device
        BY <2>5 DEF Held
      <4> QED BY <4>1, <4>2
    <3>7. Paths = {p}
      BY <2>5, <3>2 DEF Nesting
    <3>8. \A d, s : s \in {"en", "dis"} => (In(pos, d, s) <=> d = cur_device /\ s = side)
      <4> TAKE d, s
      <4>1. In(pos, d, s) <=> {cur_device} = {d} \ {NULL} /\ (d # NULL => (file[p].name = "on") = (s = "en"))
        BY <1>3, <1>11, <3>6, <3>7 DEF In, Paths, Devs
      <4>2. {cur_device} = {d} \ {NULL} <=> d = cur_device
        BY <3>3
      <4>3. s \in {"en", "dis"} => ((file[p].name = "on") = (s = "en") <=> s = side)
        BY <3>4
      <4> QED BY <3>3, <4>1, <4>2, <4>3
    <3>9. Nested(NULL, "en")' = Nested(NULL, "en")
      BY <1>1, <3>3, <3>8, NestedNext
    <3>10. ASSUME NEW d \in ((Named \cup {args.path}) \ {NULL})', NEW s \in {"en", "dis"}
          PROVE  Placed(file', ListOf(d, s)', Nested(d, s)')
      <4>1. d \in (Named \cup {args.path}) \ {NULL}
        BY <1>1, <3>10 DEF Named
      <4>2. Placed(file, ListOf(d, s), Nested(d, s))
        BY <2>5, <4>1 DEF AllPlaced
      <4>3. CASE d = cur_device /\ s = side
        <5>1. Nested(d, s)' = Nested(d, s) \cup {pos}
          BY <1>1, <3>8, <4>3, NestedNext
        <5>2. ListOf(d, s)' = Append(ListOf(d, s), w)
          BY <2>3, <3>5, <4>3
        <5>3. ListOf(d, s) \in Seq(Widgets)
          <6>1. ListOf(d, s) = cfg.settings[i][s] /\ cfg.settings[i] \in SettingRecords
            BY <1>1, <2>2, <3>3, <3>4, <4>3 DEF ListOf
          <6> QED BY <6>1 DEF SettingRecords, WidgetLists
        <5>4. Nested(d, s) \in SUBSET (1..(pos - 1))
          BY <1>1, NestedFinite
        <5>5. Placed(file, Append(ListOf(d, s), WidgetOf(file[pos])), Nested(d, s) \cup {pos})
          <6>1. WidgetOf(file[pos]) \in Widgets
            BY <2>2 DEF w
          <6> QED BY <1>1, <4>2, <5>3, <5>4, <6>1, PlacedNext
        <5>6. Placed(file, Append(ListOf(d, s), w), Nested(d, s) \cup {pos})
          BY <5>5 DEF w
        <5> QED BY <1>1, <5>1, <5>2, <5>6
      <4>4. CASE ~(d = cur_device /\ s = side)
        <5>1. Nested(d, s)' = Nested(d, s)
          BY <1>1, <3>8, <4>4, NestedNext
        <5>2. ListOf(d, s)' = ListOf(d, s)
          BY <2>3, <3>5, <4>4
        <5> QED BY <1>1, <4>2, <5>1, <5>2
      <4> QED BY <4>3, <4>4
    <3>11. Placed(file', cfg'.default, Nested(NULL, "en")')
      BY <1>1, <2>3, <2>5, <3>9 DEF AllPlaced
    <3> QED BY <3>1, <3>10, <3>11 DEF AllPlaced
  <2> QED BY <2>3, <2>4, <2>5 DEF Kept
<1> QED BY <1>2, <1>9, <1>10, <1>11

-----------------------------------------------------------------------------
(* The invariant *)
LEMMA ParseStep == ASSUME ParseInv, ParseEvent PROVE ParseInv'
<1> USE DEF mainVars
<1>1. /\ FileOK /\ Balanced(file, pos) /\ pos \in DOMAIN file
      /\ file' = file /\ pos' = pos + 1 /\ args' = args
  BY DEF ParseInv, FileOK, ParseEvent
<1>2. file[pos].ev = "start" \/ file[pos].ev = "end"
  BY <1>1, OpensNext DEF FileOK
<1>3. ASSUME ~short' PROVE Collected /\ Kept
  <2> short' \in BOOLEAN /\ (short => short')
    BY <1>1 DEF FileOK, ParseEvent, config_start, config_end, StartPath, NewSetting, StartDevice, StartCtl, Dies
  <2> Collected
    BY <1>3 DEF ParseInv
  <2>1. CASE file[pos].ev = "end"
    <3>1. config_end
      BY <2>1 DEF ParseEvent, config_start, e
    <3> QED BY <2>1, <3>1, <1>3, ElementEnds
  <2>2. CASE file[pos].ev = "start"
    <3>1. config_start
      BY <2>2 DEF ParseEvent, config_end, e
    <3>2. CASE file[pos].elem = "path"
      <4>1. StartPath
        BY <3>1, <3>2 DEF config_start, e
      <4> QED BY <2>2, <3>2, <4>1, <1>3, PathStarts
    <3>3. CASE file[pos].elem = "device"
      <4>1. StartDevice
        BY <3>1, <3>3 DEF config_start, e
      <4> QED BY <2>2, <3>3, <4>1, <1>3, DeviceStarts
    <3>4. CASE file[pos].elem = "ctl"
      <4>1. StartCtl
        BY <3>1, <3>4 DEF config_start, e
      <4> QED BY <2>2, <3>4, <4>1, <1>3, CtlStarts
    <3>5. CASE file[pos].elem \notin {"path", "device", "ctl"}
      <4>1. UNCHANGED <<parserVars, cfg, short, mainVars>>
        BY <3>1, <3>5 DEF config_start, e
      <4> QED BY <2>2, <3>5, <4>1, <1>3, OtherStarts
    <3> QED BY <3>2, <3>3, <3>4, <3>5
  <2> QED BY <1>2, <1>3, <2>1, <2>2
<1>4. FileOK'
  <2>1. Balanced(file', pos')
    BY <1>1, OpensNext DEF FileOK
  <2>2. pos' \in Nat \ {0} /\ 1..(pos' - 1) \subseteq DOMAIN file
    <3>1. 1..(pos' - 1) = 1..(pos - 1) \cup {pos}
      BY <1>1 DEF FileOK
    <3> QED BY <1>1, <3>1 DEF FileOK
  <2>3. short' \in BOOLEAN /\ pc' \in {pc, "done"}
    BY <1>1 DEF FileOK, ParseEvent, config_start, config_end, StartPath, NewSetting, StartDevice, StartCtl, Dies, Exits
  <2> QED BY <1>1, <2>1, <2>2, <2>3 DEF FileOK, Balanced
<1>5. ASSUME ~short' PROVE Collected'
  <2>1. TypeOK' /\ Distinct' /\ Balanced(file', pos')
    BY <1>3, <1>4, <1>5 DEF Kept, FileOK
  <2>2. ASSUME Flat' PROVE Nesting' /\ Held' /\ AllPlaced'
    <3>1. Flat
      BY <1>1, <2>2, FlatNext DEF FileOK
    <3>2. short => short'
      BY DEF ParseEvent, config_start, config_end, StartPath, NewSetting, StartDevice, StartCtl, Dies
    <3>3. Nesting /\ Held /\ AllPlaced
      BY <1>3, <1>5, <3>1, <3>2 DEF Collected
    <3>4. Nesting'
      BY <1>1, <1>3, <1>5, <2>2, <3>3, NestingNext DEF Collected
    <3> QED BY <1>3, <1>5, <2>2, <3>3, <3>4 DEF Kept
  <2> QED BY <2>1, <2>2 DEF Collected, Balanced
<1> QED BY <1>4, <1>5 DEF ParseInv

(* The steps of main leave the parser's invariant alone.                   *)
LEMMA SameCollected ==
    ASSUME Collected, UNCHANGED <<file, args, pos, parserVars, cfg, short>>,
           pc' \in {"start", "parse", "parsed", "defaults", "path", "done"}
    PROVE  Collected'
<1>1. /\ file' = file /\ args' = args /\ pos' = pos /\ cfg' = cfg /\ short' = short
      /\ cur_device' = cur_device /\ cur_widget_list' = cur_widget_list
  BY DEF parserVars
<1>2. /\ \A k, x : OpenElems(k, x)' = OpenElems(k, x)
      /\ \A k, d, s : In(k, d, s)' <=> In(k, d, s)
  BY <1>1, SameFile
<1>3. Paths' = Paths /\ Devs' = Devs
  BY <1>1, <1>2 DEF Paths, Devs
<1>4. \A d, s : Nested(d, s)' = Nested(d, s)
  BY <1>1, <1>2 DEF Nested
<1>5. /\ \A n : Setting(n)' = Setting(n) 
      /\ \A d, s : ListOf(d, s)' = ListOf(d, s)
      /\ Distinct => Distinct'
  BY <1>1, SameSettings
<1>6. Named' = Named /\ DefaultList' = DefaultList /\ WidgetLists' = WidgetLists
  BY <1>1 DEF Named, DefaultList, WidgetLists, Widgets
<1>7. TypeOK'
  BY <1>1, <1>6 DEF Collected, TypeOK, Places
<1>8. Flat' => Flat
  BY <1>1, <1>2 DEF Flat
<1>9. Nesting => Nesting'
  BY <1>1, <1>3 DEF Nesting
<1>10. Held => Held'
  <2>1. Setting(cur_device)' = Setting(cur_device)
    <3>1. \A d : Setting(d)' = Find(cfg'.settings, d) /\ Setting(d) = Find(cfg.settings, d)
      BY SettingIs
    <3>2. Setting(cur_device)' = Find(cfg'.settings, cur_device')
      BY SettingIs
    <3> QED BY <1>1, <3>1, <3>2
  <2> QED BY <1>1, <1>3, <1>6, <2>1 DEF Held
<1>11. AllPlaced => AllPlaced'
  <2>1. Nested(NULL, "en")' = Nested(NULL, "en")
    BY <1>4
  <2>2. ASSUME AllPlaced, NEW d \in ((Named \cup {args.path}) \ {NULL})', NEW s \in {"en", "dis"}
        PROVE  Placed(file', ListOf(d, s)', Nested(d, s)')
    <3>1. Nested(d, s)' = Nested(d, s) /\ ListOf(d, s)' = ListOf(d, s)
      BY <1>4, <1>5
    <3> QED BY <1>1, <1>6, <2>2, <3>1 DEF AllPlaced
  <2> QED BY <1>1, <2>1, <2>2 DEF AllPlaced
<1> QED BY <1>1, <1>5, <1>7, <1>8, <1>9, <1>10, <1>11 DEF Collected, Balanced

LEMMA SameParse ==
    ASSUME ParseInv, UNCHANGED <<file, args, pos, parserVars, cfg, short>>,
           pc' \in {"start", "parse", "parsed", "defaults", "path", "done"}
    PROVE  ParseInv'
<1>1. FileOK'
  BY DEF ParseInv, FileOK, Balanced
<1>2. ~short => Collected'
  BY SameCollected DEF ParseInv
<1> QED BY <1>1, <1>2 DEF ParseInv

(* Every step preserves the parser's invariant.                            *)
LEMMA ParseNext == ASSUME ParseInv, [MixerNext]_mixerVars PROVE ParseInv'
<1>1. pc \in {"start", "parse", "parsed", "defaults", "path", "done"}
  BY DEF ParseInv, FileOK
<1>2. CASE ParseEvent
  BY <1>2, ParseStep
<1>3. CASE Start
  BY <1>1, <1>3, SameParse DEF Start, ExitWith, Exits
<1>4. CASE ParseEnds
  BY <1>4, SameParse DEF ParseEnds
<1>5. CASE NoPath
  BY <1>5, SameParse DEF NoPath, ExitWith, Exits
<1>6. CASE Defaults
  BY <1>6, SameParse DEF Defaults
<1>7. CASE apply_paths
  BY <1>1, <1>7, SameParse DEF apply_paths, mainVars, Exits
<1>8. CASE ApplyPath
  BY <1>8, SameParse DEF ApplyPath, ExitWith, Exits
<1>9. CASE Return
  BY <1>9, SameParse DEF Return, ExitWith, Exits
<1>10. CASE UNCHANGED mixerVars
  BY <1>1, <1>10, SameParse DEF mixerVars, parserVars
<1> QED BY <1>2, <1>3, <1>4, <1>5, <1>6, <1>7, <1>8, <1>9, <1>10 DEF MixerNext

(* The parser's invariant holds at the start.                              *)
LEMMA ParseInit == MixerInit => ParseInv
<1> SUFFICES ASSUME MixerInit PROVE ParseInv
  OBVIOUS
<1>1. << >> \in WidgetLists /\ << >> \in Seq([name: Named, en: WidgetLists, dis: WidgetLists])
  BY DEF WidgetLists
<1>2. TypeOK
  <2>1. cfg = [default |-> << >>, settings |-> << >>]
    BY DEF MixerInit
  <2>2. \A a, b, U, V : (a \in U /\ b \in V) => [default |-> a, settings |-> b] \in [default: U, settings: V]
    OBVIOUS
  <2>3. cfg \in [default: WidgetLists, settings: Seq([name: Named, en: WidgetLists, dis: WidgetLists])]
    BY <1>1, <2>1, <2>2
  <2>4. 1..(pos - 1) = {} /\ pos \in Nat \ {0}
    BY DEF MixerInit
  <2> QED BY <2>3, <2>4 DEF MixerInit, TypeOK, Places
<1>3. cfg.settings = << >> /\ cfg.default = << >> /\ DOMAIN cfg.settings = {}
  BY DEF MixerInit
<1>4. Distinct
  BY <1>3 DEF Distinct
<1>5. 1..(pos - 1) = {}
  BY DEF MixerInit
<1>6. OpenIn(file, pos) = {}
  BY <1>5 DEF OpenIn
<1>7. Balanced(file, pos)
  BY <1>6 DEF Balanced
<1>8. Paths = {} /\ Devs = {}
  BY <1>6 DEF Paths, Devs, OpenElems
<1>9. Nesting /\ Held
  BY <1>8 DEF Nesting, Held, MixerInit
<1>10. AllPlaced
  <2>1. \A d, s : Nested(d, s) = {}
    BY <1>5 DEF Nested
  <2>2. \A d, s : ListOf(d, s) = << >>
    <3>1. \A d : Setting(d) = 0
      BY <1>2, <1>3, <1>4, SettingAt
    <3> QED BY <3>1 DEF ListOf
  <2>3. \A f : Placed(f, << >>, {})
    BY FS_EmptySet DEF Placed
  <2> QED BY <1>3, <2>1, <2>2, <2>3 DEF AllPlaced
<1>11. FileOK
  BY <1>2, <1>7 DEF TypeOK, FileOK
<1> QED BY <1>2, <1>4, <1>7, <1>9, <1>10, <1>11 DEF ParseInv, Collected

(* For every well-nested file the lists hold, after any part of it, what   *)
(* the elements around the controls say.                                   *)
THEOREM ParseIsInvariant == MixerSpec => []ParseInv
BY ParseInit, ParseNext, PTL DEF MixerSpec

(* A list of widgets at their places is the same as its controls.          *)
LEMMA PlacedIsSame ==
    ASSUME NEW list, NEW ctls, Placed(file, list, ctls)
    PROVE  Same(list, ctls)
<1>1. \A c : WidgetOf(c).name = c.name /\ WidgetOf(c).intval = Atoi[c.val]
  BY DEF WidgetOf
<1> QED BY <1>1 DEF Placed, Same

(* So the parser's invariant gives the property.                           *)
LEMMA ParseGivesWritten == ParseInv => WidgetsWhereWritten
<1> SUFFICES ASSUME ParseInv, Flat, ~short PROVE /\ Same(cfg.default, Nested(NULL, "en"))
        /\ \A d \in Devices : \A s \in {"en", "dis"} : Same(ListOf(d, s), Nested(d, s))
  BY DEF WidgetsWhereWritten
<1>1. AllPlaced
  BY DEF ParseInv, Collected
<1>2. Devices \subseteq Named \ {NULL}
  <2> SUFFICES ASSUME NEW k \in 1..(pos - 1), file[k].elem = "device", file[k].ev = "start"
               PROVE  file[k].name \in Named \ {NULL}
    BY DEF Devices
  <2>1. k \in DOMAIN file
    BY DEF ParseInv, FileOK
  <2>2. file[k].name # NULL
    BY DEF Flat
  <2> QED BY <2>1, <2>2 DEF Named
<1> QED BY <1>1, <1>2, PlacedIsSame DEF AllPlaced

(* For every file, of any length and nesting, and wherever it breaks off:  *)
(* the widgets are where the file has them.                                *)
THEOREM WidgetsAreWhereWritten == MixerSpec => []WidgetsWhereWritten
BY ParseIsInvariant, ParseGivesWritten, PTL
-----------------------------------------------------------------------------
(* What the tool has set *)

(* What a control has after the first n widgets of a list: the value of    *)
(* the last one that is its, if there is one; and the values of all that   *)
(* are its.                                                                *)
Gives(card, list, n, c) == {j \in 1..n : card /\ list[j].name = c}
After(card, list, n, c, old) ==
    IF Gives(card, list, n, c) # {} THEN Value(list[Max(Gives(card, list, n, c))]) ELSE old
Ever(card, list, n, c) == {Value(list[j]) : j \in Gives(card, list, n, c)}

(* The widgets of a list that are left.                                    *)
Left(rest, list) ==
    /\ Len(rest) <= Len(list)
    /\ \A i \in 1..Len(rest) : rest[i] = list[Len(list) - Len(rest) + i]

(* The places after the first n widgets of a list, from what they had last *)
(* and at any time before.                                                 *)
SetUpTo(n, list, old, some) ==
    \A c \in DOMAIN Kind : \A x \in PlacesOf(c) :
        /\ x \notin refused => hw[x] = After(args.card, list, n, c, old[c])
        /\ hw[x] \in some[c] \cup Ever(args.card, list, n, c)

(* The state asked for, and the controls before and after the default      *)
(* path.                                                                   *)
ChosenState == IF args.en # 0 THEN "en" ELSE "dis"
AsFound == [c \in DOMAIN Kind |-> NULL]
AsDefault == [c \in DOMAIN Kind |-> After(args.card, cfg.default, Len(cfg.default), c, NULL)]
NoneYet == [c \in DOMAIN Kind |-> {NULL}]
SomeDefault == [c \in DOMAIN Kind |-> {NULL} \cup Ever(args.card, cfg.default, Len(cfg.default), c)]

(* How far main is in the two lists.                                       *)
Settled ==
    /\ pc = "defaults" =>
        Left(todo, cfg.default) /\ SetUpTo(Len(cfg.default) - Len(todo), cfg.default, AsFound, NoneYet)
    /\ pc = "path" =>
        Left(todo, find_path) /\ SetUpTo(Len(find_path) - Len(todo), find_path, AsDefault, SomeDefault)
    /\ (pc = "done" /\ code # Crash /\ args.argc >= 4) =>
        SetUpTo(Len(find_path), find_path, AsDefault, SomeDefault)

(* The invariant of main: the controls are as the widgets behind make      *)
(* them.                                                                   *)
HwInv ==
    ~short =>
        /\ todo \in WidgetLists
        /\ pc \in {"start", "parse", "parsed"} => hw = [x \in Hardware |-> NULL]
        /\ Settled

(* Sets of small numbers are finite.                                       *)
LEMMA FinitePart ==
    ASSUME NEW n \in Nat, NEW K \in SUBSET (1..n)
    PROVE  IsFiniteSet(K) /\ K \subseteq Int
<1>1. IsFiniteSet(1..n)
  BY FS_Interval
<1>2. K \subseteq 1..n /\ 1..n \subseteq Int
  OBVIOUS
<1> QED BY <1>1, <1>2, FS_Subset

(* No widgets change no control.                                           *)
LEMMA AfterNone ==
    ASSUME NEW card, NEW list, NEW c, NEW old
    PROVE  After(card, list, 0, c, old) = old /\ Ever(card, list, 0, c) = {}
<1>1. Gives(card, list, 0, c) = {}
  BY DEF Gives
<1> QED BY <1>1 DEF After, Ever

(* The next widget gives its control its value and leaves the others.      *)
LEMMA AfterNext ==
    ASSUME NEW card, NEW list, NEW c, NEW old, NEW n \in Nat, NEW m \in Nat, m = n + 1
    PROVE  /\ card /\ list[m].name = c => After(card, list, m, c, old) = Value(list[m])
           /\ ~(card /\ list[m].name = c) => After(card, list, m, c, old) = After(card, list, n, c, old)
<1> DEFINE I == Gives(card, list, n, c)
           J == Gives(card, list, m, c)
<1>1. 1..m = 1..n \cup {m}
  OBVIOUS
<1>2. J = IF card /\ list[m].name = c THEN I \cup {m} ELSE I
  BY <1>1 DEF Gives
<1>3. CASE card /\ list[m].name = c
  <2>1. J \in SUBSET (1..m) /\ m \in J /\ m \in Nat
    BY <1>2, <1>3 DEF Gives
  <2> HIDE DEF J
  <2>2. Max(J) \in J /\ \A x \in J : x <= Max(J)
    BY <2>1, MaxOf
  <2>3. Max(J) \in 1..m /\ m <= Max(J)
    BY <2>1, <2>2
  <2>4. Max(J) = m
    BY <2>3
  <2> QED BY <1>3, <2>1, <2>4 DEF After, J
<1>4. CASE ~(card /\ list[m].name = c)
  BY <1>2, <1>4 DEF After
<1> QED BY <1>3, <1>4

(* And that value is one more of those the control has been given.         *)
LEMMA EverNext ==
    ASSUME NEW card, NEW list, NEW c, NEW n \in Nat
    PROVE  /\ \A v \in Ever(card, list, n, c) : v \in Ever(card, list, n + 1, c)
           /\ card /\ list[n + 1].name = c => Value(list[n + 1]) \in Ever(card, list, n + 1, c)
BY DEF Ever, Gives

(* The controls of K that set c on a card.                                 *)
Given(f, card, K, c) == {k \in K : card /\ f[k].name = c}
IsGiven(v, f, card, K, c) == \E k \in Given(f, card, K, c) : v = Value(WidgetOf(f[k]))

(* The last widget of a control is that of its last place in the file.     *)
LEMMA AfterAll ==
    ASSUME NEW f, NEW card, NEW list, NEW n \in Nat, NEW K \in SUBSET (1..n), Placed(f, list, K), NEW c, NEW old
    PROVE  /\ Given(f, card, K, c) # {} => Max(Given(f, card, K, c)) \in Given(f, card, K, c)
           /\ After(card, list, Len(list), c, old) =
                IF Given(f, card, K, c) # {} THEN Value(WidgetOf(f[Max(Given(f, card, K, c))])) ELSE old
<1> DEFINE G == Given(f, card, K, c)
           I == Gives(card, list, Len(list), c)
<1>1. IsFiniteSet(K) /\ K \subseteq Int
  BY FinitePart
<1>2. Cardinality(K) \in Nat /\ Len(list) = Cardinality(K)
  BY <1>1, FS_CardinalityType DEF Placed
<1>3. \A k \in K : Rank(K, k) \in 1..Len(list) /\ list[Rank(K, k)].name = f[k].name
  <2>1. \A k \in K : list[Rank(K, k)] = WidgetOf(f[k])
    BY DEF Placed
  <2>2. \A x : WidgetOf(x).name = x.name
    BY DEF WidgetOf
  <2> QED BY <1>1, <1>2, <2>1, <2>2, RankIn
<1>4. \A k \in G : Rank(K, k) \in I
  BY <1>3 DEF Gives, Given
<1>5. ASSUME NEW j \in I PROVE \E k \in G : Rank(K, k) = j
  <2>1. j \in 1..Cardinality(K) /\ card /\ list[j].name = c
    BY <1>2, <1>5 DEF Gives
  <2>2. PICK k \in K : Rank(K, k) = j
    BY <1>1, <2>1, RankOnto
  <2> QED BY <1>3, <2>1, <2>2 DEF Given
<1>6. G \in SUBSET (1..n) /\ I \in SUBSET (1..Len(list)) /\ Len(list) \in Nat
  BY <1>2 DEF Gives, Given
<1> HIDE DEF I
<1>7. CASE G = {}
  <2>1. I = {}
    BY <1>5, <1>7
  <2> QED BY <1>7, <2>1 DEF After, I
<1>8. CASE G # {}
  <2> DEFINE g == Max(G)
  <2>1. g \in G /\ \A x \in G : x <= g
    <3> HIDE DEF G
    <3> QED BY <1>6, <1>8, MaxOf
  <2>2. g \in K /\ Rank(K, g) \in I
    BY <1>4, <2>1 DEF Given
  <2> HIDE DEF g
  <2>3. Max(I) \in I /\ \A x \in I : x <= Max(I)
    BY <1>6, <2>2, MaxOf
  <2>4. PICK k \in G : Rank(K, k) = Max(I)
    BY <1>5, <2>3
  <2>5. k < g => Rank(K, k) < Rank(K, g)
    BY <1>1, <2>2, RankIn DEF Given
  <2>6. k \in Int /\ g \in Int /\ k <= g /\ Rank(K, g) <= Max(I) /\ Max(I) \in Int /\ Rank(K, g) \in Int
    <3>1. k <= g /\ k \in K
      BY <2>1 DEF g, Given
    <3>2. Max(I) \in 1..Len(list) /\ Rank(K, g) \in 1..Len(list)
      BY <1>3, <1>6, <2>2, <2>3
    <3>3. Rank(K, g) <= Max(I)
      BY <2>2, <2>3
    <3>4. k \in Int /\ g \in Int
      BY <1>1, <2>2, <3>1
    <3>5. Max(I) \in Int /\ Rank(K, g) \in Int
      BY <3>2
    <3> QED BY <3>1, <3>3, <3>4, <3>5
  <2>7. k = g
    BY <2>4, <2>5, <2>6
  <2>8. list[Max(I)] = WidgetOf(f[g])
    BY <2>2, <2>4, <2>7 DEF Placed
  <2> HIDE DEF G
  <2>9. After(card, list, Len(list), c, old) = Value(list[Max(I)])
    BY <2>3 DEF After, I
  <2> QED BY <1>8, <2>1, <2>8, <2>9 DEF g, G
<1> QED BY <1>7, <1>8

(* And all its values are those of its places in the file.                 *)
LEMMA EverAll ==
    ASSUME NEW f, NEW card, NEW list, NEW n \in Nat, NEW K \in SUBSET (1..n), Placed(f, list, K), NEW c,
           NEW v \in Ever(card, list, Len(list), c)
    PROVE  IsGiven(v, f, card, K, c)
<1>1. IsFiniteSet(K) /\ K \subseteq Int /\ Len(list) = Cardinality(K)
  BY FinitePart DEF Placed
<1>2. PICK j \in 1..Cardinality(K) : card /\ list[j].name = c /\ v = Value(list[j])
  BY <1>1 DEF Ever, Gives
<1>3. PICK k \in K : Rank(K, k) = j
  BY <1>1, <1>2, RankOnto
<1>4. list[j] = WidgetOf(f[k])
  BY <1>3 DEF Placed
<1>5. f[k].name = c
  BY <1>2, <1>4 DEF WidgetOf
<1> QED BY <1>2, <1>4, <1>5 DEF Given, IsGiven

(* The places of different controls are different.                        *)
LEMMA OwnPlaces == \A c, d : \A x \in PlacesOf(c) : x \in PlacesOf(d) => c = d
BY DEF PlacesOf

(* Setting a widget: a place of its control that has taken the value has   *)
(* it, one that has refused it is as before, and those of the others stay. *)
LEMMA SetPlaces ==
    ASSUME NEW w, w.name \in DOMAIN Kind, Set(w)
    PROVE  \A c \in DOMAIN Kind : \A x \in PlacesOf(c) :
             /\ c # w.name => hw'[x] = hw[x] /\ (x \in refused' <=> x \in refused)
             /\ c = w.name => hw'[x] = Value(w) \/ (x \in refused' /\ hw'[x] = hw[x])
<1>1. PICK taken \in SUBSET Writable(w) :
        /\ hw' = [x \in Hardware |-> IF x \in taken THEN Value(w) ELSE hw[x]]
        /\ refused' = (refused \ taken) \cup (PlacesOf(w.name) \ taken)
  BY DEF Set
<1>2. taken \subseteq PlacesOf(w.name)
  BY DEF Writable
<1> TAKE c \in DOMAIN Kind
<1> TAKE x \in PlacesOf(c)
<1>3. x \in Hardware
  BY DEF Hardware
<1>4. hw'[x] = IF x \in taken THEN Value(w) ELSE hw[x]
  BY <1>1, <1>3
<1>5. c # w.name => x \notin PlacesOf(w.name)
  BY OwnPlaces
<1> QED BY <1>1, <1>2, <1>4, <1>5

(* One round of the loop: the head of what is left gives its control its   *)
(* value, where it is not refused.                                         *)
LEMMA LoopStep ==
    ASSUME NEW T, NEW list \in Seq(T), NEW old, NEW some, todo \in Seq(T), Left(todo, list),
           SetUpTo(Len(list) - Len(todo), list, old, some), apply_paths
    PROVE  /\ Left(todo', list)
           /\ \A c \in DOMAIN Kind : \A x \in PlacesOf(c) :
                /\ x \notin refused' => hw'[x] = After(args.card, list, Len(list) - Len(todo'), c, old[c])
                /\ hw'[x] \in some[c] \cup Ever(args.card, list, Len(list) - Len(todo'), c)
<1> DEFINE n == Len(list) - Len(todo)
           w == Head(todo)
<1>1. /\ todo # << >> /\ todo' = Tail(todo)
      /\ \/ Found(w.name) /\ Set(w)
         \/ ~Found(w.name) /\ hw' = hw /\ refused' = refused
  BY Zenon DEF apply_paths, hwVars
<1>2. /\ Len(todo) \in Nat \ {0} /\ Len(todo') = Len(todo) - 1
      /\ w = todo[1] /\ \A i \in 1..(Len(todo) - 1) : todo'[i] = todo[i + 1]
  BY <1>1
<1>3. n \in Nat /\ Len(list) - Len(todo') = n + 1 /\ w = list[n + 1]
  BY <1>2 DEF Left
<1>4. Left(todo', list)
  <2>1. Len(todo') <= Len(list)
    BY <1>2 DEF Left
  <2>2. ASSUME NEW i \in 1..Len(todo') PROVE todo'[i] = list[Len(list) - Len(todo') + i]
    <3>1. i + 1 \in 1..Len(todo) /\ todo'[i] = todo[i + 1]
      BY <1>2
    <3>2. todo[i + 1] = list[Len(list) - Len(todo) + (i + 1)]
      BY <3>1 DEF Left
    <3>3. Len(list) - Len(todo) + (i + 1) = Len(list) - Len(todo') + i
      BY <1>2
    <3> QED BY <3>1, <3>2, <3>3
  <2> QED BY <2>1, <2>2 DEF Left
<1> HIDE DEF w, n
<1>5. ASSUME NEW c \in DOMAIN Kind, NEW x \in PlacesOf(c)
      PROVE  /\ x \notin refused' => hw'[x] = After(args.card, list, n + 1, c, old[c])
             /\ hw'[x] \in some[c] \cup Ever(args.card, list, n + 1, c)
  <2>1. /\ x \notin refused => hw[x] = After(args.card, list, n, c, old[c])
        /\ hw[x] \in some[c] \cup Ever(args.card, list, n, c)
    BY DEF SetUpTo, n
  <2>2. /\ args.card /\ w.name = c => After(args.card, list, n + 1, c, old[c]) = Value(w)
        /\ ~(args.card /\ w.name = c) =>
              After(args.card, list, n + 1, c, old[c]) = After(args.card, list, n, c, old[c])
    <3>1. PICK m \in Nat : m = n + 1
      BY <1>3
    <3>2. PICK before : before = old[c]
      OBVIOUS
    <3>3. /\ args.card /\ list[m].name = c => After(args.card, list, m, c, before) = Value(list[m])
          /\ ~(args.card /\ list[m].name = c) =>
                After(args.card, list, m, c, before) = After(args.card, list, n, c, before)
      BY <1>3, <3>1, AfterNext
    <3> QED BY <1>3, <3>1, <3>2, <3>3
  <2>5. /\ \A v \in Ever(args.card, list, n, c) : v \in Ever(args.card, list, n + 1, c)
        /\ args.card /\ w.name = c => Value(w) \in Ever(args.card, list, n + 1, c)
    BY <1>3, EverNext
  <2>3. CASE Found(w.name)
    <3>1. args.card /\ w.name \in DOMAIN Kind /\ Set(w)
      BY <1>1, <2>3 DEF Found
    <3>2. /\ c # w.name => hw'[x] = hw[x] /\ (x \in refused' <=> x \in refused)
          /\ c = w.name => hw'[x] = Value(w) \/ (x \in refused' /\ hw'[x] = hw[x])
      BY <3>1, SetPlaces
    <3> QED BY <2>1, <2>2, <2>5, <3>1, <3>2
  <2>4. CASE ~Found(w.name)
    <3>1. ~(args.card /\ w.name = c) /\ hw' = hw /\ refused' = refused
      BY <1>1, <2>4 DEF Found
    <3> QED BY <2>1, <2>2, <2>5, <3>1
  <2> QED BY <2>3, <2>4
<1> QED BY <1>3, <1>4, <1>5

(* The widgets of plain controls mean what the controls do.                *)
LEMMA PlainControl ==
    ASSUME NEW ctl, Plain(ctl), ctl.val # NULL, ctl.name \in DOMAIN Kind
    PROVE  Value(WidgetOf(ctl)) = Meant(ctl.name, ctl.val)
<1>1. /\ WidgetOf(ctl).intval = Atoi[ctl.val]
      /\ WidgetOf(ctl).strval = IF IsNumber(ctl.val) THEN NULL ELSE ctl.val
  BY DEF WidgetOf
<1>2. Kind[ctl.name] = "int" \/ Kind[ctl.name] = "enum"
  BY MixerAssumption
<1> QED BY <1>1, <1>2 DEF Plain, Value, Meant

(* find_path takes the list of the path and state on the command line.     *)
LEMMA ChosenList == find_path = ListOf(args.path, ChosenState)
BY DEF find_path, ListOf, ChosenState

(* The two lists of main are lists of widgets, which in a flat file stand  *)
(* for the default controls and for the chosen ones.                       *)
LEMMA MainLists ==
    ASSUME Collected, ~short
    PROVE  /\ cfg.default \in WidgetLists /\ find_path \in WidgetLists
           /\ Flat =>
                /\ Placed(file, cfg.default, Nested(NULL, "en"))
                /\ Placed(file, find_path, Nested(args.path, ChosenState))
<1>1. TypeOK /\ Distinct /\ (Flat /\ ~short => AllPlaced)
  BY DEF Collected
<1>2. cfg.default \in WidgetLists /\ cfg.settings \in Seq(SettingRecords)
  BY <1>1 DEF TypeOK, SettingRecords
<1>3. find_path \in WidgetLists
  <2>1. CASE Setting(args.path) = 0
    <3>1. << >> \in WidgetLists
      BY DEF WidgetLists
    <3> QED BY <2>1, <3>1 DEF find_path
  <2>2. CASE Setting(args.path) # 0
    <3>1. cfg.settings[Setting(args.path)] \in SettingRecords
      BY <1>1, <1>2, <2>2, SettingAt
    <3> QED BY <2>2, <3>1 DEF find_path, SettingRecords
  <2> QED BY <2>1, <2>2
<1>4. ASSUME AllPlaced PROVE Placed(file, find_path, Nested(args.path, ChosenState))
  <2>1. args.path \in (Named \cup {args.path}) \ {NULL} /\ ChosenState \in {"en", "dis"}
    BY <1>1, MixerAssumption DEF TypeOK, ChosenState
  <2>2. Placed(file, ListOf(args.path, ChosenState), Nested(args.path, ChosenState))
    BY <1>4, <2>1 DEF AllPlaced
  <2> QED BY <2>2, ChosenList
<1> QED BY <1>1, <1>2, <1>3, <1>4 DEF AllPlaced

(* While the configuration stays the lists stay.                           *)
LEMMA SameMain ==
    ASSUME UNCHANGED <<file, args, pos, parserVars, cfg, short>>
    PROVE  /\ WidgetLists' = WidgetLists /\ AsFound' = AsFound /\ AsDefault' = AsDefault
           /\ NoneYet' = NoneYet /\ SomeDefault' = SomeDefault /\ find_path' = find_path
<1>1. file' = file /\ args' = args /\ cfg' = cfg
  OBVIOUS
<1>2. find_path' = find_path
  <2>1. Setting(args.path)' = Setting(args.path)
    <3>1. Setting(args.path)' = Find(cfg'.settings, args'.path) /\ Setting(args.path) = Find(cfg.settings, args.path)
      BY SettingIs
    <3> QED BY <1>1, <3>1
  <2> QED BY <1>1, <2>1 DEF find_path
<1> QED BY <1>1, <1>2 DEF WidgetLists, Widgets, AsFound, AsDefault, NoneYet, SomeDefault

(* Nothing is set at the start.                                            *)
LEMMA HwInit == MixerInit => HwInv
BY DEF MixerInit, HwInv, Settled, WidgetLists

(* Once an allocation has failed that remains so.                          *)
LEMMA ShortStays == ASSUME ParseInv, [MixerNext]_mixerVars, ~short' PROVE ~short
<1>1. short \in BOOLEAN
  BY DEF ParseInv, FileOK
<1>2. CASE ParseEvent
  <2>1. CASE config_end
    BY <2>1 DEF config_end
  <2>2. CASE config_start
    <3>1. CASE StartPath
      BY <1>1, <3>1 DEF StartPath, NewSetting, Dies
    <3>2. CASE StartDevice
      BY <3>2 DEF StartDevice
    <3>3. CASE StartCtl
      BY <3>3 DEF StartCtl, Dies
    <3>4. CASE UNCHANGED short
      BY <3>4
    <3> QED BY <2>2, <3>1, <3>2, <3>3, <3>4 DEF config_start
  <2> QED BY <1>2, <2>1, <2>2 DEF ParseEvent
<1>3. CASE ~ParseEvent
  <2>1. short' = short
    BY <1>3 DEF MixerNext, Start, ParseEnds, NoPath, Defaults, apply_paths, ApplyPath, Return, ExitWith, mixerVars
  <2> QED BY <2>1
<1> QED BY <1>2, <1>3

(* An event of the parser leaves main where it is, unless it dies.         *)
LEMMA EventStays ==
    ASSUME ParseEvent, ~short'
    PROVE  pc = "parse" /\ pc' = pc /\ hw' = hw /\ todo' = todo /\ file' = file
<1>1. pc = "parse" /\ hw' = hw /\ todo' = todo /\ file' = file
  BY DEF ParseEvent, hwVars
<1>2. CASE config_end
  BY <1>1, <1>2 DEF config_end, mainVars
<1>3. CASE config_start
  <2>1. CASE StartPath
    BY <1>1, <2>1 DEF StartPath, NewSetting, Dies, mainVars
  <2>2. CASE StartDevice
    BY <1>1, <2>2 DEF StartDevice, mainVars
  <2>3. CASE StartCtl
    BY <1>1, <2>3 DEF StartCtl, Dies, mainVars
  <2>4. CASE UNCHANGED mainVars
    BY <1>1, <2>4 DEF mainVars
  <2> QED BY <1>3, <2>1, <2>2, <2>3, <2>4 DEF config_start
<1> QED BY <1>2, <1>3 DEF ParseEvent

(* Every step of main, also through both loops, leaves the controls as the *)
(* widgets so far make them.                                               *)
LEMMA HwNext == ASSUME ParseInv, HwInv, [MixerNext]_mixerVars PROVE HwInv'
<1> SUFFICES ASSUME ~short' PROVE HwInv'
  BY DEF HwInv
<1>0. ~short /\ Collected
  BY ShortStays DEF ParseInv
<1>1. /\ args.argc \in Nat /\ todo \in WidgetLists /\ Settled
      /\ pc \in {"start", "parse", "parsed"} => hw = [x \in Hardware |-> NULL]
      /\ cfg.default \in WidgetLists /\ find_path \in WidgetLists
  BY <1>0, MixerAssumption, MainLists DEF ParseInv, FileOK, HwInv
<1>2. /\ Len(cfg.default) \in Nat /\ Len(find_path) \in Nat
      /\ todo = << >> => Len(todo) = 0
  BY <1>1 DEF WidgetLists
<1>3. CASE ParseEvent
  <2>1. pc = "parse" /\ pc' = pc /\ hw' = hw /\ todo' = todo /\ file' = file
    BY <1>3, EventStays
  <2>2. WidgetLists' = WidgetLists
    BY <2>1 DEF WidgetLists, Widgets
  <2> QED BY <1>1, <2>1, <2>2 DEF HwInv, Settled
<1>4. CASE Start
  <2>1. /\ UNCHANGED <<file, args, pos, parserVars, cfg, short, hw, todo>> /\ pc = "start"
        /\ pc' = "parse" \/ (pc' = "done" /\ (code' = Crash \/ args.argc < 2))
    BY <1>4 DEF Start, ExitWith, Exits, hwVars
  <2>2. ~(args'.argc >= 4 /\ args.argc < 2) /\ Crash' = Crash
    BY <1>1, <2>1 DEF Crash
  <2> QED BY <1>1, <2>1, <2>2, SameMain DEF HwInv, Settled
<1>5. CASE ParseEnds
  <2>1. UNCHANGED <<file, args, pos, parserVars, cfg, short, hw, todo>> /\ pc = "parse" /\ pc' = "parsed"
    BY <1>5 DEF ParseEnds, hwVars
  <2> QED BY <1>1, <2>1, SameMain DEF HwInv, Settled
<1>6. CASE NoPath
  <2>1. /\ UNCHANGED <<file, args, pos, parserVars, cfg, short, hw, todo>> /\ pc = "parsed" /\ pc' = "done"
        /\ ~(args'.argc >= 4)
    BY <1>1, <1>6 DEF NoPath, ExitWith, Exits, hwVars
  <2> QED BY <1>1, <2>1, SameMain DEF HwInv, Settled
<1>7. CASE Defaults
  <2>1. /\ UNCHANGED <<file, args, pos, parserVars, cfg, short, hw>> /\ pc = "parsed" /\ pc' = "defaults"
        /\ todo' = cfg.default
    BY <1>7 DEF Defaults, hwVars
  <2>2. hw = [x \in Hardware |-> NULL]
    BY <1>1, <2>1
  <2>3. Left(todo', cfg'.default)
    BY <1>2, <2>1 DEF Left
  <2>4. Len(cfg'.default) - Len(todo') = 0
    BY <1>2, <2>1
  <2>5. ASSUME NEW c \in DOMAIN Kind, NEW x \in PlacesOf(c)
        PROVE  /\ hw'[x] = After(args'.card, cfg'.default, Len(cfg'.default) - Len(todo'), c, AsFound'[c])
               /\ hw'[x] \in NoneYet'[c] \cup Ever(args'.card, cfg'.default, Len(cfg'.default) - Len(todo'), c)
    <3>1. hw'[x] = NULL
      BY <2>1, <2>2 DEF Hardware
    <3>2. AsFound'[c] = NULL /\ NoneYet'[c] = {NULL}
      BY DEF AsFound, NoneYet
    <3> QED BY <2>4, <3>1, <3>2, AfterNone
  <2>6. Settled'
    BY <2>1, <2>3, <2>5 DEF Settled, SetUpTo
  <2> QED BY <1>1, <2>1, <2>6, SameMain DEF HwInv
<1>8. CASE apply_paths
  <2>1. /\ UNCHANGED <<file, args, pos, parserVars, cfg, short>> /\ pc \in {"defaults", "path"}
        /\ todo # << >> /\ todo' = Tail(todo)
        /\ pc' = pc \/ (pc' = "done" /\ code' = Crash)
    BY <1>8 DEF apply_paths, mainVars, Exits
  <2>2. todo' \in WidgetLists'
    BY <1>1, <2>1, SameMain DEF WidgetLists
  <2>3. todo \in Seq(Widgets) /\ cfg.default \in Seq(Widgets) /\ find_path \in Seq(Widgets)
    BY <1>1 DEF WidgetLists
  <2>4. CASE pc' = "done" /\ code' = Crash
    BY <2>2, <2>4 DEF HwInv, Settled, Crash
  <2>5. CASE pc' = pc /\ pc = "defaults"
    <3>1. Left(todo, cfg.default) /\ SetUpTo(Len(cfg.default) - Len(todo), cfg.default, AsFound, NoneYet)
      BY <1>1, <2>5 DEF Settled
    <3>2. /\ Left(todo', cfg.default)
          /\ \A c \in DOMAIN Kind : \A x \in PlacesOf(c) :
               /\ x \notin refused' => hw'[x] = After(args.card, cfg.default, Len(cfg.default) - Len(todo'), c, AsFound[c])
               /\ hw'[x] \in NoneYet[c] \cup Ever(args.card, cfg.default, Len(cfg.default) - Len(todo'), c)
      BY <1>8, <2>3, <3>1, LoopStep
    <3>3. Settled'
      BY <2>1, <2>5, <3>2, SameMain DEF Settled, SetUpTo
    <3> QED BY <2>2, <2>5, <3>3 DEF HwInv
  <2>6. CASE pc' = pc /\ pc = "path"
    <3>1. Left(todo, find_path) /\ SetUpTo(Len(find_path) - Len(todo), find_path, AsDefault, SomeDefault)
      BY <1>1, <2>6 DEF Settled
    <3>2. /\ Left(todo', find_path)
          /\ \A c \in DOMAIN Kind : \A x \in PlacesOf(c) :
               /\ x \notin refused' => hw'[x] = After(args.card, find_path, Len(find_path) - Len(todo'), c, AsDefault[c])
               /\ hw'[x] \in SomeDefault[c] \cup Ever(args.card, find_path, Len(find_path) - Len(todo'), c)
      BY <1>8, <2>3, <3>1, LoopStep
    <3>3. Settled'
      BY <2>1, <2>6, <3>2, SameMain DEF Settled, SetUpTo
    <3> QED BY <2>2, <2>6, <3>3 DEF HwInv
  <2> QED BY <2>1, <2>4, <2>5, <2>6
<1>9. CASE ApplyPath
  <2>1. /\ UNCHANGED <<file, args, pos, parserVars, cfg, short, hw, refused>> /\ pc = "defaults" /\ todo = << >>
        /\ \/ code' = Crash /\ pc' = "done" /\ todo' = todo
           \/ find_path = << >> /\ pc' = "done" /\ todo' = todo
           \/ pc' = "path" /\ todo' = find_path
    BY <1>9 DEF ApplyPath, ExitWith, Exits, hwVars
  <2>2. SetUpTo(Len(cfg.default) - Len(todo), cfg.default, AsFound, NoneYet)
    BY <1>1, <2>1 DEF Settled
  <2>3. Len(cfg.default) - Len(todo) = Len(cfg.default)
    BY <1>2, <2>1
  <2>4. ASSUME NEW c \in DOMAIN Kind, NEW x \in PlacesOf(c)
        PROVE  (x \notin refused => hw[x] = AsDefault[c]) /\ hw[x] \in SomeDefault[c]
    BY <2>2, <2>3 DEF SetUpTo, AsDefault, AsFound, NoneYet, SomeDefault
  <2>5. ASSUME NEW c \in DOMAIN Kind, NEW x \in PlacesOf(c)
        PROVE  /\ x \notin refused' => hw'[x] = After(args'.card, find_path', 0, c, AsDefault'[c])
               /\ hw'[x] \in SomeDefault'[c] \cup Ever(args'.card, find_path', 0, c)
    BY <2>1, <2>4, AfterNone, SameMain
  <2>6. Settled'
    <3>1. CASE code' = Crash /\ pc' = "done"
      BY <3>1 DEF Settled, Crash
    <3>2. CASE find_path = << >> /\ pc' = "done"
      <4>1. Len(find_path') = 0
        BY <2>1, <3>2, SameMain
      <4> QED BY <2>5, <3>2, <4>1 DEF Settled, SetUpTo
    <3>3. CASE pc' = "path" /\ todo' = find_path
      <4>1. Len(find_path') - Len(todo') = 0
        BY <1>2, <2>1, <3>3, SameMain
      <4>2. Left(todo', find_path')
        BY <1>2, <2>1, <3>3, SameMain DEF Left
      <4> QED BY <2>5, <3>3, <4>1, <4>2 DEF Settled, SetUpTo
    <3> QED BY <2>1, <3>1, <3>2, <3>3
  <2> QED BY <1>1, <2>1, <2>6, SameMain DEF HwInv
<1>10. CASE Return
  <2>1. /\ UNCHANGED <<file, args, pos, parserVars, cfg, short, hw, refused, todo>> /\ pc = "path" /\ todo = << >>
        /\ pc' = "done"
    BY <1>10 DEF Return, ExitWith, Exits, hwVars
  <2>2. SetUpTo(Len(find_path) - Len(todo), find_path, AsDefault, SomeDefault)
    BY <1>1, <2>1 DEF Settled
  <2>3. Len(find_path) - Len(todo) = Len(find_path)
    BY <1>2, <2>1
  <2>4. Settled'
    BY <2>1, <2>2, <2>3, SameMain DEF Settled, SetUpTo
  <2> QED BY <1>1, <2>1, <2>4, SameMain DEF HwInv
<1>11. CASE UNCHANGED mixerVars
  <2>1. /\ UNCHANGED <<file, args, pos, parserVars, cfg, short>> /\ pc' = pc /\ todo' = todo /\ hw' = hw /\ code' = code
        /\ refused' = refused
    BY <1>11 DEF mixerVars, parserVars, hwVars
  <2>2. Settled'
    BY <1>1, <2>1, SameMain DEF Settled, SetUpTo, Crash
  <2> QED BY <1>1, <2>1, <2>2, SameMain DEF HwInv
<1> QED BY <1>3, <1>4, <1>5, <1>6, <1>7, <1>8, <1>9, <1>10, <1>11 DEF MixerNext

(* When all widgets are set, the controls are as the file means them.      *)
LEMMA SettledIsWritten == ParseInv /\ HwInv => HardwareAsWritten
<1> DEFINE default == Nested(NULL, "en")
           chosen == Nested(args.path, ChosenState)
           given(ctls, c) == Given(file, args.card, ctls, c)
<1> SUFFICES ASSUME ParseInv, HwInv, pc = "done", code # Crash, args.argc >= 4, Flat, ~short,
                    \A k \in default \cup chosen : Plain(file[k]),
                    NEW c \in DOMAIN Kind, NEW x \in PlacesOf(c)
             PROVE  /\ x \notin refused => hw[x] =
                        IF given(chosen, c) # {} THEN Meant(c, file[Max(given(chosen, c))].val)
                        ELSE IF given(default, c) # {} THEN Meant(c, file[Max(given(default, c))].val)
                        ELSE NULL
                    /\ hw[x] \in {NULL} \cup {Meant(c, file[k].val) : k \in given(default \cup chosen, c)}
  BY DEF HardwareAsWritten, ChosenState, Given
<1>0. Collected
  BY DEF ParseInv
<1>1. /\ x \notin refused => hw[x] = After(args.card, find_path, Len(find_path), c,
                                           After(args.card, cfg.default, Len(cfg.default), c, NULL))
      /\ hw[x] \in ({NULL} \cup Ever(args.card, cfg.default, Len(cfg.default), c))
                    \cup Ever(args.card, find_path, Len(find_path), c)
  BY DEF HwInv, Settled, SetUpTo, AsDefault, SomeDefault
<1>2. Placed(file, cfg.default, default) /\ Placed(file, find_path, chosen)
  BY <1>0, MainLists
<1>3. pos - 1 \in Nat /\ default \in SUBSET (1..(pos - 1)) /\ chosen \in SUBSET (1..(pos - 1))
  BY DEF ParseInv, FileOK, Nested
<1>4. \A k \in default \cup chosen : Plain(file[k]) /\ file[k].val # NULL
  BY DEF Nested, In
<1> HIDE DEF default, chosen
<1>5. \A old : /\ given(default, c) # {} => Max(given(default, c)) \in given(default, c)
               /\ After(args.card, cfg.default, Len(cfg.default), c, old) =
                     IF given(default, c) # {} THEN Value(WidgetOf(file[Max(given(default, c))])) ELSE old
  BY <1>2, <1>3, AfterAll
<1>6. \A old : /\ given(chosen, c) # {} => Max(given(chosen, c)) \in given(chosen, c)
               /\ After(args.card, find_path, Len(find_path), c, old) =
                     IF given(chosen, c) # {} THEN Value(WidgetOf(file[Max(given(chosen, c))])) ELSE old
  BY <1>2, <1>3, AfterAll
<1>11. \A v \in Ever(args.card, cfg.default, Len(cfg.default), c) : IsGiven(v, file, args.card, default, c)
  BY <1>2, <1>3, EverAll
<1>12. \A v \in Ever(args.card, find_path, Len(find_path), c) : IsGiven(v, file, args.card, chosen, c)
  BY <1>2, <1>3, EverAll
<1>7. \A k \in given(default, c) \cup given(chosen, c) : Value(WidgetOf(file[k])) = Meant(c, file[k].val)
  BY <1>4, PlainControl DEF Given
<1>8. given(default \cup chosen, c) = given(default, c) \cup given(chosen, c)
  BY DEF Given
<1>9. hw[x] \in {NULL} \cup {Meant(c, file[k].val) : k \in given(default \cup chosen, c)}
  <2>1. CASE hw[x] = NULL
    BY <2>1
  <2>2. CASE hw[x] # NULL
    <3>1. PICK k \in given(default, c) \cup given(chosen, c) : hw[x] = Value(WidgetOf(file[k]))
      BY <1>1, <1>11, <1>12, <2>2 DEF IsGiven
    <3> QED BY <1>7, <1>8, <3>1
  <2> QED BY <2>1, <2>2
<1>10. x \notin refused => hw[x] =
           IF given(chosen, c) # {} THEN Meant(c, file[Max(given(chosen, c))].val)
           ELSE IF given(default, c) # {} THEN Meant(c, file[Max(given(default, c))].val)
           ELSE NULL
  BY <1>1, <1>5, <1>6, <1>7
<1> QED BY <1>9, <1>10

(* For every file, command line and card, and whichever sets the card      *)
(* refuses: when the tool is done, each value of a control that the card   *)
(* has not refused last is the last one the default path and the chosen    *)
(* one give it, and none is a value they do not give it.                   *)
THEOREM HardwareIsAsWritten == MixerSpec => []HardwareAsWritten
<1>1. MixerSpec => [](ParseInv /\ HwInv)
  BY ParseInit, ParseNext, HwInit, HwNext, PTL DEF MixerSpec
<1> QED BY <1>1, SettledIsWritten, PTL
=============================================================================
