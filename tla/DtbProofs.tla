------------------------------ MODULE DtbProofs ------------------------------
(***************************************************************************)
(* Proofs about the steps of main that change the tree: setup_dtb_prop,    *)
(* for every set of properties, every name and value length and every      *)
(* well-formed input, and apply_overlays, for every configuration, command *)
(* line and tree.                                                          *)
(***************************************************************************)
EXTENDS DtbProp, Overlays, NumberFacts, TLAPS

(* setup_dtb_prop *)

(* What a regular state looks like between two calls; together with TypeOK *)
(* it is inductive, which none of the three properties is alone.           *)
Sound ==
    /\ mem = "ok"
    /\ WellFormed(blob, dtbsz)
    /\ ret # "EINVAL"
    /\ ret = "0" => dtbsz = blob.total

PropInv == TypeOK /\ (Regular => Sound)

-----------------------------------------------------------------------------
(* FDT_TAGALIGN rounds up to a multiple of the tag size.                   *)
LEMMA TagAlignBounds ==
    ASSUME NEW x \in Nat
    PROVE  FDT_TAGALIGN(x) \in Nat /\ x <= FDT_TAGALIGN(x) /\ FDT_TAGALIGN(x) < x + 4
BY DEF FDT_TAGALIGN, TAGSIZE

(* Rounding is monotone: a value no longer than the old one needs no more  *)
(* room, which is why setup_dtb_prop adds nothing then.                    *)
LEMMA TagAlignMonotone ==
    ASSUME NEW x \in Nat, NEW y \in Nat, x <= y
    PROVE  FDT_TAGALIGN(x) <= FDT_TAGALIGN(y)
BY DEF FDT_TAGALIGN, TAGSIZE

(* Rounding the difference of two lengths is at least the difference of    *)
(* the rounded lengths: the estimate made for a longer value is enough.    *)
LEMMA TagAlignDifference ==
    ASSUME NEW x \in Nat, NEW y \in Nat, x < y
    PROVE  FDT_TAGALIGN(y) - FDT_TAGALIGN(x) <= FDT_TAGALIGN(y - x)
BY DEF FDT_TAGALIGN, TAGSIZE

LEMMA NodeLenFacts == fdt_node_len \in Nat /\ AddedByNode = fdt_node_len
BY TagAlignBounds, DtbPropAssumption DEF fdt_node_len, AddedByNode, NODEHEADER, TAGSIZE

(* Growing a blob changes only its two sizes.                              *)
LEMMA GrownFacts ==
    ASSUME NEW b \in Blob, NEW sz \in Nat
    PROVE  /\ Grown(b, sz) \in Blob
           /\ Grown(b, sz).total = sz /\ Grown(b, sz).alloc = sz
           /\ Grown(b, sz).used = b.used /\ Grown(b, sz).form = b.form
           /\ Grown(b, sz).len = b.len
BY DEF Grown, Blob

(* So does adding the node, apart from the room the node takes.            *)
LEMMA NodeBlobFacts ==
    ASSUME TypeOK, NodeSize \in Nat
    PROVE  /\ NodeBlob \in Blob
           /\ NodeBlob.form = blob.form /\ NodeBlob.len = blob.len
           /\ blob.chosen => NodeBlob = blob
           /\ ~blob.chosen => /\ NodeBlob.total = NodeSize
                              /\ NodeBlob.alloc = NodeSize
                              /\ NodeBlob.used = blob.used + AddedByNode
<1> DEFINE g == Grown(blob, NodeSize)
<1>1. blob \in Blob
  BY DEF TypeOK
<1>2. /\ g \in Blob /\ g.total = NodeSize /\ g.alloc = NodeSize
      /\ g.used = blob.used /\ g.form = blob.form /\ g.len = blob.len
  BY <1>1, GrownFacts
<1>3. CASE blob.chosen
  BY <1>1, <1>3 DEF NodeBlob
<1>4. CASE ~blob.chosen
  <2>1. NodeBlob = [g EXCEPT !.chosen = TRUE, !.used = g.used + AddedByNode]
    BY <1>4 DEF NodeBlob
  <2>2. AddedByNode \in Nat
    BY NodeLenFacts
  <2> HIDE DEF g
  <2>3. g.used + AddedByNode \in Int
    BY <1>2, <2>2 DEF Blob
  <2>4. NodeBlob \in Blob
    BY <1>2, <2>1, <2>3 DEF Blob
  <2>5. /\ NodeBlob.form = g.form /\ NodeBlob.len = g.len /\ NodeBlob.total = g.total
        /\ NodeBlob.alloc = g.alloc /\ NodeBlob.used = g.used + AddedByNode
    BY <1>2, <2>1 DEF Blob
  <2> QED BY <1>2, <1>4, <2>4, <2>5
<1> QED BY <1>3, <1>4

(* What a call may ask for on top of the node is never negative.           *)
LEMMA PropSizeType ==
    ASSUME TypeOK, NEW p \in Props, NEW len \in Nat
    PROVE  /\ NodeSize \in Nat
           /\ PropSize(p, len) \in Nat
           /\ NodeSize <= PropSize(p, len)
           /\ AddedBySetprop(blob, p, len) \in Int
<1> DEFINE old == blob.len[p]
<1>1. old \in Nat \cup {Absent} /\ NameLen[p] \in Nat /\ dtbsz \in Nat
  BY DtbPropAssumption DEF TypeOK, Blob
<1>2. NodeSize \in Nat
  BY <1>1, NodeLenFacts DEF NodeSize
<1>3. FDT_TAGALIGN(len) \in Nat /\ (old \in Nat => FDT_TAGALIGN(old) \in Nat)
  BY TagAlignBounds
<1>4. ASSUME old \in Nat, old < len PROVE FDT_TAGALIGN(len - old) \in Nat
  <2>1. len - old \in Nat
    BY <1>4
  <2> QED BY <2>1, TagAlignBounds
<1>5. PropSize(p, len) \in Nat /\ NodeSize <= PropSize(p, len)
  BY <1>1, <1>2, <1>3, <1>4 DEF PropSize, fdt_prop_len, PROPHEADER, Absent
<1>6. AddedBySetprop(blob, p, len) \in Int
  BY <1>1, <1>3 DEF AddedBySetprop, PROPHEADER, Absent
<1> QED BY <1>2, <1>5, <1>6

(* The estimate of a call covers what fdt_setprop adds to the blob.        *)
LEMMA EstimateCovers ==
    ASSUME TypeOK, NEW p \in Props, NEW len \in Nat
    PROVE  AddedBySetprop(blob, p, len) <= PropSize(p, len) - NodeSize
<1> DEFINE old == blob.len[p]
<1>1. old \in Nat \cup {Absent} /\ NameLen[p] \in Nat /\ NodeSize \in Nat
  BY DtbPropAssumption, PropSizeType DEF TypeOK, Blob
<1>2. FDT_TAGALIGN(len) \in Nat
  BY TagAlignBounds
<1>3. CASE old = Absent
  BY <1>1, <1>2, <1>3 DEF AddedBySetprop, PropSize, fdt_prop_len, PROPHEADER, Absent
<1>4. CASE old \in Nat /\ old < len
  <2>1. FDT_TAGALIGN(len) - FDT_TAGALIGN(old) <= FDT_TAGALIGN(len - old)
    BY <1>4, TagAlignDifference
  <2>2. FDT_TAGALIGN(old) \in Nat /\ FDT_TAGALIGN(len - old) \in Nat
    <3>1. len - old \in Nat
      BY <1>4
    <3> QED BY <1>4, <3>1, TagAlignBounds
  <2> QED BY <1>1, <1>2, <1>4, <2>1, <2>2 DEF AddedBySetprop, PropSize, Absent
<1>5. CASE old \in Nat /\ len <= old
  <2>1. FDT_TAGALIGN(len) <= FDT_TAGALIGN(old) /\ FDT_TAGALIGN(old) \in Nat
    BY <1>5, TagAlignMonotone, TagAlignBounds
  <2> QED BY <1>1, <1>2, <1>5, <2>1 DEF AddedBySetprop, PropSize, Absent
<1> QED BY <1>1, <1>3, <1>4, <1>5

(* In a regular sound state the node is there or is added without fail,    *)
(* and the blob with the node is well formed again.                        *)
LEMMA NodeSound ==
    ASSUME TypeOK, Regular, WellFormed(blob, dtbsz)
    PROVE  /\ NodeThere
           /\ NodeBlob \in Blob /\ NodeBlob.form = "rw"
           /\ NodeBlob.len = blob.len
           /\ WellFormed(NodeBlob, NodeSize)
<1>1. dtbsz \in Nat /\ blob \in Blob /\ fdt_node_len \in Nat /\ AddedByNode = fdt_node_len
  BY NodeLenFacts DEF TypeOK
<1>2. CASE blob.chosen
  BY <1>1, <1>2 DEF NodeThere, NodeBlob, NodeSize, Regular
<1>3. CASE ~blob.chosen
  <2>1. NodeSize = dtbsz + fdt_node_len
    BY <1>3 DEF NodeSize
  <2>2. blob.used \in Int /\ blob.used <= dtbsz
    BY <1>1 DEF WellFormed, Blob
  <2>3. Grown(blob, NodeSize).used + AddedByNode <= Grown(blob, NodeSize).total
    BY <1>1, <2>1, <2>2, GrownFacts
  <2>4. NodeThere
    BY <1>1, <2>1, <2>3, GrownFacts DEF NodeThere, Accepts, Regular
  <2> QED BY <1>1, <1>3, <2>1, <2>2, <2>4, NodeBlobFacts DEF WellFormed, Regular
<1> QED BY <1>2, <1>3

(* The blob that fdt_setprop is given has room for the edit, its totalsize *)
(* is the new *size and is allocated.                                      *)
LEMMA PropSound ==
    ASSUME TypeOK, Regular, WellFormed(blob, dtbsz), NEW p \in Props, NEW len \in Nat
    PROVE  /\ PropBlob(p, len) \in Blob /\ PropBlob(p, len).form = "rw"
           /\ Accepts(PropBlob(p, len), AddedBySetprop(blob, p, len))
           /\ PropBlob(p, len).total = PropSize(p, len)
           /\ PropSize(p, len) <= PropBlob(p, len).alloc
<1>1. /\ NodeBlob \in Blob /\ NodeBlob.form = "rw"
      /\ NodeBlob.used <= NodeBlob.total
      /\ NodeBlob.total <= NodeSize
      /\ NodeSize <= NodeBlob.alloc
  BY NodeSound DEF WellFormed
<1>2. /\ NodeSize \in Nat /\ PropSize(p, len) \in Nat
      /\ NodeSize <= PropSize(p, len)
      /\ AddedBySetprop(blob, p, len) \in Int
      /\ AddedBySetprop(blob, p, len) <= PropSize(p, len) - NodeSize
  BY PropSizeType, EstimateCovers
<1>3. CASE MustGrow(p, len)
  <2>1. PropBlob(p, len) = Grown(NodeBlob, PropSize(p, len))
    BY <1>3 DEF PropBlob
  <2>2. NodeBlob.used \in Int /\ NodeBlob.total \in Nat /\ NodeBlob.alloc \in Nat
    BY <1>1 DEF Blob
  <2> DEFINE g == Grown(NodeBlob, PropSize(p, len))
  <2>3. /\ g \in Blob /\ g.form = "rw" /\ g.used = NodeBlob.used
        /\ g.total = PropSize(p, len) /\ g.alloc = PropSize(p, len)
    BY <1>1, <1>2, GrownFacts
  <2>4. NodeBlob.used + AddedBySetprop(blob, p, len) <= PropSize(p, len)
    BY <1>1, <1>2, <2>2
  <2> HIDE DEF g
  <2> QED BY <1>2, <2>1, <2>3, <2>4 DEF Accepts, g
<1>4. CASE ~MustGrow(p, len)
  BY <1>1, <1>2, <1>4 DEF MustGrow, PropBlob, Accepts, Blob
<1> QED BY <1>3, <1>4

-----------------------------------------------------------------------------
(* Types survive every branch of a call, whatever went wrong before.       *)
LEMMA CallType ==
    ASSUME TypeOK, NEW p \in Props, NEW len \in Nat, setup_dtb_prop(p, len)
    PROVE  TypeOK'
<1> DEFINE add == AddedBySetprop(blob, p, len)
<1>1. /\ dtbsz \in Nat /\ blob \in Blob /\ NodeSize \in Nat /\ PropSize(p, len) \in Nat
      /\ add \in Int /\ fdt_node_len \in Nat /\ AddedByNode \in Nat
  BY PropSizeType, NodeLenFacts DEF TypeOK
<1>2. Grown(blob, NodeSize) \in Blob /\ [blob EXCEPT !.total = NodeSize] \in Blob
  BY <1>1 DEF Grown, Blob
<1>3. NodeBlob \in Blob
  BY <1>1, NodeBlobFacts
<1>4. /\ PropBlob(p, len) \in Blob
      /\ [NodeBlob EXCEPT !.total = PropSize(p, len)] \in Blob
  BY <1>1, <1>3, GrownFacts DEF PropBlob, Blob
<1>5. CASE UsedAfterFree
  BY <1>5 DEF UsedAfterFree, TypeOK
<1>6. CASE Unreadable
  BY <1>6 DEF Unreadable, TypeOK
<1>7. CASE NodeNoMemory
  BY <1>2, <1>7 DEF NodeNoMemory, TypeOK
<1>8. CASE NodeRefused
  BY <1>2, <1>8 DEF NodeRefused, TypeOK, MaybeMoved
<1>9. CASE PropNoMemory(p, len)
  BY <1>4, <1>9 DEF PropNoMemory, TypeOK, MaybeMoved
<1>10. CASE PropRefused(p, len)
  BY <1>4, <1>10 DEF PropRefused, TypeOK, MaybeMoved
<1>11. CASE PropStored(p, len)
  <2> DEFINE b == PropBlob(p, len)
  <2>1. [b EXCEPT !.used = b.used + add, !.len[p] = len, !.names = @ \cup {p}] \in Blob
    <3>1. b \in Blob /\ add \in Int
      BY <1>1, <1>4
    <3>2. b.used + add \in Int
      BY <3>1 DEF Blob
    <3> HIDE DEF b, add
    <3> QED BY <3>1, <3>2 DEF Blob
  <2> QED BY <1>1, <1>11, <2>1 DEF PropStored, TypeOK
<1> QED BY <1>5, <1>6, <1>7, <1>8, <1>9, <1>10, <1>11 DEF setup_dtb_prop

(* A call made in a sound regular state stores the property and leaves a   *)
(* sound state, unless a realloc fails in it.                              *)
LEMMA CallSound ==
    ASSUME TypeOK, Regular, Sound, NEW p \in Props, NEW len \in Nat,
           setup_dtb_prop(p, len), Regular'
    PROVE  /\ Sound' /\ ret' = "0"
           /\ blob'.len = [blob.len EXCEPT ![p] = len]
<1> DEFINE b == PropBlob(p, len)
           add == AddedBySetprop(blob, p, len)
<1>1. WellFormed(blob, dtbsz) /\ mem = "ok" /\ blob.form = "rw"
  BY DEF Sound, Regular
<1>2. /\ NodeThere /\ b \in Blob /\ Accepts(b, add)
      /\ b.total = PropSize(p, len) /\ PropSize(p, len) <= b.alloc
  BY <1>1, NodeSound, PropSound
<1>3. add \in Int /\ PropSize(p, len) \in Nat
  BY PropSizeType
<1>4. ~NodeRefused
  BY <1>2 DEF NodeRefused, NodeThere
<1>5. PropStored(p, len)
  BY <1>1, <1>2, <1>4 DEF setup_dtb_prop, UsedAfterFree, Unreadable, NodeNoMemory,
     PropNoMemory, PropRefused, Regular
<1>6. /\ blob' = [b EXCEPT !.used = b.used + add, !.len[p] = len, !.names = @ \cup {p}]
      /\ dtbsz' = PropSize(p, len) /\ ret' = "0"
      /\ mem' = IF b.used + add <= b.alloc THEN "ok" ELSE "ub"
  BY <1>5 DEF PropStored
<1>7. blob'.used = b.used + add /\ blob'.total = b.total /\ blob'.alloc = b.alloc
  BY <1>2, <1>6 DEF Blob
<1>8. b.used + add <= b.total /\ b.used \in Int /\ b.total \in Nat /\ b.alloc \in Nat
  BY <1>2 DEF Accepts, Blob
<1>9. blob'.len = [blob.len EXCEPT ![p] = len]
  <2>1. b.len = blob.len /\ b.len \in [Props -> Nat \cup {Absent}]
    BY <1>2 DEF PropBlob, NodeBlob, Grown, TypeOK, Blob
  <2> HIDE DEF b
  <2> QED BY <1>2, <1>6, <2>1 DEF Blob
<1> QED BY <1>2, <1>3, <1>6, <1>7, <1>8, <1>9 DEF Sound, WellFormed

(* A call never changes what libfdt may do with the blob, and a failed     *)
(* realloc is never forgotten.                                             *)
LEMMA FormKept ==
    ASSUME TypeOK, NEW p \in Props, NEW len \in Nat, setup_dtb_prop(p, len)
    PROVE  blob'.form = blob.form /\ (enomem => enomem')
<1>1. NodeBlob.form = blob.form /\ PropBlob(p, len).form = blob.form
  BY DEF NodeBlob, PropBlob, Grown, TypeOK, Blob
<1>2. CASE UsedAfterFree \/ Unreadable
  BY <1>2 DEF UsedAfterFree, Unreadable
<1>3. CASE NodeNoMemory \/ NodeRefused
  BY <1>3 DEF NodeNoMemory, NodeRefused, Grown, TypeOK, Blob
<1>4. CASE PropNoMemory(p, len)
  <2>1. NodeBlob \in Blob
    BY PropSizeType, NodeBlobFacts
  <2> QED BY <1>1, <1>4, <2>1 DEF PropNoMemory, Blob
<1>5. CASE PropRefused(p, len)
  BY <1>1, <1>5 DEF PropRefused
<1>6. CASE PropStored(p, len)
  <2> DEFINE b == PropBlob(p, len)
  <2>1. blob' = [b EXCEPT !.used = b.used + AddedBySetprop(blob, p, len),
                         !.len[p] = len, !.names = @ \cup {p}]
    BY <1>6 DEF PropStored
  <2>2. blob'.form = b.form
    BY <2>1 DEF PropBlob, NodeBlob, Grown, TypeOK, Blob
  <2> QED BY <1>1, <1>6, <2>2 DEF PropStored
<1> QED BY <1>2, <1>3, <1>4, <1>5, <1>6 DEF setup_dtb_prop

(* Regularity is only ever lost.                                           *)
LEMMA RegularBefore ==
    ASSUME TypeOK, NEW p \in Props, NEW len \in Nat, setup_dtb_prop(p, len), Regular'
    PROVE  Regular
BY FormKept DEF Regular

-----------------------------------------------------------------------------
(* Types, and soundness in regular states, are preserved by every sequence *)
(* of calls of setup_dtb_prop and setup_dtb_prop_int.                      *)
THEOREM DtbPropInvariant == DtbPropSpec => []PropInv
<1>1. DtbPropInit => PropInv
  BY DtbPropAssumption DEF DtbPropInit, PropInv, TypeOK, Regular, Sound
<1>2. ASSUME PropInv, DtbPropNext PROVE PropInv'
  <2>1. PICK p \in Props, len \in Nat : setup_dtb_prop(p, len)
    BY <1>2, DtbPropAssumption DEF DtbPropNext, setup_dtb_prop_int
  <2>2. TypeOK'
    BY <1>2, <2>1, CallType DEF PropInv
  <2>3. ASSUME Regular' PROVE Sound'
    BY <1>2, <2>1, <2>3, RegularBefore, CallSound DEF PropInv
  <2> QED BY <2>2, <2>3 DEF PropInv
<1>3. ASSUME PropInv, UNCHANGED dtbVars PROVE PropInv'
  BY <1>3 DEF PropInv, TypeOK, Regular, Sound, WellFormed, dtbVars
<1> QED BY <1>1, <1>2, <1>3, PTL DEF DtbPropSpec

(* Every state of setup_dtb_prop's callers is well typed.                  *)
THEOREM TypeCorrect == DtbPropSpec => []TypeOK
<1>1. PropInv => TypeOK
  BY DEF PropInv
<1> QED BY <1>1, DtbPropInvariant, PTL

(* For all inputs: no edit by libfdt leaves the allocation, no pointer     *)
(* dangles, and the *size bytes given to kexec_load are allocated.         *)
THEOREM MemorySafety == DtbPropSpec => []MemorySafe
<1>1. PropInv => MemorySafe
  BY DEF PropInv, Sound, MemorySafe, WellFormed, TypeOK, Blob
<1> QED BY <1>1, DtbPropInvariant, PTL

(* For all inputs: fdt_node_len and fdt_prop_len never estimate too little *)
(* room, so no call returns -EINVAL.                                       *)
THEOREM GrowthAlwaysSuffices == DtbPropSpec => []GrowthSuffices
<1>1. PropInv => GrowthSuffices
  BY DEF PropInv, Sound, GrowthSuffices
<1> QED BY <1>1, DtbPropInvariant, PTL

(* For all inputs: after a successful call *size is the header's totalsize.*)
THEOREM SizeAlwaysTotalsize == DtbPropSpec => []SizeIsTotalsize
<1>1. PropInv => SizeIsTotalsize
  BY DEF PropInv, Sound, SizeIsTotalsize
<1> QED BY <1>1, DtbPropInvariant, PTL

-----------------------------------------------------------------------------
(* apply_overlays *)

(* The sizes of the tree agree whether or not it has been installed, since *)
(* Install looks at them again.                                            *)
SizesInv ==
    /\ Sized(blob) /\ dtbsz \in Int
    /\ blob.used <= blob.total /\ blob.total <= dtbsz /\ dtbsz <= blob.alloc

(* The tree held comes from an earlier position: a merged tree is new.     *)
HeapInv ==
    /\ n = 0 => hdr = NULL /\ heap = {0}
    /\ hdr # NULL => hdr \in Nat /\ hdr < n /\ heap = {hdr}

(* With whole inputs there is a tree, in step with its size, until a merge *)
(* fails.                                                                  *)
AliveInv ==
    WholeInputs => /\ n = 0 => ~crashed /\ dtbsz = setup.size
                   /\ (n > 0 /\ ~crashed) => hdr # NULL
                   /\ dtbsz = blob.total /\ blob.form \in {"rw", "ro"}
                   /\ ~hung /\ (crashed => "merge" \in fault)

(* What has been merged lies behind n, in order, and is what was wanted of *)
(* the overlays there if nothing has failed.                               *)
AppliedInv ==
    /\ applied \in Seq(1..(n - 1))
    /\ \A j, k \in DOMAIN applied : j < k => applied[j] < applied[k]
    /\ (fault = {} /\ Decidable) =>
        \A i \in 1..(n - 1) :
            (\E j \in DOMAIN applied : applied[j] = i) <=> Wanted(setup.overlays[i])

PlaceInv ==
    /\ ValidSetup(setup)
    /\ n \in Nat /\ n <= Len(setup.overlays) + 1
    /\ crashed \in BOOLEAN

OverlaysInv == PlaceInv /\ SizesInv /\ HeapInv /\ AliveInv /\ AppliedInv

-----------------------------------------------------------------------------
(* If the command line is clear about a key, a piece in which it occurs    *)
(* has it as a whole parameter, and the search compares that parameter's   *)
(* value.                                                                  *)
LEMMA SearchExact ==
    ASSUME NEW params, NEW reads, NEW key, NEW val, Unambiguous(params, reads, key, val),
           NEW k \in DOMAIN reads, IsList(reads[k])
    PROVE  /\ Search(reads[k], key, val) \in {"yes", "no", "crash"}
           /\ Len(reads[k]) >= 2 => Search(reads[k], key, val) # "crash"
           /\ Search(reads[k], key, val) = "yes" =>
                \E t \in Seen(reads, key) : t.key = key /\ t.val = val
           /\ Search(reads[k], key, val) = "no" =>
                \A i \in Hits(reads[k], key) : reads[k][i].val # val
<1> DEFINE text == reads[k]
           hits == Hits(text, key)
           m == Min(hits)
<1>1. CASE hits = {}
  BY <1>1 DEF Search
<1>2. CASE hits # {}
  <2>1. m \in hits
    <3>1. DOMAIN text = 1..Len(text) /\ Len(text) \in Nat
      BY DEF IsList
    <3>2. hits \in SUBSET Nat
      BY <3>1 DEF Hits
    <3> HIDE DEF hits
    <3> QED BY <1>2, <3>2, MinOf
  <2>2. \A i \in hits : text[i] \in Seen(reads, key)
    BY DEF Seen
  <2>3. /\ text[m].key = key /\ text[m].val # NoValue
        /\ Begins(val, text[m].val) => val = text[m].val
        /\ \A i \in hits : text[i] = text[m]
    BY <2>1, <2>2 DEF Unambiguous
  <2>4. Compared(text, m, key) = {text[m].val}
    BY <2>3 DEF Compared, OwnValue, Occurs
  <2> HIDE DEF m
  <2>5. Search(text, key, val) = IF Len(text) < 2 THEN "crash"
                                 ELSE IF Begins(val, text[m].val) THEN "yes" ELSE "no"
    BY <1>2, <2>4 DEF Search, m
  <2>6. Begins(val, text[m].val) <=> text[m].val = val
    BY <2>3 DEF Begins
  <2>7. Len(text) \in Nat
    BY DEF IsList
  <2> HIDE DEF text
  <2>8. Search(text, key, val) = "yes" => \E t \in Seen(reads, key) : t.key = key /\ t.val = val
    BY <2>1, <2>2, <2>3, <2>5, <2>6
  <2>9. Search(text, key, val) = "no" => \A i \in hits : text[i].val # val
    BY <2>3, <2>5, <2>6
  <2> QED BY <2>5, <2>7, <2>8, <2>9 DEF text
<1> QED BY <1>1, <1>2

(* So util_has_cmdline, which searches piece after piece, answers what was *)
(* asked, however the command line is cut, and does not die if every piece *)
(* has a space.                                                            *)
LEMMA HasCmdlineExact ==
    ASSUME NEW params, NEW reads, NEW key, NEW val, Unambiguous(params, reads, key, val),
           ArePieces(reads), AreParameters(params)
    PROVE  /\ util_has_cmdline(reads, key, val) \in {"yes", "no", "crash"}
           /\ util_has_cmdline(reads, key, val) = "yes" => HasParameter(params, key, val)
           /\ util_has_cmdline(reads, key, val) = "no" => ~HasParameter(params, key, val)
           /\ Spaced(reads) => util_has_cmdline(reads, key, val) # "crash"
<1> DEFINE ends == {k \in DOMAIN reads : Search(reads[k], key, val) # "no"}
           m == Min(ends)
<1> /\ IsList(reads) /\ \A k \in DOMAIN reads : IsList(reads[k])
    /\ \A i \in DOMAIN params : params[i] = [key |-> params[i].key, val |-> params[i].val]
  BY DEF ArePieces, AreParameters
<1>1. CASE ends = {}
  <2>1. util_has_cmdline(reads, key, val) = "no"
    BY <1>1 DEF util_has_cmdline
  <2>2. ASSUME HasParameter(params, key, val) PROVE FALSE
    <3>1. PICK i \in DOMAIN params : params[i] = [key |-> key, val |-> val]
      BY <2>2 DEF HasParameter
    <3>2. params[i] \in Seen(reads, key) /\ params[i].val = val
      BY <3>1 DEF Unambiguous
    <3>3. PICK k \in DOMAIN reads : \E j \in Hits(reads[k], key) : reads[k][j] = params[i]
      BY <3>2 DEF Seen
    <3>4. Search(reads[k], key, val) = "no"
      BY <1>1
    <3> QED BY <3>2, <3>3, <3>4, SearchExact
  <2> QED BY <2>1, <2>2
<1>2. CASE ends # {}
  <2>1. DOMAIN reads \subseteq Nat
    BY DEF IsList
  <2>2. m \in ends
    <3>1. ends \in SUBSET Nat
      BY <2>1
    <3> HIDE DEF ends
    <3> QED BY <1>2, <3>1, MinOf
  <2>3. m \in DOMAIN reads /\ Search(reads[m], key, val) # "no"
    BY <2>2
  <2>4. util_has_cmdline(reads, key, val) = Search(reads[m], key, val)
    BY <1>2 DEF util_has_cmdline
  <2> HIDE DEF m, ends
  <2>5. Search(reads[m], key, val) = "yes" => HasParameter(params, key, val)
    <3>1. ASSUME Search(reads[m], key, val) = "yes" PROVE HasParameter(params, key, val)
      <4>1. PICK t \in Seen(reads, key) : t.key = key /\ t.val = val
        BY <2>3, <3>1, SearchExact
      <4>2. PICK i \in DOMAIN params : params[i] = t
        BY <4>1 DEF Unambiguous
      <4> QED BY <4>1, <4>2 DEF HasParameter
    <3> QED BY <3>1
  <2>6. Spaced(reads) => Search(reads[m], key, val) # "crash"
    BY <2>3, SearchExact DEF Spaced
  <2>7. Search(reads[m], key, val) \in {"yes", "no", "crash"}
    BY <2>3, SearchExact
  <2> QED BY <2>3, <2>4, <2>5, <2>6, <2>7
<1> QED BY <1>1, <1>2

(* If nothing has failed and the configuration can be decided, the switch  *)
(* over the mode says of an overlay what the configuration means.          *)
LEMMA VerdictExact ==
    ASSUME ValidSetup(setup), Decidable, NEW i \in DOMAIN setup.overlays, NEW outcome,
           Faults(setup.overlays[i], outcome) = {}
    PROVE  LET o == setup.overlays[i] IN
           /\ Verdict(o, outcome) = "yes" => Wanted(o)
           /\ Verdict(o, outcome) = "no" => ~Wanted(o)
<1> DEFINE o == setup.overlays[i]
<1>1. CASE ~o.forDevice
  BY <1>1 DEF Verdict, Wanted
<1>2. CASE o.forDevice /\ o.mode = "gpio"
  <2>1. outcome = "read" /\ o.bank
    BY <1>2 DEF Faults, Decidable
  <2>2. Verdict(o, outcome) = IF o.level = o.value THEN "yes" ELSE "no"
    BY <1>2, <2>1 DEF Verdict, ModeSaysApply, gpio_should_apply
  <2> QED BY <1>2, <2>2 DEF Wanted
<1>3. CASE o.forDevice /\ o.mode = "cmdline"
  <2>1. outcome = "read"
    BY <1>3 DEF Faults
  <2>2. Verdict(o, outcome) = util_has_cmdline(setup.reads, o.key, o.val)
    BY <1>3, <2>1 DEF Verdict, ModeSaysApply
  <2>3. Unambiguous(setup.params, setup.reads, o.key, o.val)
    BY <1>3 DEF Decidable
  <2>4. /\ util_has_cmdline(setup.reads, o.key, o.val) = "yes" => HasParameter(setup.params, o.key, o.val)
        /\ util_has_cmdline(setup.reads, o.key, o.val) = "no" => ~HasParameter(setup.params, o.key, o.val)
    BY <2>3, HasCmdlineExact DEF ValidSetup
  <2> QED BY <1>3, <2>2, <2>4 DEF Wanted
<1>4. CASE o.forDevice /\ o.mode \notin {"gpio", "cmdline"}
  BY <1>4 DEF Verdict, ModeSaysApply, Wanted
<1> QED BY <1>1, <1>2, <1>3, <1>4 DEF ValidSetup

(* With whole inputs no question to the command line kills the process.    *)
LEMMA QueriesEnd ==
    ASSUME ValidSetup(setup), WholeInputs, NEW i \in DOMAIN setup.overlays
    PROVE  Verdict(setup.overlays[i], "read") # "crash"
<1> DEFINE o == setup.overlays[i]
<1>1. CASE o.mode = "cmdline"
  <2>1. Unambiguous(setup.params, setup.reads, o.key, o.val) /\ Spaced(setup.reads)
    BY <1>1 DEF WholeInputs, Decidable
  <2>2. ArePieces(setup.reads) /\ AreParameters(setup.params)
    BY DEF ValidSetup
  <2>3. util_has_cmdline(setup.reads, o.key, o.val) # "crash"
    <3> HIDE DEF o
    <3> QED BY <2>1, <2>2, HasCmdlineExact
  <2> QED BY <1>1, <2>3 DEF Verdict, ModeSaysApply
<1>2. CASE o.mode # "cmdline"
  BY <1>2 DEF Verdict, ModeSaysApply
<1> QED BY <1>1, <1>2

-----------------------------------------------------------------------------
(* These are about the configuration, which no step changes.               *)
LEMMA SameSetup ==
    ASSUME setup' = setup
    PROVE  /\ (Decidable' <=> Decidable) /\ (WholeInputs' <=> WholeInputs)
           /\ ValidSetup(setup)' <=> ValidSetup(setup)
<1>1. Decidable' <=> Decidable
  BY Zenon DEF Decidable
<1>2. Spaced(setup.reads)' <=> Spaced(setup.reads)
  BY Zenon DEF Spaced
<1>3. WholeInputs' <=> WholeInputs
  BY <1>1, <1>2, Zenon DEF WholeInputs
<1>4. PICK s : s = setup
  OBVIOUS
<1>5. ValidSetup(setup)' <=> ValidSetup(setup)
  BY <1>4
<1> QED BY <1>1, <1>3, <1>5

(* An overlay that is passed over leaves everything but the position: it   *)
(* was not wanted, or its file could not be read.                          *)
PassedOver ==
    /\ n' = n + 1
    /\ UNCHANGED <<setup, hdr, blob, dtbsz, heap, applied, crashed, hung>>
    /\ fault \subseteq fault'
    /\ (fault' = {} /\ Decidable) => ~Wanted(cur)

LEMMA PassedOverPreserves ==
    ASSUME OverlaysInv, More, PassedOver
    PROVE  OverlaysInv'
<1> USE DEF PassedOver
<1>1. n \in DOMAIN setup.overlays /\ n \in Nat /\ DOMAIN setup.overlays = 1..Len(setup.overlays)
  BY DEF OverlaysInv, More, PlaceInv, ValidSetup, IsList
<1>2. PlaceInv'
  <2>1. ValidSetup(setup)'
    BY SameSetup DEF OverlaysInv, PlaceInv
  <2>2. Len(setup.overlays) \in Nat
    BY DEF OverlaysInv, PlaceInv, ValidSetup, IsList
  <2> QED BY <1>1, <2>1, <2>2 DEF OverlaysInv, PlaceInv
<1>3. SizesInv'
  BY DEF OverlaysInv, SizesInv, Sized
<1>4. HeapInv'
  BY <1>1 DEF OverlaysInv, HeapInv
<1>5. AliveInv'
  BY <1>1, <1>2 DEF OverlaysInv, AliveInv, WholeInputs, Decidable, More, PlaceInv
<1>6. AppliedInv'
  <2>1. applied \in Seq(1..(n - 1)) /\ 1..(n - 1) \subseteq 1..n
    BY <1>1 DEF OverlaysInv, AppliedInv
  <2>2. applied' \in Seq(1..(n' - 1))
    BY <1>1, <2>1
  <2>3. ASSUME fault' = {}, Decidable', NEW i \in 1..(n' - 1)
        PROVE  (\E j \in DOMAIN applied' : applied'[j] = i) <=> Wanted(setup.overlays[i])'
    <3>1. CASE i = n
      BY <1>1, <2>1, <2>3, <3>1 DEF Decidable, Wanted, cur
    <3>2. CASE i # n
      <4>1. fault = {} /\ Decidable /\ i \in 1..(n - 1)
        BY <1>1, <2>3, <3>2 DEF Decidable
      <4>2. (\E j \in DOMAIN applied : applied[j] = i) <=> Wanted(setup.overlays[i])
        BY <4>1 DEF OverlaysInv, AppliedInv
      <4> QED BY <4>2 DEF Wanted
    <3> QED BY <3>1, <3>2
  <2> QED BY <2>2, <2>3 DEF OverlaysInv, AppliedInv
<1> QED BY <1>2, <1>3, <1>4, <1>5, <1>6 DEF OverlaysInv

(* A merged tree fills a new buffer: its sizes agree by construction, and  *)
(* the old tree is not the new one because it came from before n.          *)
LEMMA ApplyPreserves ==
    ASSUME OverlaysInv, More, NEW outcome, Apply(outcome)
    PROVE  OverlaysInv'
<1>1. n \in DOMAIN setup.overlays /\ n \in Nat /\ DOMAIN setup.overlays = 1..Len(setup.overlays)
  BY DEF OverlaysInv, More, PlaceInv, ValidSetup, IsList
<1>2. /\ n' = n + 1 /\ hdr' = n /\ heap' = (heap \cup {n}) \ {hdr}
      /\ applied' = Append(applied, n) /\ dtbsz' = blob'.total
      /\ setup' = setup /\ crashed' = crashed /\ hung' = hung
  BY DEF Apply, NextNode, Replaced, NewSize
<1>3. /\ hdr # NULL /\ dtbsz = blob.total
      /\ cur.file \in Int /\ cur.file >= HEADERSIZE
  BY <1>1 DEF Apply, Mergeable, OverlaysInv, PlaceInv, ValidSetup, cur, Missing
<1>4. PICK used \in {blob.used, blob.used + cur.file} : blob' = Merged(used)
  BY DEF Apply
<1>5. /\ Sized(blob') /\ blob'.alloc = blob.total + cur.file
      /\ blob'.total = blob.total + cur.file /\ blob'.used = used /\ blob'.form = "rw"
  BY <1>3, <1>4 DEF Merged, OverlaysInv, SizesInv, Sized
<1>6. PlaceInv'
  <2>1. ValidSetup(setup)'
    BY <1>2, SameSetup DEF OverlaysInv, PlaceInv
  <2>2. Len(setup.overlays) \in Nat
    BY DEF OverlaysInv, PlaceInv, ValidSetup, IsList
  <2> QED BY <1>1, <1>2, <2>1, <2>2 DEF OverlaysInv, PlaceInv
<1>7. SizesInv'
  BY <1>2, <1>3, <1>4, <1>5, OverlaysAssumption DEF OverlaysInv, SizesInv, Sized
<1>8. HeapInv'
  BY <1>1, <1>2, <1>3 DEF OverlaysInv, HeapInv, NULL
<1>9. AliveInv'
  BY <1>1, <1>2, <1>5 DEF OverlaysInv, AliveInv, WholeInputs, Decidable, More, NULL
<1>10. AppliedInv'
  <2>1. applied \in Seq(1..(n - 1)) /\ 1..(n - 1) \subseteq 1..n /\ n \in 1..n
    BY <1>1 DEF OverlaysInv, AppliedInv
  <2>2. applied \in Seq(1..n)
    BY <2>1
  <2>3. /\ applied' \in Seq(1..n) /\ DOMAIN applied' = DOMAIN applied \cup {Len(applied) + 1}
        /\ \A j \in DOMAIN applied : applied'[j] = applied[j]
        /\ applied'[Len(applied) + 1] = n
    BY <1>2, <2>1, <2>2
  <2>4. \A j \in DOMAIN applied : applied[j] \in 1..(n - 1) /\ j \in 1..Len(applied)
    BY <2>1
  <2>5. \A j, k \in DOMAIN applied' : j < k => applied'[j] < applied'[k]
    <3> SUFFICES ASSUME NEW j \in DOMAIN applied', NEW k \in DOMAIN applied', j < k
                 PROVE  applied'[j] < applied'[k]
      OBVIOUS
    <3>1. Len(applied) \in Nat /\ j \in DOMAIN applied
      BY <2>1, <2>3, <2>4
    <3>2. CASE k \in DOMAIN applied
      BY <2>3, <3>1, <3>2 DEF OverlaysInv, AppliedInv
    <3>3. CASE k = Len(applied) + 1
      BY <1>1, <2>3, <2>4, <3>1, <3>3
    <3> QED BY <2>3, <3>2, <3>3
  <2>6. ASSUME fault' = {}, Decidable', NEW i \in 1..(n' - 1)
        PROVE  (\E j \in DOMAIN applied' : applied'[j] = i) <=> Wanted(setup.overlays[i])'
    <3>1. /\ Faults(cur, outcome) = {} /\ fault = {} /\ Decidable
          /\ Verdict(cur, outcome) = "yes"
      BY <1>2, <2>6 DEF Apply, Decidable, Faults
    <3>2. Wanted(setup.overlays[i])' <=> Wanted(setup.overlays[i])
      BY <1>2 DEF Wanted
    <3>3. CASE i = n
      <4>1. Wanted(cur)
        BY <1>1, <3>1, VerdictExact DEF OverlaysInv, PlaceInv, cur
      <4> QED BY <2>3, <3>2, <3>3, <4>1 DEF cur
    <3>4. CASE i # n
      <4>1. i \in 1..(n - 1)
        BY <1>1, <1>2, <3>4
      <4>2. (\E j \in DOMAIN applied : applied[j] = i) <=> Wanted(setup.overlays[i])
        BY <3>1, <4>1 DEF OverlaysInv, AppliedInv
      <4> QED BY <2>3, <3>2, <3>4, <4>2
    <3> QED BY <3>3, <3>4
  <2>7. n' - 1 = n
    BY <1>1, <1>2
  <2> QED BY <2>3, <2>5, <2>6, <2>7 DEF AppliedInv
<1> QED BY <1>6, <1>7, <1>8, <1>9, <1>10 DEF OverlaysInv

(* The process dies: of a NULL tree, which with whole inputs only a failed *)
(* merge returns, or of a question it cannot answer.                       *)
LEMMA DeathPreserves ==
    ASSUME OverlaysInv, More, (\E outcome \in ReadOutcomes : ApplyFails(outcome)) \/ QueryCrashes
    PROVE  OverlaysInv'
<1>1. n \in DOMAIN setup.overlays /\ n \in Nat /\ DOMAIN setup.overlays = 1..Len(setup.overlays)
  BY DEF OverlaysInv, More, PlaceInv, ValidSetup, IsList
<1>2. /\ crashed' = TRUE /\ fault \subseteq fault'
      /\ UNCHANGED <<setup, n, blob, dtbsz, applied, hung>>
      /\ hdr' = NULL \/ (hdr' = hdr /\ heap' = heap)
  BY DEF ApplyFails, QueryCrashes, Faults
<1>3. PlaceInv'
  BY <1>2, SameSetup DEF OverlaysInv, PlaceInv
<1>4. SizesInv'
  BY <1>2 DEF OverlaysInv, SizesInv, Sized
<1>5. HeapInv'
  BY <1>1, <1>2 DEF OverlaysInv, HeapInv
<1>6. AliveInv'
  <2>1. WholeInputs' <=> WholeInputs
    BY <1>2, SameSetup
  <2>2. ASSUME WholeInputs PROVE "merge" \in fault'
    <3>1. ~QueryCrashes
      BY <1>1, <2>2, QueriesEnd DEF QueryCrashes, OverlaysInv, PlaceInv, cur
    <3>2. PICK outcome \in ReadOutcomes : ApplyFails(outcome)
      BY <3>1
    <3>3. /\ hdr # NULL /\ dtbsz = blob.total /\ blob.form # "bad"
      BY <1>1, <2>2 DEF OverlaysInv, AliveInv, More
    <3>4. cur.fits \notin {"no", "broken"} /\ cur.file >= HEADERSIZE
      <4>1. cur.file \in Nat /\ cur.file \notin 0..(HEADERSIZE - 1)
        BY <1>1, <2>2, <3>2 DEF WholeInputs, cur, OverlaysInv, PlaceInv, ValidSetup, ApplyFails
      <4> QED BY <1>1, <2>2, <3>2, <4>1, OverlaysAssumption DEF WholeInputs, cur
    <3> QED BY <3>2, <3>3, <3>4 DEF ApplyFails, Mergeable
  <2> QED BY <1>1, <1>2, <2>1, <2>2 DEF OverlaysInv, AliveInv
<1>7. AppliedInv'
  BY <1>2, SameSetup DEF OverlaysInv, AppliedInv, Wanted
<1> QED BY <1>3, <1>4, <1>5, <1>6, <1>7 DEF OverlaysInv

(* Only a tree or an overlay that cannot be walked hangs the process.      *)
LEMMA HangPreserves ==
    ASSUME OverlaysInv, More, NEW outcome, Hangs(outcome)
    PROVE  OverlaysInv'
<1>1. n \in DOMAIN setup.overlays /\ n \in Nat
  BY DEF OverlaysInv, More, PlaceInv, ValidSetup, IsList
<1>2. UNCHANGED <<setup, n, hdr, blob, dtbsz, heap, applied, crashed>> /\ fault \subseteq fault'
  BY DEF Hangs, Faults
<1>3. PlaceInv'
  BY <1>2, SameSetup DEF OverlaysInv, PlaceInv
<1>4. SizesInv'
  BY <1>2 DEF OverlaysInv, SizesInv, Sized
<1>5. HeapInv'
  BY <1>2 DEF OverlaysInv, HeapInv
<1>6. AliveInv'
  <2>1. ~WholeInputs
    <3>1. blob.form = "bad" \/ cur.fits = "broken"
      BY DEF Hangs
    <3> QED BY <1>1, <3>1 DEF OverlaysInv, AliveInv, WholeInputs, cur
  <2> QED BY <1>2, <2>1, SameSetup DEF AliveInv
<1>7. AppliedInv'
  BY <1>2, SameSetup DEF OverlaysInv, AppliedInv, Wanted
<1> QED BY <1>3, <1>4, <1>5, <1>6, <1>7 DEF OverlaysInv

LEMMA InstallPreserves ==
    ASSUME OverlaysInv, Install
    PROVE  OverlaysInv'
<1> USE DEF Install
<1>1. PlaceInv'
  <2>1. ValidSetup(setup)'
    BY SameSetup DEF OverlaysInv, PlaceInv
  <2>2. Len(setup.overlays) \in Nat
    BY DEF OverlaysInv, PlaceInv, ValidSetup, IsList
  <2> QED BY <2>1, <2>2 DEF OverlaysInv, PlaceInv
<1>2. SizesInv'
  BY DEF OverlaysInv, SizesInv, Sized
<1>3. HeapInv'
  BY DEF OverlaysInv, HeapInv
<1>4. AliveInv'
  <2>1. WholeInputs' <=> WholeInputs
    BY SameSetup
  <2>2. ASSUME WholeInputs PROVE hdr' # NULL
    BY <2>2 DEF OverlaysInv, AliveInv, WholeInputs, NULL
  <2> QED BY <2>1, <2>2 DEF OverlaysInv, AliveInv
<1>5. AppliedInv'
  <2>1. applied \in Seq({}) /\ 1..(n - 1) = {} /\ 1..(n' - 1) = {}
    BY DEF OverlaysInv, AppliedInv
  <2> QED BY <2>1 DEF OverlaysInv, AppliedInv
<1> QED BY <1>1, <1>2, <1>3, <1>4, <1>5 DEF OverlaysInv

-----------------------------------------------------------------------------
(* apply_overlays preserves OverlaysInv, whatever is read and whatever fails.      *)
THEOREM OverlaysInvariant == OverlaysSpec => []OverlaysInv
<1>1. OverlaysInit => OverlaysInv
  <2> SUFFICES ASSUME OverlaysInit PROVE OverlaysInv
    OBVIOUS
  <2> USE DEF OverlaysInit
  <2>1. PlaceInv
    <3>1. ValidSetup(setup)
      BY OverlaysAssumption
    <3>2. Len(setup.overlays) \in Nat
      BY <3>1 DEF ValidSetup, IsList
    <3>3. n \in Nat /\ n <= Len(setup.overlays) + 1
      BY <3>2
    <3> QED BY <3>1, <3>3 DEF PlaceInv
  <2>2. SizesInv
    BY OverlaysAssumption DEF SizesInv
  <2>3. HeapInv
    BY DEF HeapInv
  <2>4. AliveInv
    BY DEF AliveInv, WholeInputs
  <2>5. AppliedInv
    BY DEF AppliedInv
  <2> QED BY <2>1, <2>2, <2>3, <2>4, <2>5 DEF OverlaysInv
<1>2. ASSUME OverlaysInv, apply_overlays PROVE OverlaysInv'
  <2>1. CASE Install
    BY <1>2, <2>1, InstallPreserves
  <2>2. CASE More /\ \E outcome \in ReadOutcomes : Skip(outcome)
    <3>1. PICK outcome \in ReadOutcomes : Skip(outcome)
      BY <2>2
    <3>2. fault' = {} => fault = {} /\ Faults(cur, outcome) = {}
      BY <3>1 DEF Skip, Faults
    <3>3. (fault' = {} /\ Decidable) => ~Wanted(cur)
      BY <1>2, <2>2, <3>1, <3>2, VerdictExact DEF Skip, OverlaysInv, PlaceInv, More, cur
    <3> QED BY <1>2, <2>2, <3>1, <3>3, PassedOverPreserves DEF PassedOver, Skip, Faults
  <2>3. CASE More /\ \E outcome \in ReadOutcomes : LoadFails(outcome)
    BY <1>2, <2>3, PassedOverPreserves DEF PassedOver, LoadFails, Faults
  <2>4. CASE More /\ \E outcome \in ReadOutcomes : Apply(outcome)
    BY <1>2, <2>4, ApplyPreserves
  <2>5. CASE More /\ ((\E outcome \in ReadOutcomes : ApplyFails(outcome)) \/ QueryCrashes)
    BY <1>2, <2>5, DeathPreserves
  <2>6. CASE More /\ \E outcome \in ReadOutcomes : Hangs(outcome)
    BY <1>2, <2>6, HangPreserves
  <2> QED BY <1>2, <2>1, <2>2, <2>3, <2>4, <2>5, <2>6 DEF apply_overlays, Iterate
<1>3. ASSUME OverlaysInv, UNCHANGED overlayVars PROVE OverlaysInv'
  <2> USE <1>3 DEF overlayVars
  <2>1. PlaceInv'
    BY SameSetup DEF OverlaysInv, PlaceInv
  <2>2. SizesInv' /\ HeapInv'
    BY DEF OverlaysInv, SizesInv, Sized, HeapInv
  <2>3. AliveInv'
    BY DEF OverlaysInv, AliveInv, WholeInputs, Decidable
  <2>4. AppliedInv'
    BY DEF OverlaysInv, AppliedInv, Wanted, Decidable
  <2> QED BY <2>1, <2>2, <2>3, <2>4 DEF OverlaysInv
<1> QED BY <1>1, <1>2, <1>3, PTL DEF OverlaysSpec

(* Whichever overlays were merged, the tree handed to setup_dtb_prop has   *)
(* the sizes it counts on.                                                 *)
THEOREM SizesAlwaysAgree == OverlaysSpec => []SizesAgree
<1>1. OverlaysInv => SizesAgree
  BY DEF OverlaysInv, SizesInv, SizesAgree
<1> QED BY <1>1, OverlaysInvariant, PTL

(* apply_overlays never leaks a tree and never frees the one it returns.   *)
THEOREM NoTreeLeaked == OverlaysSpec => []OneTreeLeft
<1>1. OverlaysInv => OneTreeLeft
  BY DEF OverlaysInv, HeapInv, OneTreeLeft
<1> QED BY <1>1, OverlaysInvariant, PTL

(* For lists of any length: exactly the wanted overlays, in their order.   *)
THEOREM WantedExactly == OverlaysSpec => []ExactlyWanted
<1>1. OverlaysInv => ExactlyWanted
  <2> SUFFICES ASSUME OverlaysInv, Finished, fault = {}, Decidable
               PROVE  /\ {applied[j] : j \in DOMAIN applied} =
                              {i \in DOMAIN setup.overlays : Wanted(setup.overlays[i])}
                      /\ \A j, k \in DOMAIN applied : j < k => applied[j] < applied[k]
    BY DEF ExactlyWanted
  <2>1. DOMAIN setup.overlays = 1..Len(setup.overlays) /\ Len(setup.overlays) \in Nat
    BY DEF OverlaysInv, PlaceInv, ValidSetup, IsList
  <2>2. DOMAIN setup.overlays = 1..(n - 1)
    BY <2>1 DEF OverlaysInv, PlaceInv, Finished
  <2>3. \A j \in DOMAIN applied : applied[j] \in 1..(n - 1)
    <3>1. applied \in Seq(1..(n - 1)) /\ n \in Nat
      BY DEF OverlaysInv, AppliedInv, PlaceInv
    <3> DEFINE S == 1..(n - 1)
    <3> HIDE DEF S
    <3>2. applied \in Seq(S)
      BY <3>1 DEF S
    <3>3. \A j \in DOMAIN applied : applied[j] \in S
      BY <3>2
    <3> QED BY <3>3 DEF S
  <2> QED BY <2>2, <2>3 DEF OverlaysInv, AppliedInv
<1> QED BY <1>1, OverlaysInvariant, PTL

(* Files and lines that cannot be read never kill the process, and a whole *)
(* tree with whole overlays never hangs it.                                *)
THEOREM FailedReadsSurvived == OverlaysSpec => []SurvivesFailedReads
<1>1. OverlaysInv => SurvivesFailedReads
  BY DEF OverlaysInv, AliveInv, SurvivesFailedReads
<1> QED BY <1>1, OverlaysInvariant, PTL
=============================================================================
