------------------------------- MODULE DtbProp -------------------------------
(***************************************************************************)
(* setup_dtb_prop and setup_dtb_prop_int (boot/ufdt.c): adding properties  *)
(* to the /chosen node of the flattened device tree that is handed to the  *)
(* next kernel.  The blob lives in a malloc'ed buffer, and three sizes     *)
(* describe it: the size of the allocation, the totalsize field of its     *)
(* header, and *size, the length the caller tracks and finally passes to   *)
(* kexec_load.  Each call estimates the growth, enlarges all three and     *)
(* only then lets libfdt edit the blob.                                    *)
(*                                                                         *)
(* libfdt and realloc are not part of the repository; they are modelled by *)
(* what this code relies on (operators marked external).                   *)
(***************************************************************************)
EXTENDS Dtb, Integers

CONSTANTS
    Props,        \* names of the properties of /chosen the program handles
    NameLen,      \* [Props -> Nat]: strlen of each name
    NodeNameLen,  \* strlen("chosen")
    ValueLens,    \* lengths of values passed to setup_dtb_prop
    Inputs,       \* blobs and sizes apply_overlays hands over
    MaxSize       \* bound on *size: no call is made above it

VARIABLES
    \* blob: the tree the caller's pointer *dtb was made for; dtbsz: *size
    mem,     \* "ok" | "dangling": *dtb was freed by realloc | "ub": it was used
             \* after that, or written beyond its allocation
    ret,     \* result of the last call
    enomem   \* history: some realloc has failed

dtbVars == <<blob, dtbsz, mem, ret, enomem>>

-----------------------------------------------------------------------------
TAGSIZE == 4        \* FDT_TAGSIZE
PROPHEADER == 12    \* sizeof(struct fdt_property)
NODEHEADER == 4     \* sizeof(struct fdt_node_header)
Absent == -1        \* length of a property that is not there

FDT_TAGALIGN(x) == ((x + TAGSIZE - 1) \div TAGSIZE) * TAGSIZE

fdt_node_len == NODEHEADER + FDT_TAGALIGN(NodeNameLen + 1) + TAGSIZE

fdt_prop_len(p, len) == (NameLen[p] + 1) + PROPHEADER + FDT_TAGALIGN(len)

(***************************************************************************)
(* alloc: bytes allocated; total: fdt_totalsize; used: end of the strings  *)
(* block, the last byte libfdt moves; chosen: the node exists; len: length *)
(* of each property; names: names in the string table; form: "rw" if       *)
(* libfdt edits it, "ro" if it only reads it (block order or version),     *)
(* "bad" if it cannot even walk the structure block.                       *)
(***************************************************************************)
Blob == [alloc : Nat, total : Nat, used : Int, chosen : BOOLEAN,
         len : [Props -> Nat \cup {Absent}], names : SUBSET Props,
         form : {"rw", "ro", "bad"}]

(* Blobs apply_overlays can hand over: loaded from a file as long as *size *)
(* or written by ufdt_to_fdt into a buffer of totalsize bytes.             *)
WellFormed(b, sz) ==
    /\ b.used <= b.total
    /\ b.total <= sz
    /\ sz <= b.alloc

ASSUME DtbPropAssumption ==
    /\ NameLen \in [Props -> Nat]
    /\ NodeNameLen \in Nat
    /\ ValueLens \subseteq Nat
    /\ \A i \in Inputs : /\ i.blob \in Blob /\ i.size \in Nat
                         /\ WellFormed(i.blob, i.size)

-----------------------------------------------------------------------------
(* external: what libfdt adds to the used part.                            *)
AddedByNode == NODEHEADER + FDT_TAGALIGN(NodeNameLen + 1) + TAGSIZE

AddedBySetprop(b, p, len) ==
    IF b.len[p] = Absent
    THEN (IF p \in b.names THEN 0 ELSE NameLen[p] + 1) + PROPHEADER + FDT_TAGALIGN(len)
    ELSE FDT_TAGALIGN(len) - FDT_TAGALIGN(b.len[p])

(* external: libfdt edits the blob only if it may and the result fits.     *)
Accepts(b, added) == b.form = "rw" /\ b.used + added <= b.total

(* Mutant: the header is enlarged and the buffer is not.                   *)
GrownHeaderOnly(b, sz) == [b EXCEPT !.total = sz]

(* fdt_set_totalsize followed by a realloc that succeeds.                  *)
Grown(b, sz) == [b EXCEPT !.total = sz, !.alloc = sz]

(* external: realloc may move the buffer; *dtb still holds the old address *)
MaybeMoved == {"ok", "dangling"}

-----------------------------------------------------------------------------
(* fdt_subnode_offset fails otherwise than with FDT_ERR_NOTFOUND.          *)
Unreadable ==
    /\ blob.form = "bad"
    /\ ret' = "EINVAL"
    /\ UNCHANGED <<blob, dtbsz, mem, enomem>>

(* The first half of a call, fdt_subnode_offset to fdt_add_subnode.  It    *)
(* either returns from the call or leaves the blob b and the size sz the   *)
(* second half goes on with.                                               *)
NodeSize == IF blob.chosen THEN dtbsz ELSE dtbsz + fdt_node_len

NodeBlob ==
    IF blob.chosen THEN blob
    ELSE [Grown(blob, NodeSize) EXCEPT !.chosen = TRUE, !.used = @ + AddedByNode]

NodeNoMemory ==
    /\ ~blob.chosen
    /\ blob' = [blob EXCEPT !.total = NodeSize]
    /\ ret' = "ENOMEM" /\ enomem' = TRUE
    /\ UNCHANGED <<dtbsz, mem>>

NodeRefused ==
    /\ ~blob.chosen
    /\ ~Accepts(Grown(blob, NodeSize), AddedByNode)
    /\ blob' = Grown(blob, NodeSize)
    /\ mem' \in MaybeMoved
    /\ ret' = "EINVAL"
    /\ UNCHANGED <<dtbsz, enomem>>

NodeThere == blob.chosen \/ Accepts(Grown(blob, NodeSize), AddedByNode)

-----------------------------------------------------------------------------
(* Mutants: the difference of the lengths is not rounded up; a shorter     *)
(* value gives room back.                                                  *)
PropSizeUnaligned(p, len) ==
    LET old == blob.len[p] IN
    IF old = Absent THEN NodeSize + fdt_prop_len(p, len)
    ELSE IF old < len THEN NodeSize + (len - old)
    ELSE NodeSize

PropSizeShrinking(p, len) ==
    LET old == blob.len[p] IN
    IF old = Absent THEN NodeSize + fdt_prop_len(p, len)
    ELSE IF old < len THEN NodeSize + FDT_TAGALIGN(len - old)
    ELSE NodeSize - FDT_TAGALIGN(old)

(* The second half: fdt_get_property to fdt_setprop.                       *)
PropSize(p, len) ==
    LET old == blob.len[p] IN
    IF old = Absent THEN NodeSize + fdt_prop_len(p, len)
    ELSE IF old < len THEN NodeSize + FDT_TAGALIGN(len - old)
    ELSE NodeSize

(* Mutant: grow only if the value does not fit into the slack.             *)
MustGrowIfFull(p, len) == NodeBlob.total < NodeBlob.used + fdt_prop_len(p, len)

MustGrow(p, len) == NodeBlob.total < PropSize(p, len)

PropBlob(p, len) ==
    IF MustGrow(p, len) THEN Grown(NodeBlob, PropSize(p, len)) ELSE NodeBlob

(* An error return leaves *dtb alone: it dangles if a realloc moved it.    *)
Reallocated(p, len) == ~blob.chosen \/ MustGrow(p, len)

PropNoMemory(p, len) ==
    /\ NodeThere /\ MustGrow(p, len)
    /\ blob' = [NodeBlob EXCEPT !.total = PropSize(p, len)]
    /\ mem' \in (IF blob.chosen THEN {mem} ELSE MaybeMoved)
    /\ ret' = "ENOMEM" /\ enomem' = TRUE
    /\ UNCHANGED dtbsz

PropRefused(p, len) ==
    /\ NodeThere
    /\ ~Accepts(PropBlob(p, len), AddedBySetprop(blob, p, len))
    /\ blob' = PropBlob(p, len)
    /\ mem' \in (IF Reallocated(p, len) THEN MaybeMoved ELSE {mem})
    /\ ret' = "EINVAL"
    /\ UNCHANGED <<dtbsz, enomem>>

PropStored(p, len) ==
    LET b == PropBlob(p, len)
        used == b.used + AddedBySetprop(blob, p, len) IN
    /\ NodeThere
    /\ Accepts(b, AddedBySetprop(blob, p, len))
    /\ blob' = [b EXCEPT !.used = used, !.len[p] = len, !.names = @ \cup {p}]
    /\ dtbsz' = PropSize(p, len)
    /\ mem' = IF used <= b.alloc THEN "ok" ELSE "ub"
    /\ ret' = "0"
    /\ UNCHANGED enomem

-----------------------------------------------------------------------------
(* Any libfdt access through a dangling *dtb is undefined.                 *)
UsedAfterFree ==
    /\ mem = "dangling"
    /\ mem' = "ub"
    /\ UNCHANGED <<blob, dtbsz, ret, enomem>>

setup_dtb_prop(p, len) ==
    \/ UsedAfterFree
    \/ mem = "ok" /\ Unreadable
    \/ /\ mem = "ok" /\ blob.form # "bad"
       /\ \/ NodeNoMemory
          \/ NodeRefused
          \/ PropNoMemory(p, len)
          \/ PropRefused(p, len)
          \/ PropStored(p, len)

(* The same code with fdt_setprop_cell and sizeof(uint32_t).               *)
setup_dtb_prop_int(p) == setup_dtb_prop(p, 4)

DtbPropInit ==
    /\ \E i \in Inputs : blob = i.blob /\ dtbsz = i.size
    /\ mem = "ok" /\ ret = "none" /\ enomem = FALSE

DtbPropNext ==
    /\ dtbsz <= MaxSize
    /\ \E p \in Props :
        \/ \E len \in ValueLens : setup_dtb_prop(p, len)
        \/ setup_dtb_prop_int(p)

DtbPropSpec == DtbPropInit /\ [][DtbPropNext]_dtbVars

-----------------------------------------------------------------------------
(* Properties *)

TypeOK ==
    /\ blob \in Blob
    /\ dtbsz \in Nat
    /\ mem \in {"ok", "dangling", "ub"}
    /\ ret \in {"none", "0", "ENOMEM", "EINVAL"}
    /\ enomem \in BOOLEAN

(* The preconditions of setup_dtb_prop's bookkeeping: a tree libfdt can    *)
(* edit, and no realloc has failed since it was loaded.                    *)
Regular == blob.form = "rw" /\ ~enomem

(* However often and in whatever order properties are added, replaced by   *)
(* longer or by shorter values, libfdt's edits stay in the totalsize, the  *)
(* totalsize stays in the allocation, the caller's pointer stays valid,    *)
(* and the *size bytes that kexec_load will read are really allocated.     *)
MemorySafe ==
    Regular => /\ mem = "ok"
               /\ blob.used <= blob.total
               /\ blob.total <= blob.alloc
               /\ dtbsz <= blob.alloc

(* The growth computed by fdt_node_len, fdt_prop_len and the TAGALIGN of a *)
(* difference is always enough for libfdt: no call fails with              *)
(* FDT_ERR_NOSPACE, so none returns -EINVAL.                               *)
GrowthSuffices == Regular => ret # "EINVAL"

(* After a successful call *size is the totalsize of the header, so the    *)
(* kexec segment made from *size holds the whole blob and nothing else.    *)
SizeIsTotalsize == (Regular /\ ret = "0") => dtbsz = blob.total
=============================================================================
