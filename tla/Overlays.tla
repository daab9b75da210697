------------------------------ MODULE Overlays ------------------------------
(***************************************************************************)
(* apply_overlays (boot/ufdt.c) with gpio_should_apply (boot/gpio.c): the  *)
(* configured overlays are taken in order, each is applied if it is meant  *)
(* for this device and its mode's condition holds, and the tree is         *)
(* replaced by the merged one that ufdt_apply_overlay returns.             *)
(***************************************************************************)
EXTENDS Cmdline, Dtb

CONSTANTS
    Setups,      \* what apply_overlays may be called with
    HEADERSIZE   \* sizeof(struct fdt_header)

VARIABLES
    setup,    \* [overlays, params, reads, ...]: configuration and command line,
              \* as it is and as it is read
    n,        \* position in cfg->overlays, 0 before the call
    hdr,      \* the tree at hdr: 0 as loaded, i as merged with overlay i, or NULL
              \* blob: the tree at hdr: alloc, total, used and form as in DtbProp,
              \* the form being "none" if fdt_check_header rejects it
    heap,     \* trees that are malloc'ed and not freed
    applied,  \* overlays merged so far
    crashed,  \* the process has died of a NULL pointer
    hung,     \* the process is in a loop that it never leaves
    fault     \* history: kinds of calls that have failed

overlayVars == <<setup, n, hdr, blob, dtbsz, heap, applied, crashed, hung, fault>>

(* An overlay: forDevice: its devices hold this device's codename; mode;   *)
(* bank, level, value: the configured line (bank may be unset), what it    *)
(* reads and what is wanted; key, val: the wanted parameter; file: length  *)
(* of its file or Missing; fits: "yes" if it is a whole blob that merges,  *)
(* "no" if it is refused, "odd" if only its header is bad: its tree is     *)
(* then empty, with a phandle table that was never initialised; "broken"   *)
(* if libfdt cannot walk its structure block.                              *)
Missing == -1
NULL == -1

cur == setup.overlays[n]
More == n \in DOMAIN setup.overlays /\ ~crashed /\ ~hung

(* A configuration and a command line: lists of overlays, of parameters    *)
(* [key, val] and of pieces of such.                                       *)
IsList(x) == x \in Seq({x[i] : i \in DOMAIN x})

ArePieces(x) == IsList(x) /\ \A k \in DOMAIN x : IsList(x[k])
AreParameters(x) == IsList(x) /\ \A i \in DOMAIN x : x[i] = [key |-> x[i].key, val |-> x[i].val]

ValidSetup(s) ==
    /\ IsList(s.overlays) /\ AreParameters(s.params) /\ ArePieces(s.reads)
    /\ \A i \in DOMAIN s.overlays : LET o == s.overlays[i] IN
        o.forDevice \in BOOLEAN /\ o.bank \in BOOLEAN /\ o.file \in Nat \cup {Missing}

(* The tree was read by load_file: its file's size bytes are allocated,    *)
(* and the header's totalsize lies in the file and after the used part.    *)
Sized(b) ==
    /\ {"alloc", "total", "used", "form"} \subseteq DOMAIN b
    /\ b.alloc \in Int /\ b.total \in Int /\ b.used \in Int

ASSUME OverlaysAssumption ==
    /\ HEADERSIZE \in Nat
    /\ \A s \in Setups :
        /\ ValidSetup(s)
        /\ Sized(s.blob) /\ s.size \in Int
        /\ s.blob.used <= s.blob.total /\ s.blob.total <= s.size /\ s.size <= s.blob.alloc

-----------------------------------------------------------------------------
(* Outcomes of the calls in gpio_should_apply: a value is read, a call     *)
(* fails and its -errno is returned, or the line handle is invalid and     *)
(* the stale errno that is returned happens to be 0.  Opening and reading  *)
(* /proc/cmdline in util_has_cmdline may end in "error" as well.           *)
ReadOutcomes == {"read", "error", "stale"}

gpio_should_apply(o, outcome) ==
    IF ~o.bank \/ outcome = "error" THEN -1
    ELSE IF outcome = "read" /\ o.level = o.value THEN 1
    ELSE 0

(* The switch over o->mode: does the loop go on to load the overlay?       *)
ModeSaysApply(o, outcome) ==
    CASE o.mode = "fixed"   -> "yes"
      [] o.mode = "gpio"    -> IF gpio_should_apply(o, outcome) # 0 THEN "yes" ELSE "no"
      [] o.mode = "cmdline" -> IF outcome = "error" THEN "no"
                               ELSE util_has_cmdline(setup.reads, o.key, o.val)
      [] OTHER              -> "no"

Verdict(o, outcome) == IF o.forDevice THEN ModeSaysApply(o, outcome) ELSE "no"

Faults(o, outcome) ==
    IF o.forDevice /\ o.mode \in {"gpio", "cmdline"} /\ outcome # "read"
    THEN fault \cup {o.mode}
    ELSE fault

-----------------------------------------------------------------------------
Skip(outcome) ==
    /\ Verdict(cur, outcome) = "no"
    /\ n' = n + 1
    /\ fault' = Faults(cur, outcome)
    /\ UNCHANGED <<setup, hdr, blob, dtbsz, heap, applied, crashed, hung>>

(* Mutants: the NULL buffer is merged; the load is tried again.            *)
LoadFailsUnchecked(outcome) ==
    /\ Verdict(cur, outcome) = "yes"
    /\ crashed' = TRUE
    /\ fault' = Faults(cur, outcome) \cup {"load"}
    /\ UNCHANGED <<setup, n, hdr, blob, dtbsz, heap, applied, hung>>

LoadFailsRetries(outcome) ==
    /\ Verdict(cur, outcome) = "yes"
    /\ fault' = Faults(cur, outcome) \cup {"load"}
    /\ UNCHANGED <<setup, n, hdr, blob, dtbsz, heap, applied, crashed, hung>>

(* load_overlay returns NULL: no such file, or it cannot be read.          *)
LoadFails(outcome) ==
    /\ Verdict(cur, outcome) = "yes"
    /\ n' = n + 1
    /\ fault' = Faults(cur, outcome) \cup {"load"}
    /\ UNCHANGED <<setup, hdr, blob, dtbsz, heap, applied, crashed, hung>>

(* The checks of ufdt_apply_overlay and ufdt_overlay_apply, and whether    *)
(* the two trees do merge.                                                 *)
Mergeable ==
    /\ hdr # NULL /\ dtbsz = blob.total /\ blob.form # "bad"
    /\ cur.file >= HEADERSIZE /\ cur.fits \notin {"no", "broken"}

(* Mutants: the new buffer is as long as the old one; the size is not      *)
(* brought up to date; the old tree is not freed.                          *)
MergedInPlace(used) ==
    [blob EXCEPT !.total = blob.total + cur.file, !.used = used, !.form = "rw"]

SizeKept == dtbsz

OldTreeKept(i) == heap \cup {i}

(* The merged tree fills a new buffer of both sizes; how much of it is     *)
(* used depends on what the overlay shares with the tree.                  *)
Merged(used) ==
    [blob EXCEPT !.alloc = blob.total + cur.file, !.total = blob.total + cur.file,
                 !.used = used, !.form = "rw"]

(* *dtb_size = fdt_totalsize(hdr), with the new hdr.                       *)
NewSize == blob'.total

(* The new tree is malloc'ed, the old one is freed.                        *)
Replaced(i) == (heap \cup {i}) \ {hdr}

NextNode == n + 1     \* listNext

Apply(outcome) ==
    /\ Verdict(cur, outcome) = "yes"
    /\ cur.file # Missing
    /\ Mergeable
    /\ \E used \in {blob.used, blob.used + cur.file} : blob' = Merged(used)
    /\ dtbsz' = NewSize
    /\ hdr' = n /\ heap' = Replaced(n)
    /\ applied' = Append(applied, n)
    /\ n' = NextNode
    /\ fault' = Faults(cur, outcome)
    /\ UNCHANGED <<setup, crashed, hung>>

(* ufdt_apply_overlay returns NULL; fdt_totalsize(NULL) ends the process.  *)
(* Besides a rejected tree, any allocation in it may fail.                 *)
ApplyFails(outcome) ==
    /\ Verdict(cur, outcome) = "yes"
    /\ cur.file # Missing
    /\ hdr' = NULL /\ heap' = heap \ {hdr}
    /\ crashed' = TRUE
    /\ fault' = Faults(cur, outcome) \cup (IF Mergeable THEN {"merge"} ELSE {})
    /\ UNCHANGED <<setup, n, blob, dtbsz, applied, hung>>

(* fdt_to_ufdt_tree takes every FDT_END that fdt_next_tag answers behind   *)
(* the damage for one more child that is not there, and never sees the end *)
(* of the node.  The sizes are compared before the trees are read.         *)
Hangs(outcome) ==
    /\ Verdict(cur, outcome) = "yes"
    /\ cur.file >= 8 /\ hdr # NULL /\ dtbsz = blob.total
    /\ blob.form = "bad" \/ cur.fits = "broken"
    /\ hung' = TRUE
    /\ fault' = Faults(cur, outcome)
    /\ UNCHANGED <<setup, n, hdr, blob, dtbsz, heap, applied, crashed>>

QueryCrashes ==
    /\ Verdict(cur, "read") = "crash"
    /\ crashed' = TRUE
    /\ UNCHANGED <<setup, n, hdr, blob, dtbsz, heap, applied, hung, fault>>

(* One iteration of the loop.                                              *)
Iterate ==
    /\ More
    /\ \/ \E outcome \in ReadOutcomes :
            \/ Skip(outcome) \/ LoadFails(outcome)
            \/ Apply(outcome) \/ ApplyFails(outcome) \/ Hangs(outcome)
       \/ QueryCrashes

(* The call: ufdt_install_blob rejects a blob without a proper header.     *)
Install ==
    /\ n = 0 /\ n' = 1
    /\ hdr' = IF dtbsz >= HEADERSIZE /\ blob.form # "none" THEN 0 ELSE NULL
    /\ UNCHANGED <<setup, blob, dtbsz, heap, applied, crashed, hung, fault>>

OverlaysInit ==
    /\ setup \in Setups
    /\ n = 0 /\ hdr = NULL
    /\ blob = setup.blob /\ dtbsz = setup.size
    /\ heap = {0} /\ applied = << >>
    /\ crashed = FALSE /\ hung = FALSE /\ fault = {}

apply_overlays == Install \/ Iterate

OverlaysSpec == OverlaysInit /\ [][apply_overlays]_overlayVars

-----------------------------------------------------------------------------
(* Properties *)

Finished == n > Len(setup.overlays)

(* The tree handed to setup_dtb_prop has the sizes it counts on: the used  *)
(* part within totalsize, totalsize within *dtb_size, and *dtb_size bytes  *)
(* allocated, whichever overlays were merged before.                       *)
SizesAgree ==
    hdr # NULL => /\ blob.used <= blob.total
                  /\ blob.total <= dtbsz
                  /\ dtbsz <= blob.alloc

(* Meaning of the configuration: config.h, "devices this overlay applies   *)
(* to", "if pin matches value here, overlay will be applied", key=value.   *)
Wanted(o) ==
    /\ o.forDevice
    /\ \/ o.mode = "fixed"
       \/ o.mode = "gpio" /\ o.level = o.value
       \/ o.mode = "cmdline" /\ HasParameter(setup.params, o.key, o.val)

(* The configuration can be decided: what the pieces of the command line   *)
(* show of the keys asked for is clear, and gpio overlays name their line. *)
Decidable ==
    \A i \in DOMAIN setup.overlays : LET o == setup.overlays[i] IN
        /\ o.mode = "cmdline" => Unambiguous(setup.params, setup.reads, o.key, o.val)
        /\ o.mode = "gpio" => o.bank

(* When nothing fails, exactly the wanted overlays have been merged at the *)
(* end of apply_overlays, each once and in the order of the config file.   *)
ExactlyWanted ==
    (Finished /\ fault = {} /\ Decidable) =>
        /\ {applied[j] : j \in DOMAIN applied} =
                {i \in DOMAIN setup.overlays : Wanted(setup.overlays[i])}
        /\ \A j, k \in DOMAIN applied : j < k => applied[j] < applied[k]

(* apply_overlays frees every tree it replaces and never the one it holds. *)
OneTreeLeft == hdr # NULL => heap = {hdr}

(* The tree is as long as its file, the overlays merge with it, and every  *)
(* piece of the command line has a space.                                  *)
WholeInputs ==
    /\ setup.size >= HEADERSIZE /\ setup.size = setup.blob.total
    /\ setup.blob.form \in {"rw", "ro"}
    /\ \A i \in DOMAIN setup.overlays :
        setup.overlays[i].fits = "yes" /\ setup.overlays[i].file \notin 0..(HEADERSIZE - 1)
    /\ Spaced(setup.reads) /\ Decidable

(* Lines and files that cannot be read never kill the process: with whole  *)
(* inputs it never hangs, and dies only if ufdt_apply_overlay itself fails,*)
(* however many overlays were merged or skipped before.                    *)
SurvivesFailedReads ==
    WholeInputs => ~hung /\ (crashed => "merge" \in fault)

(* config.h, of a gpio overlay's value: "if pin matches value here,        *)
(* overlay will be applied".  The code also applies it when the line could *)
(* not be read at all, because -errno is not zero.                         *)
GpioAppliedOnMatch ==
    \A i \in DOMAIN applied : LET o == setup.overlays[applied[i]] IN
        o.mode = "gpio" => o.level = o.value
=============================================================================
