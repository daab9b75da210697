-------------------------------- MODULE Dtb --------------------------------
(***************************************************************************)
(* The device tree main holds, which apply_overlays replaces and           *)
(* setup_dtb_prop edits, and the size main keeps for it.                   *)
(***************************************************************************)
VARIABLES
    blob,    \* the tree: alloc, total, used, form and what else is known of it
    dtbsz    \* *dtb_size of apply_overlays, *size of setup_dtb_prop
=============================================================================
