------------------------------ MODULE BootImage ------------------------------
(***************************************************************************)
(* Loading files and the parts of an Android boot image (boot/util.c,      *)
(* boot/bootimage.c, boot/kernel.c).  A file is a record with its size;    *)
(* an image adds magic, page, ksize and rsize from its header, and zmagic  *)
(* and zlen of the kernel in it, which a zImage file has too.  Every load  *)
(* opens and reads its file anew, so each may fail on its own.             *)
(***************************************************************************)
EXTENDS Integers

CONSTANTS
    BOOTHDR,   \* sizeof(struct boot_img_hdr)
    WORD,      \* 2^32: the header's fields are uint32_t
    MaxAlloc   \* malloc of this size and above always fails

NoFile == [size |-> -1]     \* not configured, or the file is not there

(* How a load ends: well, failing before the length is stored through the  *)
(* caller's pointer (open, lseek), or after it (malloc, read).             *)
Outcomes == {"well", "early", "late"}

(* load_file and load_blob: is a buffer returned, and what is *sz then?    *)
load_file(f, outcome, sz) ==
    IF f = NoFile \/ outcome = "early" THEN [ok |-> FALSE, sz |-> sz]
    ELSE [ok |-> outcome = "well", sz |-> f.size]

(* x & ~m, bit by bit.                                                     *)
Cleared[x \in Nat, m \in Nat] ==
    IF x = 0 THEN 0 ELSE 2 * Cleared[x \div 2, m \div 2] + (x % 2) * (1 - (m % 2))

(* ALIGN is (x + a - 1) & ~(a - 1): that rounds up to a multiple if a is a *)
(* power of two, and clears some bits if an image's page size is not.      *)
PowerOfTwo(a) == a \in Nat \ {0} /\ \E k \in 0..30 : a = 2^k

ALIGN(x, a) ==
    IF PowerOfTwo(a) THEN ((x + a - 1) \div a) * a
    ELSE Cleared[(x + a - 1) % WORD, a - 1]

(* The image passes load_and_validate_bootimg.                             *)
Validated(img, outcome) ==
    /\ load_file(img, outcome, 0).ok
    /\ img.size >= BOOTHDR
    /\ img.magic

(* load_android_zimage and load_android_initrd return a buffer.            *)
ZimageLoads(img, outcome) ==
    /\ Validated(img, outcome)
    /\ (img.ksize + img.page) % WORD <= img.size
    /\ img.ksize < MaxAlloc

(* Mutant: the kernel in front of the ramdisk is forgotten.                *)
OffsetWithoutKernel(img) == img.page

InitrdOffset(img) == (ALIGN(img.ksize, img.page) + img.page) % WORD

InitrdLoads(img, outcome) ==
    /\ Validated(img, outcome)
    /\ (InitrdOffset(img) + img.rsize) % WORD <= img.size
    /\ img.rsize < MaxAlloc

(* load_zimage and load_ramdisk: the image first, else the file.  src says *)
(* where the part came from; sz is what is left in an unset length.        *)
load_zimage(img, file, o1, o2, sz) ==
    IF ZimageLoads(img, o1)
    THEN [src |-> "image", sz |-> img.ksize, zmagic |-> img.zmagic, zlen |-> img.zlen]
    ELSE LET l == load_file(file, o2, sz) IN
         IF l.ok THEN [src |-> "file", sz |-> l.sz, zmagic |-> file.zmagic, zlen |-> file.zlen]
         ELSE [src |-> "null", sz |-> l.sz, zmagic |-> FALSE, zlen |-> 0]

load_ramdisk(img, file, o1, o2, sz) ==
    IF InitrdLoads(img, o1) THEN [src |-> "image", sz |-> img.rsize]
    ELSE LET l == load_file(file, o2, sz) IN
         [src |-> IF l.ok THEN "file" ELSE "null", sz |-> l.sz]
=============================================================================
