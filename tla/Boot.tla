-------------------------------- MODULE Boot --------------------------------
(***************************************************************************)
(* main (boot/main.c): load a kernel, a ramdisk and a device tree, add     *)
(* overlays and properties to the tree, lay the three out in memory and    *)
(* start the new kernel with kexec.  Composes Overlays (apply_overlays)    *)
(* and DtbProp (setup_dtb_prop), which work on the same tree, with the     *)
(* loading functions of BootImage and the lookup of Device.                *)
(*                                                                         *)
(* A configured device = [models, keys: what else its section sets, of     *)
(* "name" and "dtbs", the rest being uninitialised, dtbs: its trees].      *)
(***************************************************************************)
EXTENDS BootImage, Device

CONSTANTS
    Machines,     \* devices, configurations and files the program may meet
    PageSize,     \* getpagesize()
    TEXT_OFFSET,  \* where a kernel starts in its RAM bank
    ZMIN,         \* 0x34, the least a zImage may have
    CmdlineLen,   \* [{"image", "config"} -> Nat]: length of the new command line
    Junk,         \* what an uninitialised off_t may hold
    OccursIn, Behind, PrefixOf, NoValue, HEADERSIZE,  \* of Overlays
    NameLen, NodeNameLen                            \* of DtbProp

VARIABLES
    pc,       \* where main is
    code,     \* exit code, -1 before the end
    recovery, \* cfg->is_recovery
    dev,      \* the device found, by its place in cfg->devices
    zimage, ramdisk,  \* what load_zimage and load_ramdisk returned
    addr,     \* base address
    zlen,     \* zimage_len, from check_zimage
    initrd,   \* linux,initrd-start and -end as stored in the tree
    \* shared with Overlays and DtbProp:
    setup, n, hdr, blob, dtbsz, heap, applied, crashed, hung, fault, mem, ret, enomem

control == <<code, recovery, dev>>
loaded == <<zimage, ramdisk>>
layout == <<addr, zlen, initrd>>
tree == <<blob, dtbsz>>
overlayState == <<n, hdr, heap, applied, hung>>
propState == <<mem, ret, enomem>>
bootVars == <<pc, control, loaded, layout, tree, overlayState, propState,
              setup, crashed, fault>>

(* The last two are linux,initrd-start and linux,initrd-end.               *)
Props == {"bootargs", "initrd-start", "initrd-end"}

O == INSTANCE Overlays WITH Setups <- {}
D == INSTANCE DtbProp WITH ValueLens <- {}, Inputs <- {}, MaxSize <- 0

Unset == -1

(* What a machine is made of: lists, sizes that are numbers, images with a *)
(* page size that fit into memory, trees whose file holds their totalsize, *)
(* a command line that is read in pieces, and RAM below 2^32.              *)
RawBlob == [alloc : Nat, total : Nat, used : Int, chosen : BOOLEAN,
            len : [Props -> Nat \cup {D!Absent}], names : SUBSET Props,
            form : {"rw", "ro", "bad", "none"}]

ValidTree(dtb) == dtb # NoFile =>
    dtb.blob \in RawBlob /\ dtb.size \in Nat /\ D!WellFormed(dtb.blob, dtb.size)

ValidImage(img) == img # NoFile =>
    /\ img.size \in Nat /\ img.size < MaxAlloc /\ img.page \in Nat \ {0}
    /\ img.ksize \in Nat /\ img.rsize \in Nat /\ img.zlen \in Nat

ValidMachine(m) ==
    /\ O!ValidSetup(m)
    /\ ValidImage(m.bootImg) /\ ValidImage(m.recoveryImg)
    /\ m.zImage # NoFile => m.zImage.size \in Nat /\ m.zImage.zlen \in Nat
    /\ m.initramfs # NoFile => m.initramfs.size \in Nat
    /\ m.cmdline.piece \in 1..m.cmdline.reads /\ m.cmdline.reads = Len(m.reads)
    /\ O!IsList(m.devices) /\ O!IsList(m.iomem)
    /\ \A i \in DOMAIN m.devices : LET dtbs == m.devices[i].dtbs IN
        O!IsList(dtbs) /\ \A j \in DOMAIN dtbs : ValidTree(dtbs[j])
    /\ \A i \in DOMAIN m.iomem : LET r == m.iomem[i] IN
        r.start \in Nat /\ r.end \in Nat /\ r.end < WORD /\ r.ram \in BOOLEAN

ASSUME BootAssumption ==
    /\ PowerOfTwo(PageSize) /\ WORD \in Nat \ {0} /\ WORD % PageSize = 0 /\ HEADERSIZE \in Nat
    /\ BOOTHDR \in Nat /\ MaxAlloc \in Nat /\ TEXT_OFFSET \in Nat /\ ZMIN \in Nat
    /\ CmdlineLen \in [{"image", "config"} -> Nat] /\ Junk \subseteq Nat
    /\ NameLen \in [Props -> Nat] /\ NodeNameLen \in Nat
    /\ \A m \in Machines : ValidMachine(m)

-----------------------------------------------------------------------------
Exit(c) == pc' = "exit" /\ code' = c /\ UNCHANGED crashed

Crash == pc' = "crash" /\ crashed' = TRUE /\ UNCHANGED code

Goto(l) == pc' = l /\ UNCHANGED <<code, crashed>>

(* Usage, root and load_config.                                            *)
ReadConfig ==
    /\ pc = "config"
    /\ IF setup.started /\ setup.config THEN Goto("mode") ELSE Exit(1)
    /\ UNCHANGED <<recovery, dev, loaded, layout, tree, overlayState, propState, setup, fault>>

(* What util_has_cmdline may say: "no" too if /proc/cmdline does not open. *)
Answer(key, val) == O!util_has_cmdline(setup.reads, key, val)
Answers(key, val) == {Answer(key, val), "no"}

(* S-BOOT passes bootmode=2 in recovery mode.  The charger mode is asked   *)
(* for under two names; is_lpm is never used.                              *)
ReadMode ==
    /\ pc = "mode"
    /\ \E mode \in Answers("bootmode", "2"), charger \in Answers("androidboot.mode", "charger"),
          lpcharge \in Answers("lpcharge", "1") :
        /\ recovery' = (mode = "yes")
        /\ fault' = fault \cup (IF mode = Answer("bootmode", "2") THEN {} ELSE {"mode"})
        /\ IF "crash" \in {mode, charger} \/ (charger = "no" /\ lpcharge = "crash")
           THEN Crash ELSE Goto("device")
    /\ UNCHANGED <<dev, loaded, layout, tree, overlayState, propState, setup>>

(* get_cur_device, and main prints the name of the device it returns.      *)
(* There is no name if /proc/cmdline cannot be read; devices is NULL if    *)
(* the configuration lists none, and models is wild if a device has none.  *)
GetDevice ==
    /\ pc = "device"
    /\ \/ \E name \in get_bootloader(setup.cmdline) :
            /\ dev' = get_cur_device(setup.devices, name)
            /\ \/ dev' = 0 /\ (name = NoName \/ setup.devices # << >>) /\ Exit(2)
               \/ dev' = 0 /\ name # NoName /\ setup.devices = << >> /\ Crash
               \/ dev' # 0 /\ setup.devices[dev'].models # Garbage /\ Goto("zimage")
               \/ dev' # 0 /\ (setup.devices[dev'].models = Garbage \/ "name" \notin setup.devices[dev'].keys) /\ Crash
            /\ UNCHANGED fault
       \/ Exit(2) /\ fault' = fault \cup {"io"} /\ UNCHANGED dev
    /\ UNCHANGED <<recovery, loaded, layout, tree, overlayState, propState, setup>>

(* The image load_and_validate_bootimg looks for.                          *)
Image == IF recovery THEN setup.recoveryImg ELSE setup.bootImg

Failures(outcomes) == IF outcomes = {"well"} THEN {} ELSE {"io"}

LoadZimage ==
    /\ pc = "zimage" /\ Goto("ramdisk")
    /\ \E o1, o2 \in Outcomes, junk \in Junk :
        /\ zimage' = load_zimage(Image, setup.zImage, o1, o2, junk)
        /\ fault' = fault \cup Failures({o1, o2})
    /\ UNCHANGED <<recovery, dev, ramdisk, layout, tree, overlayState, propState, setup>>

LoadRamdisk ==
    /\ pc = "ramdisk" /\ Goto("dtb")
    /\ \E o1, o2 \in Outcomes, junk \in Junk :
        /\ ramdisk' = load_ramdisk(Image, setup.initramfs, o1, o2, junk)
        /\ fault' = fault \cup Failures({o1, o2})
    /\ UNCHANGED <<recovery, dev, zimage, layout, tree, overlayState, propState, setup>>

(* load_dtb takes the first file that opens and tries no other, even if    *)
(* that one cannot be read.                                                *)
LoadDtb ==
    LET dtbs == setup.devices[dev].dtbs
        there == {i \in DOMAIN dtbs : dtbs[i] # NoFile}
        lost(i) == IF i = Min(there) THEN {} ELSE {"io"}  \* open failed before i
    IN
    /\ pc = "dtb"
    /\ \/ \E i \in there :
            /\ blob' = dtbs[i].blob /\ dtbsz' = dtbs[i].size /\ heap' = {0}
            /\ fault' = fault \cup lost(i)
            /\ Goto("overlays")
       \/ /\ "dtbs" \in setup.devices[dev].keys
          /\ fault' = fault \cup (IF there = {} THEN {} ELSE {"io"})
          /\ Exit(3) /\ UNCHANGED <<tree, heap>>
       \/ /\ "dtbs" \notin setup.devices[dev].keys
          /\ Crash /\ UNCHANGED <<tree, heap, fault>>
    /\ UNCHANGED <<recovery, dev, loaded, layout, n, hdr, applied, hung, propState, setup>>

(* Overlays may fail to load; a tree that does not merge ends the process, *)
(* and one that cannot be walked never lets it go on.                      *)
ApplyOverlays ==
    /\ pc = "overlays"
    /\ O!apply_overlays
    /\ pc' = IF crashed' THEN "crash" ELSE IF hung' THEN "hang"
             ELSE IF O!Finished' THEN "bootargs" ELSE pc
    /\ UNCHANGED <<control, loaded, layout, propState>>

-----------------------------------------------------------------------------
(* One of main's calls of setup_dtb_prop and setup_dtb_prop_int, whose     *)
(* results main ignores.  A NULL tree, or a freed one, ends the process.   *)
SetProp(p, len, then) ==
    \/ /\ hdr = O!NULL /\ Crash
       /\ UNCHANGED <<tree, propState>>
    \/ /\ hdr # O!NULL
       /\ D!setup_dtb_prop(p, len)
       /\ IF mem' = "ub" THEN Crash ELSE Goto(then)

(* get_cmdline reads the image a third time for its command line.          *)
SetBootargs ==
    /\ pc = "bootargs"
    /\ \E o \in Outcomes :
        LET source == IF Validated(Image, o) THEN "image" ELSE "config" IN
        /\ SetProp("bootargs", CmdlineLen[source], "base")
        /\ fault' = fault \cup Failures({o})
    /\ UNCHANGED <<recovery, dev, loaded, layout, overlayState, setup>>

(* The first line of /proc/iomem that is "System RAM", as unsigned long.   *)
get_kernel_base_addr ==
    LET ram == {i \in DOMAIN setup.iomem : setup.iomem[i].ram}
    IN  IF ram = {} THEN Unset
        ELSE ALIGN(setup.iomem[Min(ram)].start + TEXT_OFFSET, PageSize) % WORD

GetBase ==
    /\ pc = "base"
    /\ addr' \in {get_kernel_base_addr, Unset}     \* Unset: no /proc/iomem
    /\ IF addr' = Unset THEN Exit(4) ELSE Goto("check")
    /\ UNCHANGED <<recovery, dev, loaded, zlen, initrd, tree, overlayState, propState, setup, fault>>

(* Mutant: the magic number and the length are not looked at.              *)
CheckOnlySize ==
    /\ pc = "check"
    /\ \/ zimage.sz >= ZMIN /\ zlen' = zimage.zlen /\ Goto("initrd-start")
       \/ zimage.sz < ZMIN /\ Exit(4) /\ UNCHANGED zlen
    /\ UNCHANGED <<recovery, dev, loaded, addr, initrd, tree, overlayState, propState, setup, fault>>

(* check_zimage reads the header of whatever load_zimage returned.         *)
CheckZimage ==
    /\ pc = "check"
    /\ LET valid == zimage.zmagic /\ zimage.zlen <= zimage.sz IN
       \/ zimage.sz >= ZMIN /\ zimage.src = "null" /\ Crash /\ UNCHANGED zlen
       \/ zimage.sz >= ZMIN /\ zimage.src # "null" /\ valid /\ zlen' = zimage.zlen /\ Goto("initrd-start")
       \/ /\ zimage.sz < ZMIN \/ (zimage.src # "null" /\ ~valid)
          /\ Exit(4) /\ UNCHANGED zlen
    /\ UNCHANGED <<recovery, dev, loaded, addr, initrd, tree, overlayState, propState, setup, fault>>

aligned_zsz == ALIGN(zimage.sz, PageSize)
aligned_rdsz == ALIGN(ramdisk.sz, PageSize)
aligned_dtbsz == ALIGN(dtbsz, PageSize)

(* Mutant: no room to unpack.                                              *)
BufferTooSmall == ALIGN(zlen, PageSize)

(* assume maximum kernel compression ratio is 4                            *)
decompress_buf == ALIGN(zlen * 4, PageSize)

(* Both are uint32_t.                                                      *)
rd_start == (addr + aligned_zsz + decompress_buf) % WORD

(* Mutant: the ramdisk's end is not rounded up.                            *)
EndUnaligned == rd_start + ramdisk.sz

rd_end == (addr + aligned_zsz + decompress_buf + aligned_rdsz) % WORD

SetInitrdStart ==
    /\ pc = "initrd-start"
    /\ SetProp("initrd-start", 4, "initrd-end")
    /\ initrd' = [initrd EXCEPT !.start = IF ret' = "0" THEN rd_start ELSE @]
    /\ UNCHANGED <<recovery, dev, loaded, addr, zlen, overlayState, setup, fault>>

SetInitrdEnd ==
    /\ pc = "initrd-end"
    /\ SetProp("initrd-end", 4, "kexec")
    /\ initrd' = [initrd EXCEPT !.end = IF ret' = "0" THEN rd_end ELSE @]
    /\ UNCHANGED <<recovery, dev, loaded, addr, zlen, overlayState, setup, fault>>

-----------------------------------------------------------------------------
(* Pointers have 32 bits too, and so has every sum of addr and lengths.    *)
segs == <<
    [buf |-> zimage.src # "null", bufsz |-> zimage.sz,
     mem |-> addr, memsz |-> aligned_zsz],
    [buf |-> ramdisk.src # "null", bufsz |-> ramdisk.sz,
     mem |-> (addr + aligned_zsz + decompress_buf) % WORD, memsz |-> aligned_rdsz],
    [buf |-> TRUE, bufsz |-> dtbsz,
     mem |-> (addr + aligned_zsz + decompress_buf + aligned_rdsz) % WORD, memsz |-> aligned_dtbsz] >>

(* external: a segment the kernel takes: it can read the buffer, and the   *)
(* destination is in one RAM bank.                                         *)
Loadable(s) ==
    /\ s.bufsz > 0 => s.buf
    /\ \E i \in DOMAIN setup.iomem :
        setup.iomem[i].ram /\ setup.iomem[i].start <= s.mem /\ s.mem + s.memsz <= setup.iomem[i].end

KexecLoad ==
    /\ pc = "kexec"
    /\ \/ (\A i \in DOMAIN segs : Loadable(segs[i])) /\ Goto("reboot")
       \/ Exit(4)
    /\ UNCHANGED <<recovery, dev, loaded, layout, tree, overlayState, propState, setup, fault>>

(* Either the new kernel runs or the system call returns.                  *)
Reboot ==
    /\ pc = "reboot"
    /\ Goto("rebooted") \/ Exit(5)
    /\ UNCHANGED <<recovery, dev, loaded, layout, tree, overlayState, propState, setup, fault>>

Nothing == [src |-> "null", sz |-> 0, zmagic |-> FALSE, zlen |-> 0]

Init ==
    /\ setup \in Machines
    /\ pc = "config" /\ code = Unset /\ recovery = FALSE /\ dev = 0
    /\ zimage = Nothing /\ ramdisk = Nothing
    /\ addr = Unset /\ zlen = Unset /\ initrd = [start |-> Unset, end |-> Unset]
    /\ blob = NoFile /\ dtbsz = 0
    /\ n = 0 /\ hdr = O!NULL /\ heap = {} /\ applied = << >>
    /\ mem = "ok" /\ ret = "none" /\ enomem = FALSE
    /\ crashed = FALSE /\ hung = FALSE /\ fault = {}

Next ==
    \/ ReadConfig \/ ReadMode \/ GetDevice
    \/ LoadZimage \/ LoadRamdisk \/ LoadDtb
    \/ ApplyOverlays \/ SetBootargs \/ GetBase \/ CheckZimage
    \/ SetInitrdStart \/ SetInitrdEnd \/ KexecLoad \/ Reboot

(* main is one thread and no call in it waits for anybody.                 *)
Spec == Init /\ [][Next]_bootVars /\ WF_bootVars(Next)

-----------------------------------------------------------------------------
(* Properties *)

Ended == {"exit", "crash", "rebooted"}

(* The layout of an image as mkbootimg writes it: the header, the kernel   *)
(* and the ramdisk each start on a page of their own.                      *)
Pages(size, page) == (size + page - 1) \div page
WholeImage(img) ==
    /\ img # NoFile
    /\ img.magic /\ img.page >= BOOTHDR
    /\ img.size >= (1 + Pages(img.ksize, img.page) + Pages(img.rsize, img.page)) * img.page

(* The header's page size is one ALIGN is meant for, and its sizes are not *)
(* so large that uint32_t sums wrap around.                                *)
PlainHeader(img) == img # NoFile =>
    PowerOfTwo(img.page) /\ img.ksize + img.rsize + 2 * img.page < WORD

(* Kernel and ramdisk are read from the image independently, each with a   *)
(* fallback of its own.  If no access fails, an image that holds both      *)
(* gives both, and a truncated one never gives its ramdisk to a kernel     *)
(* that comes from elsewhere.                                              *)
ImageTakenWhole ==
    (pc = "dtb" /\ fault = {} /\ PlainHeader(Image)) =>
        /\ WholeImage(Image) => zimage.src = "image" /\ ramdisk.src = "image"
        /\ ramdisk.src = "image" => zimage.src = "image"

(* What apply_overlays returns satisfies what setup_dtb_prop counts on.    *)
TreeHandedOver ==
    (pc = "bootargs" /\ hdr # O!NULL) => blob \in D!Blob /\ D!WellFormed(blob, dtbsz)

(* The segments given to kexec_load start on pages and hold what they are  *)
(* loaded with.  As long as their sum stays below 2^32 they follow each    *)
(* other without overlap and leave the unpacked kernel, taken to be at     *)
(* most four times the zImage, room before the ramdisk.                    *)
BelowWord == addr + aligned_zsz + decompress_buf + aligned_rdsz < WORD

SegmentsSound ==
    pc \in {"kexec", "reboot", "rebooted"} =>
        /\ \A i \in 1..3 : segs[i].mem % PageSize = 0 /\ segs[i].bufsz <= segs[i].memsz
        /\ BelowWord => /\ segs[2].mem >= segs[1].mem + segs[1].memsz + 4 * zlen
                        /\ segs[3].mem >= segs[2].mem + segs[2].memsz

(* The new kernel finds the ramdisk where the tree says it is, although    *)
(* the addresses are written before the tree has its final size, and the   *)
(* results of setup_dtb_prop_int are ignored: the sums that are stored     *)
(* agree with those of the pointers, even where both wrap around, and in   *)
(* what was started the ramdisk's end has not wrapped.                     *)
InitrdFound ==
    (pc \in {"kexec", "reboot", "rebooted"} /\ D!Regular) =>
        /\ initrd.start = segs[2].mem
        /\ initrd.end = (segs[2].mem + segs[2].memsz) % WORD
        /\ pc # "kexec" => initrd.end = initrd.start + segs[2].memsz

(* The third segment is the whole tree with all that was added to it.      *)
TreeWhole ==
    (pc \in {"kexec", "reboot", "rebooted"} /\ D!Regular) =>
        /\ segs[3].bufsz = blob.total
        /\ blob.used <= blob.total
        /\ \A p \in Props : blob.len[p] # D!Absent

(* main checks neither load for NULL, and still never starts anything but  *)
(* a checked zImage with a ramdisk that was really read, or with none.     *)
StartsWhatWasLoaded ==
    pc \in {"reboot", "rebooted"} =>
        /\ zimage.src # "null" /\ zimage.zmagic /\ zlen <= zimage.sz
        /\ ramdisk.src = "null" => ramdisk.sz = 0

(* A machine with intact files and a good configuration.                   *)
Sound(dtb) ==
    /\ dtb # NoFile
    /\ dtb.size = dtb.blob.total /\ dtb.size >= HEADERSIZE /\ dtb.blob.form = "rw"
FirstSound(dtbs) ==
    \E i \in DOMAIN dtbs : Sound(dtbs[i]) /\ \A j \in 1..(i - 1) : dtbs[j] = NoFile
GoodSetup ==
    /\ setup.started /\ setup.config
    /\ Readable(setup.cmdline) /\ setup.cmdline.how = "whole" /\ setup.cmdline.value # NoName
    /\ O!Spaced(setup.reads)
    /\ O!Unambiguous(setup.params, setup.reads, "bootmode", "2")
    /\ O!Unambiguous(setup.params, setup.reads, "androidboot.mode", "charger")
    /\ O!Unambiguous(setup.params, setup.reads, "lpcharge", "1")
    /\ setup.zImage # NoFile /\ setup.initramfs # NoFile
    /\ \A i \in DOMAIN setup.devices :
        LET d == setup.devices[i] IN
        d.models # Garbage /\ d.keys = {"name", "dtbs"} /\ FirstSound(d.dtbs)
    /\ \E i \in DOMAIN setup.devices :
        \E j \in DOMAIN setup.devices[i].models : setup.devices[i].models[j] = setup.cmdline.value
    /\ \A i \in DOMAIN setup.overlays : LET o == setup.overlays[i] IN
        o.fits = "yes" /\ o.file \notin 0..(HEADERSIZE - 1) /\ o.mode = "fixed"
GoodMachine == GoodSetup /\ (Image = NoFile \/ WholeImage(Image))

(* On a good machine on which no access and no allocation fails, main gets *)
(* as far as kexec_load if there is RAM and a zImage, with the device that *)
(* the command line names, and in recovery mode if it was asked for; it    *)
(* never crashes, never hangs and never gives up before.                   *)
GoodMachineBoots ==
    (GoodMachine /\ fault \subseteq {"mode", "load"} /\ ~enomem) =>
        /\ pc \notin {"crash", "hang"} /\ code \in {Unset, 4, 5}
        /\ (pc \notin {"config", "mode"} /\ "mode" \notin fault) =>
                (recovery <=> O!HasParameter(setup.params, "bootmode", "2"))
        /\ dev # 0 => \E j \in DOMAIN setup.devices[dev].models : setup.devices[dev].models[j] = setup.cmdline.value

(* main always ends: it starts the new kernel, exits or dies, unless it is *)
(* given a tree or an overlay whose structure block libfdt cannot walk.    *)
Walkable ==
    /\ \A i \in DOMAIN setup.devices : LET dtbs == setup.devices[i].dtbs IN
        \A j \in DOMAIN dtbs : dtbs[j] # NoFile => dtbs[j].blob.form # "bad"
    /\ \A i \in DOMAIN setup.overlays : setup.overlays[i].fits # "broken"

Ends == Walkable => <>(pc \in Ended)
=============================================================================
