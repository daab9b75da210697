----------------------------- MODULE BootProofs -----------------------------
(***************************************************************************)
(* Proofs about Boot, for every page size, machine, configuration and set  *)
(* of files.  The steps of setup_dtb_prop come from DtbProofs.         *)
(***************************************************************************)
EXTENDS Boot, NumberFacts, TLAPS

DP == INSTANCE DtbProofs WITH ValueLens <- {}, Inputs <- {}, MaxSize <- 0, Setups <- {}

(* main runs through these in order.                                       *)
Started == {"reboot", "rebooted"}
Placed == {"kexec"} \cup Started
Checked == {"initrd-start", "initrd-end"} \cup Placed
Based == {"check"} \cup Checked
Edited == {"base"} \cup Based
Loading == {"zimage", "ramdisk", "dtb"}
Early == {"config", "mode", "device"} \cup Loading

(* What was loaded has lengths, wherever it came from.                     *)
PartsInv ==
    /\ setup \in Machines
    /\ zimage.sz \in Nat /\ zimage.zlen \in Nat /\ ramdisk.sz \in Nat
    /\ pc \in Loading => dev \in DOMAIN setup.devices

(* The base address is known and the zImage has passed check_zimage.       *)
LayoutInv ==
    /\ pc \in Based => addr \in Nat /\ addr % PageSize = 0
    /\ pc \in Checked => /\ zimage.src # "null" /\ zimage.zmagic
                         /\ zlen = zimage.zlen /\ zlen <= zimage.sz
    /\ pc \in Started => \A i \in DOMAIN segs : Loadable(segs[i])

(* The tree: nothing has been stored in it before the overlays are done,   *)
(* and from then on it is as setup_dtb_prop leaves it.                     *)
TreeInv ==
    /\ dtbsz \in Nat /\ initrd \in [start : Int, end : Int]
    /\ pc \in Early \cup {"overlays", "bootargs"} => mem = "ok" /\ ret = "none" /\ enomem = FALSE
    /\ pc \in Early => hdr = O!NULL
    /\ pc \in {"overlays", "bootargs"} =>
        /\ blob \in RawBlob /\ D!WellFormed(blob, dtbsz)
        /\ hdr # O!NULL => blob.form # "none"
    /\ pc \in Edited => DP!TypeOK /\ hdr # O!NULL

(* What main has stored in a tree that setup_dtb_prop could edit.          *)
StoredInv ==
    /\ (pc \in Edited /\ D!Regular) => DP!Sound /\ ret = "0" /\ blob.len["bootargs"] # D!Absent
    /\ (pc \in {"initrd-end"} \cup Placed /\ D!Regular) =>
        initrd.start = rd_start /\ blob.len["initrd-start"] # D!Absent
    /\ (pc \in Placed /\ D!Regular) =>
        initrd.end = rd_end /\ blob.len["initrd-end"] # D!Absent

(* Without a failure the image decides where kernel and ramdisk come from. *)
ImageInv ==
    /\ (pc \in {"ramdisk", "dtb"} /\ fault = {}) =>
        (zimage.src = "image" <=> ZimageLoads(Image, "well"))
    /\ (pc = "dtb" /\ fault = {}) =>
        (ramdisk.src = "image" <=> InitrdLoads(Image, "well"))

(* What keeps main going on a good machine while nothing fails.            *)
Unhurt == fault \subseteq {"mode", "load"} /\ ~enomem

RightDevice ==
    dev # 0 => \E j \in DOMAIN setup.devices[dev].models :
                    setup.devices[dev].models[j] = setup.cmdline.value

Going ==
    /\ pc \notin {"crash", "hang"} /\ ~crashed /\ ~hung
    /\ code \in {Unset, 4, 5} /\ RightDevice
    /\ pc \in {"ramdisk", "dtb", "overlays", "bootargs"} \cup Edited => zimage.src # "null"
    /\ pc \in Early => n = 0
    /\ pc = "overlays" => /\ n \in Nat /\ dtbsz = blob.total
                          /\ n = 0 => dtbsz >= HEADERSIZE
                          /\ n # 0 => hdr # O!NULL
    /\ pc = "bootargs" => hdr # O!NULL
    /\ pc \in {"overlays", "bootargs"} \cup Edited => blob.form = "rw"

RightMode ==
    (pc \notin {"config", "mode"} /\ "mode" \notin fault) =>
        (recovery <=> O!HasParameter(setup.params, "bootmode", "2"))

GoodInv == (GoodSetup /\ Unhurt) => Going /\ RightMode

Inv == PartsInv /\ LayoutInv /\ TreeInv /\ StoredInv /\ ImageInv

USE DEF Started, Placed, Checked, Based, Edited, Loading, Early

-----------------------------------------------------------------------------
(* For a power of two ALIGN rounds up, to a multiple.                      *)
LEMMA AlignFacts ==
    ASSUME NEW x \in Nat, NEW a, PowerOfTwo(a)
    PROVE  /\ a \in Nat \ {0} /\ ALIGN(x, a) \in Nat /\ x <= ALIGN(x, a) /\ ALIGN(x, a) < x + a
           /\ ALIGN(x, a) = ((x + a - 1) \div a) * a
           /\ \E k \in Nat : ALIGN(x, a) = k * a
<1>1. a \in Nat \ {0}
  BY DEF PowerOfTwo
<1>2. ALIGN(x, a) = ((x + a - 1) \div a) * a
  BY DEF ALIGN
<1>3. ALIGN(x, a) \in Nat /\ x <= ALIGN(x, a) /\ ALIGN(x, a) < x + a
  BY <1>1, <1>2
<1>4. (x + a - 1) \div a \in Nat
  BY <1>1
<1> QED BY <1>1, <1>2, <1>3, <1>4

LEMMA MultipleFacts ==
    ASSUME NEW k \in Nat, NEW j \in Nat, NEW a \in Nat \ {0}
    PROVE  (k * a) % a = 0 /\ k * a + j * a = (k + j) * a
OBVIOUS

(* Adding an aligned length to a page address gives a page address.        *)
LEMMA PageSum ==
    ASSUME NEW x \in Nat, NEW y \in Nat, NEW a, PowerOfTwo(a), x % a = 0
    PROVE  (x + ALIGN(y, a)) % a = 0
<1>1. PICK j \in Nat : ALIGN(y, a) = j * a
  BY AlignFacts
<1>2. x = (x \div a) * a /\ x \div a \in Nat /\ a \in Nat \ {0}
  <2>1. a \in Nat \ {0}
    BY DEF PowerOfTwo
  <2> QED BY <2>1
<1>3. x + j * a = ((x \div a) + j) * a
  BY <1>2, MultipleFacts
<1>4. (x \div a) + j \in Nat
  BY <1>2
<1>5. (((x \div a) + j) * a) % a = 0
  BY <1>2, <1>4, MultipleFacts
<1> QED BY <1>1, <1>3, <1>5

LEMMA AlignedIsPage ==
    ASSUME NEW x \in Nat, NEW a, PowerOfTwo(a)
    PROVE  ALIGN(x, a) % a = 0
<1>1. PICK j \in Nat : ALIGN(x, a) = j * a
  BY AlignFacts
<1>2. (j * a) % a = 0
  BY AlignFacts, MultipleFacts
<1> QED BY <1>1, <1>2

(* A page address is one still if it wraps around: pages divide the memory.*)
LEMMA WrappedPage ==
    ASSUME NEW x \in Nat, NEW a \in Nat \ {0}, NEW w \in Nat \ {0}, x % a = 0, w % a = 0
    PROVE  x % w \in Nat /\ x % w < w /\ (x % w) % a = 0
<1> DEFINE q == x \div w
           k == x \div a
           m == w \div a
<1>1. q \in Nat /\ k \in Nat /\ m \in Nat /\ x % w \in Nat /\ x % w < w
  OBVIOUS
<1>2. x = w * q + (x % w)
  OBVIOUS
<1>3. x = k * a /\ w = m * a
  OBVIOUS
<1> HIDE DEF q, k, m
<1>4. (x % w) = (k * a) - ((m * a) * q)
  BY <1>1, <1>2, <1>3
<1>5. (m * a) * q = (m * q) * a /\ m * q \in Nat
  BY <1>1
<1> DEFINE p == m * q
           t == x % w
<1>6. t = (k * a) - (p * a) /\ t \in Nat /\ p \in Nat
  BY <1>1, <1>4, <1>5
<1> HIDE DEF p, t
<1>7. t = (k - p) * a /\ k - p \in Int
  BY <1>1, <1>6
<1>8. k - p >= 0
  BY <1>6, <1>7
<1>9. ((k - p) * a) % a = 0
  <2>1. PICK i \in Nat : i = k - p
    BY <1>7, <1>8
  <2>2. (i * a) % a = 0
    BY MultipleFacts
  <2> QED BY <2>1, <2>2
<1> QED BY <1>1, <1>7, <1>9 DEF t

LEMMA RemainderIs ==
    ASSUME NEW k \in Nat, NEW t \in Nat, NEW w \in Nat \ {0}, t < w
    PROVE  (w * k + t) % w = t
OBVIOUS

LEMMA NoWrapAround == ASSUME NEW x \in Nat, NEW a \in Nat, x < a PROVE x % a = x
OBVIOUS

(* It does not matter whether a sum is cut to a word once or twice.        *)
LEMMA SumWraps ==
    ASSUME NEW x \in Nat, NEW y \in Nat, NEW w \in Nat \ {0}
    PROVE  (x + y) % w = ((x % w) + y) % w
<1> DEFINE q == x \div w
           u == (x % w) + y
           d == u \div w
           t == u % w
<1>1. q \in Nat /\ u \in Nat /\ d \in Nat /\ t \in Nat /\ t < w
  OBVIOUS
<1>2. x = w * q + (x % w) /\ u = w * d + t
  OBVIOUS
<1>3. x + y = w * q + u
  BY <1>2
<1> HIDE DEF q, u, d, t
<1>4. x + y = w * (q + d) + t
  BY <1>1, <1>2, <1>3
<1>5. q + d \in Nat
  BY <1>1
<1>6. (w * (q + d) + t) % w = t
  BY <1>1, <1>5, RemainderIs
<1> QED BY <1>4, <1>6 DEF u, t

(* A program that has ended has nothing left to keep.                      *)
LEMMA EndPreserves ==
    ASSUME Inv, pc' \in {"exit", "crash"}, setup' = setup, zimage' = zimage, ramdisk' = ramdisk,
           dtbsz' \in Nat, initrd' \in [start : Int, end : Int]
    PROVE  Inv'
BY DEF Inv, PartsInv, LayoutInv, TreeInv, StoredInv, ImageInv

-----------------------------------------------------------------------------
LEMMA ReadConfigPreserves == ASSUME Inv, ReadConfig PROVE Inv'
<1> USE DEF ReadConfig, Exit, Goto, loaded, layout, tree, overlayState, propState
<1>1. CASE pc' = "exit"
  BY <1>1, EndPreserves DEF Inv, TreeInv
<1>2. CASE pc' = "mode"
  BY <1>2 DEF Inv, PartsInv, LayoutInv, TreeInv, StoredInv, ImageInv
<1> QED BY <1>1, <1>2

LEMMA ReadModePreserves == ASSUME Inv, ReadMode PROVE Inv'
<1>1. /\ pc = "mode" /\ pc' \in {"crash", "device"}
      /\ UNCHANGED <<dev, loaded, layout, tree, overlayState, propState, setup>>
  BY DEF ReadMode, Crash, Goto
<1> USE <1>1 DEF loaded, layout, tree, overlayState, propState
<1>2. CASE pc' = "crash"
  BY <1>2, EndPreserves DEF Inv, TreeInv
<1>3. CASE pc' = "device"
  BY <1>3 DEF Inv, PartsInv, LayoutInv, TreeInv, StoredInv, ImageInv
<1> QED BY <1>2, <1>3

(* get_cur_device returns 0 or the place of a configured device.           *)
LEMMA CurDeviceType ==
    ASSUME setup \in Machines, NEW name
    PROVE  LET d == get_cur_device(setup.devices, name) IN d # 0 => d \in DOMAIN setup.devices
<1> DEFINE stops == {i \in DOMAIN setup.devices :
                        \/ setup.devices[i].models = Garbage
                        \/ \E j \in DOMAIN setup.devices[i].models : setup.devices[i].models[j] = name}
<1>1. DOMAIN setup.devices \subseteq Nat
  <2>1. setup.devices \in Seq({setup.devices[i] : i \in DOMAIN setup.devices})
    BY BootAssumption DEF ValidMachine, O!IsList
  <2> QED BY <2>1
<1>2. ASSUME stops # {} PROVE Min(stops) \in stops
  BY <1>1, <1>2, MinOf
<1>3. get_cur_device(setup.devices, name) = IF name = NoName \/ stops = {} THEN 0 ELSE Min(stops)
  BY DEF get_cur_device
<1> QED BY <1>2, <1>3

LEMMA GetDevicePreserves == ASSUME Inv, GetDevice PROVE Inv'
<1>1. /\ pc = "device"
      /\ UNCHANGED <<recovery, loaded, layout, tree, overlayState, propState, setup>>
  BY DEF GetDevice
<1>2. \/ pc' \in {"exit", "crash"}
      \/ pc' = "zimage" /\ dev' # 0 /\ \E name : dev' = get_cur_device(setup.devices, name)
  BY DEF GetDevice, Exit, Crash, Goto
<1> USE <1>1 DEF loaded, layout, tree, overlayState, propState
<1>3. CASE pc' \in {"exit", "crash"}
  BY <1>3, EndPreserves DEF Inv, TreeInv
<1>4. CASE pc' = "zimage"
  <2>1. dev' \in DOMAIN setup.devices
    BY <1>2, <1>4, CurDeviceType DEF Inv, PartsInv
  <2> QED BY <1>4, <2>1 DEF Inv, PartsInv, LayoutInv, TreeInv, StoredInv, ImageInv
<1> QED BY <1>2, <1>3, <1>4

-----------------------------------------------------------------------------
LEMMA ImageValid == ASSUME setup \in Machines PROVE ValidImage(Image)
BY BootAssumption DEF ValidMachine, Image

(* If no access failed both attempts of a load ended well.                 *)
LEMMA NoFailure ==
    ASSUME NEW o1, NEW o2, Failures({o1, o2}) = {}
    PROVE  o1 = "well" /\ o2 = "well"
BY DEF Failures

LEMMA LoadZimagePreserves == ASSUME Inv, LoadZimage PROVE Inv'
<1>1. /\ pc = "zimage" /\ pc' = "ramdisk" /\ code' = code /\ crashed' = crashed
      /\ UNCHANGED <<recovery, dev, ramdisk, layout, tree, overlayState, propState, setup>>
  BY DEF LoadZimage, Goto
<1>2. PICK o1 \in Outcomes, o2 \in Outcomes, junk \in Junk :
        /\ zimage' = load_zimage(Image, setup.zImage, o1, o2, junk)
        /\ fault' = fault \cup Failures({o1, o2})
  BY DEF LoadZimage
<1> USE <1>1 DEF layout, tree, overlayState, propState
<1>3. Image' = Image
  BY DEF Image
<1>4. PartsInv'
  <2>1. setup \in Machines /\ ValidMachine(setup) /\ junk \in Nat /\ ValidImage(Image)
    BY BootAssumption, ImageValid DEF Inv, PartsInv
  <2>2. CASE ZimageLoads(Image, o1)
    BY <1>2, <2>1, <2>2 DEF load_zimage, ZimageLoads, Validated, load_file, ValidImage,
       Inv, PartsInv
  <2>3. CASE ~ZimageLoads(Image, o1)
    BY <1>2, <2>1, <2>3 DEF load_zimage, load_file, ValidMachine, Inv, PartsInv
  <2> QED BY <2>2, <2>3
<1>5. ImageInv'
  <2>1. ASSUME fault' = {} PROVE zimage'.src = "image" <=> ZimageLoads(Image, "well")
    <3>1. o1 = "well" /\ o2 = "well"
      BY <1>2, <2>1, NoFailure
    <3> QED BY <1>2, <3>1 DEF load_zimage
  <2>2. (fault' = {}) => (zimage'.src = "image" <=> ZimageLoads(Image, "well"))
    BY <2>1
  <2>3. ZimageLoads(Image, "well")' <=> ZimageLoads(Image, "well")
    BY <1>3 DEF ZimageLoads, Validated, load_file
  <2> QED BY <2>2, <2>3 DEF ImageInv
<1> QED BY <1>4, <1>5 DEF Inv, LayoutInv, TreeInv, StoredInv

LEMMA LoadRamdiskPreserves == ASSUME Inv, LoadRamdisk PROVE Inv'
<1>1. /\ pc = "ramdisk" /\ pc' = "dtb" /\ code' = code /\ crashed' = crashed
      /\ UNCHANGED <<recovery, dev, zimage, layout, tree, overlayState, propState, setup>>
  BY DEF LoadRamdisk, Goto
<1>2. PICK o1 \in Outcomes, o2 \in Outcomes, junk \in Junk :
        /\ ramdisk' = load_ramdisk(Image, setup.initramfs, o1, o2, junk)
        /\ fault' = fault \cup Failures({o1, o2})
  BY DEF LoadRamdisk
<1> USE <1>1 DEF layout, tree, overlayState, propState
<1>3. Image' = Image
  BY DEF Image
<1>4. PartsInv'
  <2>1. setup \in Machines /\ ValidMachine(setup) /\ junk \in Nat /\ ValidImage(Image)
    BY BootAssumption, ImageValid DEF Inv, PartsInv
  <2>2. CASE InitrdLoads(Image, o1)
    BY <1>2, <2>1, <2>2 DEF load_ramdisk, InitrdLoads, Validated, load_file, ValidImage,
       Inv, PartsInv
  <2>3. CASE ~InitrdLoads(Image, o1)
    BY <1>2, <2>1, <2>3 DEF load_ramdisk, load_file, ValidMachine, Inv, PartsInv
  <2> QED BY <2>2, <2>3
<1>5. ImageInv'
  <2>1. ASSUME fault' = {} PROVE ramdisk'.src = "image" <=> InitrdLoads(Image, "well")
    <3>1. o1 = "well" /\ o2 = "well"
      BY <1>2, <2>1, NoFailure
    <3> QED BY <1>2, <3>1 DEF load_ramdisk
  <2>2. ASSUME fault' = {} PROVE zimage'.src = "image" <=> ZimageLoads(Image, "well")
    BY <1>2, <2>2 DEF Inv, ImageInv
  <2>3. /\ ZimageLoads(Image, "well")' <=> ZimageLoads(Image, "well")
        /\ InitrdLoads(Image, "well")' <=> InitrdLoads(Image, "well")
    BY <1>3 DEF ZimageLoads, InitrdLoads, InitrdOffset, ALIGN, Validated, load_file
  <2> QED BY <2>1, <2>2, <2>3 DEF ImageInv
<1> QED BY <1>4, <1>5 DEF Inv, LayoutInv, TreeInv, StoredInv

LEMMA LoadDtbPreserves == ASSUME Inv, LoadDtb PROVE Inv'
<1> DEFINE dtbs == setup.devices[dev].dtbs
<1>1. /\ pc = "dtb"
      /\ UNCHANGED <<recovery, dev, loaded, layout, n, hdr, applied, propState, setup>>
      /\ \/ pc' \in {"exit", "crash"} /\ UNCHANGED tree
         \/ /\ pc' = "overlays"
            /\ \E i \in DOMAIN dtbs :
                dtbs[i] # NoFile /\ blob' = dtbs[i].blob /\ dtbsz' = dtbs[i].size
  BY DEF LoadDtb, Goto, Exit, Crash
<1> USE <1>1 DEF loaded, layout, tree, overlayState, propState
<1>2. CASE pc' \in {"exit", "crash"}
  BY <1>2, EndPreserves DEF Inv, TreeInv
<1>3. CASE pc' = "overlays"
  <2>1. dev \in DOMAIN setup.devices /\ ValidMachine(setup)
    BY BootAssumption DEF Inv, PartsInv
  <2>2. PICK i \in DOMAIN dtbs : dtbs[i] # NoFile /\ blob' = dtbs[i].blob /\ dtbsz' = dtbs[i].size
    BY <1>3
  <2>3. ValidTree(dtbs[i])
    BY <2>1, <2>2 DEF ValidMachine
  <2>4. blob' \in RawBlob /\ dtbsz' \in Nat /\ D!WellFormed(blob', dtbsz')
    BY <2>2, <2>3 DEF ValidTree
  <2>5. TreeInv'
    BY <1>3, <2>4 DEF Inv, TreeInv, D!WellFormed
  <2> QED BY <1>3, <2>5 DEF Inv, PartsInv, LayoutInv, StoredInv, ImageInv
<1> QED BY <1>2, <1>3

-----------------------------------------------------------------------------
(* Steps that do not touch the tree keep what is known of it, and steps    *)
(* that do not touch lengths and addresses keep the layout.                *)
LEMMA TreeFrame ==
    ASSUME UNCHANGED <<blob, dtbsz, mem, ret, enomem>>
    PROVE  /\ DP!TypeOK' <=> DP!TypeOK
           /\ DP!Sound' <=> DP!Sound
           /\ D!Regular' <=> D!Regular
BY DEF DP!TypeOK, DP!Blob, DP!Sound, DP!WellFormed, D!Regular

LEMMA AddressFrame ==
    ASSUME UNCHANGED <<zimage, ramdisk, addr, zlen>>
    PROVE  rd_start' = rd_start /\ rd_end' = rd_end
BY DEF rd_start, rd_end, aligned_zsz, aligned_rdsz, decompress_buf, ALIGN

(* The lengths and addresses of the layout are numbers.                    *)
LEMMA LayoutTypes ==
    ASSUME PartsInv, LayoutInv, pc \in Checked, dtbsz \in Nat
    PROVE  /\ addr \in Nat /\ zlen \in Nat /\ aligned_zsz \in Nat /\ aligned_rdsz \in Nat
           /\ decompress_buf \in Nat /\ aligned_dtbsz \in Nat
           /\ rd_start \in Nat /\ rd_end \in Nat
<1>1. /\ addr \in Nat /\ zlen \in Nat /\ zlen * 4 \in Nat /\ zimage.sz \in Nat
      /\ ramdisk.sz \in Nat /\ PowerOfTwo(PageSize) /\ WORD \in Nat \ {0}
  BY BootAssumption DEF PartsInv, LayoutInv
<1>2. /\ aligned_zsz \in Nat /\ aligned_rdsz \in Nat /\ decompress_buf \in Nat
      /\ aligned_dtbsz \in Nat
  BY <1>1, AlignFacts DEF aligned_zsz, aligned_rdsz, decompress_buf, aligned_dtbsz
<1> QED BY <1>1, <1>2 DEF rd_start, rd_end

LEMMA GetBasePreserves == ASSUME Inv, GetBase PROVE Inv'
<1>1. /\ pc = "base" /\ addr' \in {get_kernel_base_addr, Unset}
      /\ UNCHANGED <<recovery, dev, loaded, zlen, initrd, tree, overlayState, propState, setup, fault>>
      /\ \/ pc' = "exit"
         \/ addr' # Unset /\ pc' = "check"
  BY DEF GetBase, Exit, Goto
<1> USE <1>1 DEF loaded, tree, overlayState, propState
<1>2. CASE pc' = "exit"
  BY <1>2, EndPreserves DEF Inv, TreeInv
<1>3. CASE addr' # Unset /\ pc' = "check"
  <2> DEFINE ram == {i \in DOMAIN setup.iomem : setup.iomem[i].ram}
             start == setup.iomem[Min(ram)].start
  <2>1. ram # {} /\ addr' = ALIGN(start + TEXT_OFFSET, PageSize) % WORD
    BY <1>3 DEF get_kernel_base_addr
  <2>2. ValidMachine(setup)
    BY BootAssumption DEF Inv, PartsInv
  <2>3. ram \in SUBSET Nat
    <3>1. setup.iomem \in Seq({setup.iomem[i] : i \in DOMAIN setup.iomem})
      BY <2>2 DEF ValidMachine, O!IsList
    <3> QED BY <3>1
  <2>4. Min(ram) \in DOMAIN setup.iomem
    <3> HIDE DEF ram
    <3>1. Min(ram) \in ram
      BY <2>1, <2>3, MinOf
    <3> QED BY <3>1 DEF ram
  <2>5. start \in Nat
    BY <2>2, <2>4 DEF ValidMachine
  <2>6. start + TEXT_OFFSET \in Nat /\ PowerOfTwo(PageSize) /\ WORD \in Nat \ {0} /\ WORD % PageSize = 0
    BY <2>5, BootAssumption
  <2>7. addr' \in Nat /\ addr' % PageSize = 0
    <3> HIDE DEF start
    <3> DEFINE a == ALIGN(start + TEXT_OFFSET, PageSize)
    <3>1. a \in Nat /\ a % PageSize = 0 /\ PageSize \in Nat \ {0}
      BY <2>6, AlignFacts, AlignedIsPage
    <3>2. addr' = a % WORD
      BY <2>1
    <3> HIDE DEF a
    <3> QED BY <2>6, <3>1, <3>2, WrappedPage
  <2>8. TreeInv' /\ StoredInv'
    BY <1>3, TreeFrame DEF Inv, TreeInv, StoredInv
  <2> QED BY <1>3, <2>7, <2>8 DEF Inv, PartsInv, LayoutInv, ImageInv
<1> QED BY <1>1, <1>2, <1>3

LEMMA CheckZimagePreserves == ASSUME Inv, CheckZimage PROVE Inv'
<1>1. /\ pc = "check"
      /\ UNCHANGED <<recovery, dev, loaded, addr, initrd, tree, overlayState, propState, setup, fault>>
      /\ \/ pc' \in {"exit", "crash"}
         \/ /\ pc' = "initrd-start" /\ zimage.src # "null"
            /\ zimage.zmagic /\ zimage.zlen <= zimage.sz /\ zlen' = zimage.zlen
  BY DEF CheckZimage, Exit, Crash, Goto
<1> USE <1>1 DEF loaded, tree, overlayState, propState
<1>2. CASE pc' \in {"exit", "crash"}
  BY <1>2, EndPreserves DEF Inv, TreeInv
<1>3. CASE pc' = "initrd-start"
  <2>1. TreeInv' /\ StoredInv'
    BY <1>3, TreeFrame DEF Inv, TreeInv, StoredInv
  <2>2. LayoutInv'
    BY <1>3 DEF Inv, LayoutInv
  <2> QED BY <1>3, <2>1, <2>2 DEF Inv, PartsInv, ImageInv
<1> QED BY <1>1, <1>2, <1>3

LEMMA KexecLoadPreserves == ASSUME Inv, KexecLoad PROVE Inv'
<1>1. /\ pc = "kexec"
      /\ UNCHANGED <<recovery, dev, loaded, layout, tree, overlayState, propState, setup, fault>>
      /\ \/ pc' = "exit"
         \/ pc' = "reboot" /\ \A i \in DOMAIN segs : Loadable(segs[i])
  BY DEF KexecLoad, Exit, Goto
<1> USE <1>1 DEF loaded, layout, tree, overlayState, propState
<1>2. CASE pc' = "exit"
  BY <1>2, EndPreserves DEF Inv, TreeInv
<1>3. CASE pc' = "reboot"
  <2>1. TreeInv' /\ StoredInv'
    BY <1>3, TreeFrame, AddressFrame DEF Inv, TreeInv, StoredInv
  <2>2. LayoutInv'
    <3>1. segs' = segs
      BY DEF segs, aligned_zsz, aligned_rdsz, aligned_dtbsz, decompress_buf, ALIGN
    <3> QED BY <1>3, <3>1 DEF Inv, LayoutInv, Loadable
  <2> QED BY <1>3, <2>1, <2>2 DEF Inv, PartsInv, ImageInv
<1> QED BY <1>1, <1>2, <1>3

LEMMA RebootPreserves == ASSUME Inv, Reboot PROVE Inv'
<1>1. /\ pc = "reboot" /\ pc' \in {"rebooted", "exit"}
      /\ UNCHANGED <<recovery, dev, loaded, layout, tree, overlayState, propState, setup, fault>>
  BY DEF Reboot, Exit, Goto
<1> USE <1>1 DEF loaded, layout, tree, overlayState, propState
<1>2. CASE pc' = "exit"
  BY <1>2, EndPreserves DEF Inv, TreeInv
<1>3. CASE pc' = "rebooted"
  <2>1. TreeInv' /\ StoredInv'
    BY <1>3, TreeFrame, AddressFrame DEF Inv, TreeInv, StoredInv
  <2>2. LayoutInv'
    <3>1. segs' = segs
      BY DEF segs, aligned_zsz, aligned_rdsz, aligned_dtbsz, decompress_buf, ALIGN
    <3> QED BY <1>3, <3>1 DEF Inv, LayoutInv, Loadable
  <2> QED BY <1>3, <2>1, <2>2 DEF Inv, PartsInv, ImageInv
<1> QED BY <1>1, <1>2, <1>3

-----------------------------------------------------------------------------
(* apply_overlays hands over a tree whose sizes agree.                     *)
LEMMA MergedTree ==
    ASSUME PartsInv, blob \in RawBlob, dtbsz \in Nat, D!WellFormed(blob, dtbsz),
           O!More, NEW outcome, O!Apply(outcome)
    PROVE  blob' \in RawBlob /\ dtbsz' \in Nat /\ D!WellFormed(blob', dtbsz') /\ blob'.form = "rw"
<1>1. O!ValidSetup(setup) /\ HEADERSIZE \in Nat
  BY BootAssumption DEF PartsInv, ValidMachine
<1>2. O!cur.file \in Nat
  BY <1>1 DEF O!ValidSetup, O!More, O!cur, O!Missing, O!Apply
<1>3. PICK used \in {blob.used, blob.used + O!cur.file} : blob' = O!Merged(used)
  BY DEF O!Apply
<1>4. /\ blob.total + O!cur.file \in Nat /\ used \in Int /\ used <= blob.total + O!cur.file
  BY <1>2, <1>3 DEF RawBlob, D!WellFormed
<1>5. /\ blob' \in RawBlob /\ blob'.form = "rw" /\ blob'.used = used
      /\ blob'.total = blob.total + O!cur.file /\ blob'.alloc = blob.total + O!cur.file
  BY <1>3, <1>4 DEF O!Merged, RawBlob
<1>6. dtbsz' = blob'.total
  BY DEF O!Apply, O!NewSize
<1> QED BY <1>4, <1>5, <1>6 DEF D!WellFormed

LEMMA ApplyOverlaysPreserves == ASSUME Inv, ApplyOverlays PROVE Inv'
<1>1. /\ pc = "overlays" /\ O!apply_overlays /\ pc' \in {"crash", "hang", "bootargs", "overlays"}
      /\ crashed' => pc' = "crash"
      /\ UNCHANGED <<control, loaded, layout, propState>>
  BY DEF ApplyOverlays
<1> USE <1>1 DEF control, loaded, layout, propState
<1>2. /\ mem = "ok" /\ ret = "none" /\ enomem = FALSE /\ PartsInv
      /\ dtbsz \in Nat /\ blob \in RawBlob /\ D!WellFormed(blob, dtbsz)
      /\ hdr # O!NULL => blob.form # "none"
  BY DEF Inv, TreeInv
<1>3. ASSUME setup' = setup, dtbsz' \in Nat, blob' \in RawBlob, D!WellFormed(blob', dtbsz'),
             hdr' # O!NULL => blob'.form # "none"
      PROVE  Inv'
  <2>1. TreeInv'
    BY <1>2, <1>3 DEF Inv, TreeInv, D!WellFormed, O!NULL
  <2> QED BY <1>3, <2>1 DEF Inv, PartsInv, LayoutInv, StoredInv, ImageInv
<1>4. CASE O!Install
  BY <1>2, <1>3, <1>4 DEF O!Install, D!WellFormed, O!NULL
<1>5. CASE O!More /\ \E outcome \in O!ReadOutcomes : O!Skip(outcome) \/ O!LoadFails(outcome)
  BY <1>2, <1>3, <1>5 DEF O!Skip, O!LoadFails, D!WellFormed
<1>6. CASE O!More /\ \E outcome \in O!ReadOutcomes : O!Apply(outcome)
  <2>1. PICK outcome \in O!ReadOutcomes : O!Apply(outcome)
    BY <1>6
  <2>2. blob' \in RawBlob /\ dtbsz' \in Nat /\ D!WellFormed(blob', dtbsz') /\ blob'.form = "rw"
    BY <1>2, <1>6, <2>1, MergedTree
  <2> QED BY <1>3, <2>1, <2>2 DEF O!Apply
<1>7. CASE O!More /\ \E outcome \in O!ReadOutcomes : O!Hangs(outcome)
  BY <1>2, <1>3, <1>7 DEF O!Hangs, D!WellFormed
<1>8. CASE (\E outcome \in O!ReadOutcomes : O!ApplyFails(outcome)) \/ O!QueryCrashes
  <2>1. crashed' = TRUE /\ UNCHANGED <<setup, dtbsz>>
    BY <1>8 DEF O!ApplyFails, O!QueryCrashes
  <2> QED BY <1>2, <2>1, EndPreserves DEF Inv, TreeInv
<1> QED BY <1>4, <1>5, <1>6, <1>7, <1>8 DEF O!apply_overlays, O!Iterate

-----------------------------------------------------------------------------
(* The call main makes is the one DtbProofs is about.                      *)
LEMMA SameCall ==
    ASSUME NEW p, NEW len, D!setup_dtb_prop(p, len)
    PROVE  DP!setup_dtb_prop(p, len)
BY DEF D!setup_dtb_prop, D!UsedAfterFree, D!Unreadable, D!NodeNoMemory, D!NodeRefused,
   D!PropNoMemory, D!PropRefused, D!PropStored, D!NodeSize, D!NodeBlob, D!NodeThere, D!PropSize,
   D!MustGrow, D!PropBlob, D!Reallocated, D!Accepts, D!AddedBySetprop, D!AddedByNode, D!Grown,
   D!MaybeMoved, D!fdt_node_len, D!fdt_prop_len, D!FDT_TAGALIGN, D!TAGSIZE, D!PROPHEADER,
   D!NODEHEADER, D!Absent,
   DP!setup_dtb_prop, DP!UsedAfterFree, DP!Unreadable, DP!NodeNoMemory, DP!NodeRefused,
   DP!PropNoMemory, DP!PropRefused, DP!PropStored, DP!NodeSize, DP!NodeBlob, DP!NodeThere, DP!PropSize,
   DP!MustGrow, DP!PropBlob, DP!Reallocated, DP!Accepts, DP!AddedBySetprop, DP!AddedByNode, DP!Grown,
   DP!MaybeMoved, DP!fdt_node_len, DP!fdt_prop_len, DP!FDT_TAGALIGN, DP!TAGSIZE, DP!PROPHEADER,
   DP!NODEHEADER, DP!Absent

(* One of main's calls: the tree stays well formed, and if it is still     *)
(* regular afterwards it was before, nothing crashed and the property is   *)
(* in it.                                                                  *)
LEMMA SetPropFacts ==
    ASSUME DP!TypeOK, D!Regular => DP!Sound, hdr # O!NULL,
           NEW p \in Props, NEW len \in Nat, NEW then, SetProp(p, len, then)
    PROVE  /\ DP!TypeOK' /\ pc' \in {"crash", then}
           /\ D!Regular' => /\ D!Regular /\ DP!Sound' /\ ret' = "0" /\ pc' = then
                            /\ blob'.len = [blob.len EXCEPT ![p] = len]
<1>1. /\ DP!setup_dtb_prop(p, len) /\ pc' = IF mem' = "ub" THEN "crash" ELSE then
  BY SameCall DEF SetProp, Crash, Goto
<1>2. DP!TypeOK'
  BY <1>1, DP!CallType, BootAssumption
<1>3. ASSUME D!Regular' PROVE D!Regular
  <2>1. DP!Regular'
    BY <1>3 DEF D!Regular, DP!Regular
  <2>2. DP!Regular
    BY <1>1, <2>1, DP!RegularBefore, BootAssumption
  <2> QED BY <2>2 DEF D!Regular, DP!Regular
<1>4. ASSUME D!Regular'
      PROVE  DP!Sound' /\ ret' = "0" /\ blob'.len = [blob.len EXCEPT ![p] = len]
  <2>1. DP!Regular /\ DP!Regular' /\ DP!Sound
    BY <1>3, <1>4 DEF D!Regular, DP!Regular
  <2> QED BY <1>1, <2>1, DP!CallSound, BootAssumption
<1>5. D!Regular' => pc' = then
  BY <1>1, <1>4 DEF DP!Sound
<1> QED BY <1>1, <1>2, <1>3, <1>4, <1>5

(* The tree that the overlays leave is a tree for setup_dtb_prop.          *)
LEMMA Handover ==
    ASSUME TreeInv, pc = "bootargs", hdr # O!NULL
    PROVE  DP!TypeOK /\ DP!Sound /\ blob \in D!Blob
<1>1. /\ mem = "ok" /\ ret = "none" /\ enomem = FALSE /\ dtbsz \in Nat
      /\ blob \in RawBlob /\ D!WellFormed(blob, dtbsz) /\ blob.form # "none"
  BY DEF TreeInv
<1>2. blob \in DP!Blob /\ blob \in D!Blob
  BY <1>1 DEF RawBlob, DP!Blob, D!Blob, D!Absent, DP!Absent
<1> QED BY <1>1, <1>2 DEF DP!TypeOK, DP!Sound, D!WellFormed, DP!WellFormed

LEMMA NoTreeCrashes ==
    ASSUME NEW p, NEW len, NEW then, SetProp(p, len, then), hdr = O!NULL
    PROVE  pc' = "crash" /\ UNCHANGED <<blob, dtbsz, mem, ret, enomem>>
BY DEF SetProp, Crash, tree, propState

LEMMA SetBootargsPreserves == ASSUME Inv, SetBootargs PROVE Inv'
<1>1. /\ pc = "bootargs"
      /\ UNCHANGED <<recovery, dev, loaded, layout, overlayState, setup>>
  BY DEF SetBootargs
<1>2. PICK len \in Nat : SetProp("bootargs", len, "base")
  BY BootAssumption DEF SetBootargs
<1> USE <1>1 DEF loaded, layout, overlayState
<1>3. CASE hdr = O!NULL
  BY <1>2, <1>3, NoTreeCrashes, EndPreserves DEF Inv, TreeInv
<1>4. CASE hdr # O!NULL
  <2>1. /\ DP!TypeOK' /\ pc' \in {"crash", "base"}
        /\ D!Regular' => /\ DP!Sound' /\ ret' = "0"
                         /\ blob'.len = [blob.len EXCEPT !["bootargs"] = len]
    BY <1>2, <1>4, Handover, SetPropFacts DEF Inv, Props
  <2>2. CASE pc' = "crash"
    BY <2>1, <2>2, EndPreserves DEF Inv, TreeInv, DP!TypeOK
  <2>3. CASE pc' = "base"
    <3>1. blob.len \in [Props -> Nat \cup {D!Absent}]
      BY <1>4, Handover DEF Inv, D!Blob
    <3>2. ASSUME D!Regular' PROVE blob'.len["bootargs"] # D!Absent
      <4>1. blob'.len = [blob.len EXCEPT !["bootargs"] = len] /\ "bootargs" \in Props
        BY <2>1, <3>2 DEF Props
      <4> QED BY <3>1, <4>1 DEF D!Absent
    <3>3. TreeInv' /\ StoredInv'
      BY <1>4, <2>1, <2>3, <3>2 DEF Inv, TreeInv, StoredInv, DP!TypeOK
    <3> QED BY <2>3, <3>3 DEF Inv, PartsInv, LayoutInv, ImageInv
  <2> QED BY <2>1, <2>2, <2>3
<1> QED BY <1>3, <1>4

LEMMA SetInitrdStartPreserves == ASSUME Inv, SetInitrdStart PROVE Inv'
<1>1. /\ pc = "initrd-start" /\ SetProp("initrd-start", 4, "initrd-end")
      /\ UNCHANGED <<recovery, dev, loaded, addr, zlen, overlayState, setup, fault>>
  BY DEF SetInitrdStart
<1> USE <1>1 DEF loaded, overlayState
<1>2. /\ DP!TypeOK /\ hdr # O!NULL /\ initrd \in [start : Int, end : Int]
      /\ D!Regular => DP!Sound /\ blob.len["bootargs"] # D!Absent
  BY DEF Inv, TreeInv, StoredInv
<1>3. /\ DP!TypeOK' /\ pc' \in {"crash", "initrd-end"}
      /\ D!Regular' => /\ D!Regular /\ DP!Sound' /\ ret' = "0"
                       /\ blob'.len = [blob.len EXCEPT !["initrd-start"] = 4]
  BY <1>2, SetPropFacts DEF Props
<1>4. rd_start \in Int /\ rd_start' = rd_start
  <2>1. UNCHANGED <<zimage, ramdisk, addr, zlen>>
    OBVIOUS
  <2>2. pc \in Checked /\ PartsInv /\ LayoutInv /\ dtbsz \in Nat
    BY DEF Inv, TreeInv
  <2>3. rd_start \in Nat
    BY <2>2, LayoutTypes
  <2>4. rd_start' = rd_start
    BY <2>1, AddressFrame
  <2> QED BY <2>3, <2>4
<1>5. initrd' \in [start : Int, end : Int] /\ (ret' = "0" => initrd'.start = rd_start)
  <2> DEFINE v == IF ret' = "0" THEN rd_start ELSE initrd.start
  <2>1. v \in Int /\ (ret' = "0" => v = rd_start)
    BY <1>2, <1>4
  <2>2. initrd' = [initrd EXCEPT !.start = v]
    BY DEF SetInitrdStart
  <2> HIDE DEF v
  <2> QED BY <1>2, <2>1, <2>2
<1>6. CASE pc' = "crash"
  BY <1>3, <1>5, <1>6, EndPreserves DEF DP!TypeOK
<1>7. CASE pc' = "initrd-end"
  <2>1. blob.len \in [Props -> Nat \cup {D!Absent}]
    BY <1>2 DEF DP!TypeOK, DP!Blob, DP!Absent, D!Absent
  <2>2. ASSUME D!Regular' PROVE /\ blob'.len["bootargs"] # D!Absent
                                /\ blob'.len["initrd-start"] # D!Absent
    <3>1. blob'.len = [blob.len EXCEPT !["initrd-start"] = 4] /\ Props = DOMAIN blob.len
      BY <1>3, <2>1, <2>2
    <3>2. blob.len["bootargs"] # D!Absent
      BY <1>2, <1>3, <2>2
    <3>3. "bootargs" \in Props /\ "initrd-start" \in Props
      BY DEF Props
    <3> QED BY <3>1, <3>2, <3>3 DEF D!Absent
  <2>3. TreeInv' /\ StoredInv'
    BY <1>2, <1>3, <1>4, <1>5, <1>7, <2>2 DEF TreeInv, StoredInv, DP!TypeOK
  <2> QED BY <1>7, <2>3 DEF Inv, PartsInv, LayoutInv, ImageInv
<1> QED BY <1>3, <1>6, <1>7

LEMMA SetInitrdEndPreserves == ASSUME Inv, SetInitrdEnd PROVE Inv'
<1>1. /\ pc = "initrd-end" /\ SetProp("initrd-end", 4, "kexec")
      /\ UNCHANGED <<recovery, dev, loaded, addr, zlen, overlayState, setup, fault>>
  BY DEF SetInitrdEnd
<1> USE <1>1 DEF loaded, overlayState
<1>2. /\ DP!TypeOK /\ hdr # O!NULL /\ initrd \in [start : Int, end : Int]
      /\ D!Regular => /\ DP!Sound /\ blob.len["bootargs"] # D!Absent
                      /\ blob.len["initrd-start"] # D!Absent /\ initrd.start = rd_start
  BY DEF Inv, TreeInv, StoredInv
<1>3. /\ DP!TypeOK' /\ pc' \in {"crash", "kexec"}
      /\ D!Regular' => /\ D!Regular /\ DP!Sound' /\ ret' = "0"
                       /\ blob'.len = [blob.len EXCEPT !["initrd-end"] = 4]
  BY <1>2, SetPropFacts DEF Props
<1>4. rd_end \in Int /\ rd_end' = rd_end /\ rd_start' = rd_start
  <2>1. UNCHANGED <<zimage, ramdisk, addr, zlen>>
    OBVIOUS
  <2>2. pc \in Checked /\ PartsInv /\ LayoutInv /\ dtbsz \in Nat
    BY DEF Inv, TreeInv
  <2>3. rd_end \in Nat
    BY <2>2, LayoutTypes
  <2>4. rd_end' = rd_end /\ rd_start' = rd_start
    BY <2>1, AddressFrame
  <2> QED BY <2>3, <2>4
<1>5. /\ initrd' \in [start : Int, end : Int] /\ initrd'.start = initrd.start
      /\ ret' = "0" => initrd'.end = rd_end
  <2> DEFINE v == IF ret' = "0" THEN rd_end ELSE initrd.end
  <2>1. v \in Int /\ (ret' = "0" => v = rd_end)
    BY <1>2, <1>4
  <2>2. initrd' = [initrd EXCEPT !.end = v]
    BY DEF SetInitrdEnd
  <2> HIDE DEF v
  <2> QED BY <1>2, <2>1, <2>2
<1>6. CASE pc' = "crash"
  BY <1>3, <1>5, <1>6, EndPreserves DEF DP!TypeOK
<1>7. CASE pc' = "kexec"
  <2>1. blob.len \in [Props -> Nat \cup {D!Absent}]
    BY <1>2 DEF DP!TypeOK, DP!Blob, DP!Absent, D!Absent
  <2>2. ASSUME D!Regular' PROVE /\ blob'.len["bootargs"] # D!Absent
                                /\ blob'.len["initrd-start"] # D!Absent
                                /\ blob'.len["initrd-end"] # D!Absent
    <3>1. blob'.len = [blob.len EXCEPT !["initrd-end"] = 4] /\ Props = DOMAIN blob.len
      BY <1>3, <2>1, <2>2
    <3>2. blob.len["bootargs"] # D!Absent /\ blob.len["initrd-start"] # D!Absent
      BY <1>2, <1>3, <2>2
    <3>3. {"bootargs", "initrd-start", "initrd-end"} \subseteq Props
      BY DEF Props
    <3> QED BY <3>1, <3>2, <3>3 DEF D!Absent
  <2>3. TreeInv' /\ StoredInv'
    BY <1>2, <1>3, <1>4, <1>5, <1>7, <2>2 DEF TreeInv, StoredInv, DP!TypeOK
  <2> QED BY <1>7, <2>3 DEF Inv, PartsInv, LayoutInv, ImageInv
<1> QED BY <1>3, <1>6, <1>7

-----------------------------------------------------------------------------
(* Every step of main preserves Inv.                                       *)
THEOREM BootInvariant == Spec => []Inv
<1>1. Init => Inv
  <2>1. Init => PartsInv
    BY DEF Init, PartsInv, Nothing
  <2>2. Init => TreeInv
    BY DEF Init, TreeInv, Unset
  <2>3. Init => LayoutInv /\ StoredInv /\ ImageInv
    BY DEF Init, LayoutInv, StoredInv, ImageInv
  <2> QED BY <2>1, <2>2, <2>3 DEF Inv
<1>2. ASSUME Inv, Next PROVE Inv'
  BY <1>2, ReadConfigPreserves, ReadModePreserves, GetDevicePreserves, LoadZimagePreserves,
     LoadRamdiskPreserves, LoadDtbPreserves, ApplyOverlaysPreserves, SetBootargsPreserves,
     GetBasePreserves, CheckZimagePreserves, SetInitrdStartPreserves, SetInitrdEndPreserves,
     KexecLoadPreserves, RebootPreserves DEF Next
<1>3. ASSUME Inv, UNCHANGED bootVars PROVE Inv'
  <2> USE <1>3 DEF bootVars, control, loaded, layout, tree, overlayState, propState
  <2>1. PartsInv'
    BY DEF Inv, PartsInv
  <2>2. LayoutInv'
    <3>1. segs' = segs
      BY DEF segs, aligned_zsz, aligned_rdsz, aligned_dtbsz, decompress_buf, ALIGN
    <3> QED BY <3>1 DEF Inv, LayoutInv, Loadable
  <2>3. TreeInv' /\ StoredInv'
    BY TreeFrame, AddressFrame DEF Inv, TreeInv, StoredInv, D!WellFormed
  <2>4. ImageInv'
    <3>1. Image' = Image
      BY DEF Image
    <3>2. /\ ZimageLoads(Image, "well")' <=> ZimageLoads(Image, "well")
          /\ InitrdLoads(Image, "well")' <=> InitrdLoads(Image, "well")
      BY <3>1 DEF ZimageLoads, InitrdLoads, InitrdOffset, ALIGN, Validated, load_file
    <3> QED BY <3>2 DEF Inv, ImageInv
  <2> QED BY <2>1, <2>2, <2>3, <2>4 DEF Inv
<1> QED BY <1>1, <1>2, <1>3, PTL DEF Spec

-----------------------------------------------------------------------------
(* Whatever apply_overlays merged or skipped, what it returns satisfies    *)
(* the preconditions of setup_dtb_prop.                                    *)
THEOREM TreeAlwaysHandedOver == Spec => []TreeHandedOver
<1>1. Inv => TreeHandedOver
  BY Handover DEF Inv, TreeInv, TreeHandedOver
<1> QED BY <1>1, BootInvariant, PTL

(* For every page size and all lengths: the segments given to kexec_load   *)
(* start on pages, wrapped or not, and those that do not wrap do not       *)
(* overlap and leave room to unpack the kernel.                            *)
THEOREM SegmentsAlwaysSound == Spec => []SegmentsSound
<1>1. Inv => SegmentsSound
  <2> SUFFICES ASSUME Inv, pc \in Placed
               PROVE  /\ \A i \in 1..3 : segs[i].mem % PageSize = 0 /\ segs[i].bufsz <= segs[i].memsz
                      /\ BelowWord => /\ segs[2].mem >= segs[1].mem + segs[1].memsz + 4 * zlen
                                      /\ segs[3].mem >= segs[2].mem + segs[2].memsz
    BY DEF SegmentsSound
  <2> DEFINE start == addr + aligned_zsz + decompress_buf
             end == start + aligned_rdsz
  <2>1. /\ addr \in Nat /\ zlen \in Nat /\ aligned_zsz \in Nat /\ aligned_rdsz \in Nat
        /\ decompress_buf \in Nat /\ aligned_dtbsz \in Nat
    BY LayoutTypes DEF Inv, TreeInv
  <2>2. /\ addr % PageSize = 0 /\ PowerOfTwo(PageSize) /\ zlen * 4 \in Nat
        /\ zimage.sz \in Nat /\ ramdisk.sz \in Nat /\ dtbsz \in Nat
        /\ WORD \in Nat \ {0} /\ WORD % PageSize = 0
    BY <2>1, BootAssumption DEF Inv, PartsInv, LayoutInv, TreeInv
  <2>3. /\ zimage.sz <= aligned_zsz /\ ramdisk.sz <= aligned_rdsz /\ dtbsz <= aligned_dtbsz
        /\ zlen * 4 <= decompress_buf /\ PageSize \in Nat \ {0}
    BY <2>2, AlignFacts DEF aligned_zsz, aligned_rdsz, aligned_dtbsz, decompress_buf
  <2>4. (addr + aligned_zsz) % PageSize = 0
    BY <2>1, <2>2, PageSum DEF aligned_zsz
  <2>5. start \in Nat /\ start % PageSize = 0
    <3>1. addr + aligned_zsz \in Nat
      BY <2>1
    <3> QED BY <2>1, <2>2, <2>4, <3>1, PageSum DEF decompress_buf
  <2>6. end \in Nat /\ end % PageSize = 0
    <3> HIDE DEF start
    <3> QED BY <2>1, <2>2, <2>5, PageSum DEF aligned_rdsz
  <2>7. /\ segs[1].mem = addr /\ segs[2].mem = start % WORD /\ segs[3].mem = end % WORD
        /\ segs[1].memsz = aligned_zsz /\ segs[2].memsz = aligned_rdsz /\ segs[3].memsz = aligned_dtbsz
        /\ segs[1].bufsz = zimage.sz /\ segs[2].bufsz = ramdisk.sz /\ segs[3].bufsz = dtbsz
    BY DEF segs
  <2>8. BelowWord => start % WORD = start /\ end % WORD = end
    <3>1. BelowWord => start < WORD /\ end < WORD
      BY <2>1, <2>2, <2>5 DEF BelowWord
    <3> HIDE DEF start, end
    <3> QED BY <2>2, <2>5, <2>6, <3>1, NoWrapAround
  <2>9. (start % WORD) % PageSize = 0 /\ (end % WORD) % PageSize = 0
    <3> HIDE DEF start, end
    <3> QED BY <2>2, <2>3, <2>5, <2>6, WrappedPage
  <2>10. \A i \in 1..3 : segs[i].mem % PageSize = 0 /\ segs[i].bufsz <= segs[i].memsz
    <3> HIDE DEF start, end
    <3>1. \A i \in 1..3 : i = 1 \/ i = 2 \/ i = 3
      OBVIOUS
    <3> QED BY <2>2, <2>3, <2>7, <2>9, <3>1
  <2>11. ASSUME BelowWord PROVE /\ segs[2].mem >= segs[1].mem + segs[1].memsz + 4 * zlen
                                /\ segs[3].mem >= segs[2].mem + segs[2].memsz
    <3>1. start >= addr + aligned_zsz + 4 * zlen /\ end >= start + aligned_rdsz
      BY <2>1, <2>2, <2>3
    <3> HIDE DEF start, end
    <3> QED BY <2>7, <2>8, <2>11, <3>1
  <2> QED BY <2>10, <2>11
<1> QED BY <1>1, BootInvariant, PTL

(* The started kernel finds the ramdisk where the tree says it is: stored  *)
(* numbers and pointers wrap around alike, and in a layout that kexec_load *)
(* accepts, which lies in RAM, no segment's end does.                      *)
THEOREM InitrdAlwaysFound == Spec => []InitrdFound
<1>1. Inv => InitrdFound
  <2> SUFFICES ASSUME Inv, pc \in Placed, D!Regular
               PROVE  /\ initrd.start = segs[2].mem
                      /\ initrd.end = (segs[2].mem + segs[2].memsz) % WORD
                      /\ pc # "kexec" => initrd.end = initrd.start + segs[2].memsz
    BY DEF InitrdFound
  <2> DEFINE start == addr + aligned_zsz + decompress_buf
             end == start + aligned_rdsz
  <2>1. start \in Nat /\ aligned_rdsz \in Nat /\ end \in Nat /\ WORD \in Nat \ {0}
    BY LayoutTypes, BootAssumption DEF Inv, TreeInv
  <2>2. segs[2].mem = start % WORD /\ segs[2].memsz = aligned_rdsz
    BY DEF segs
  <2>3. rd_start = start % WORD /\ rd_end = end % WORD
    BY DEF rd_start, rd_end
  <2>4. initrd.start = rd_start /\ initrd.end = rd_end
    BY DEF Inv, StoredInv
  <2> HIDE DEF start
  <2>5. (start + aligned_rdsz) % WORD = ((start % WORD) + aligned_rdsz) % WORD
    BY <2>1, SumWraps
  <2>6. initrd.end = (segs[2].mem + segs[2].memsz) % WORD
    BY <2>2, <2>3, <2>4, <2>5
  <2>7. ASSUME pc # "kexec" PROVE initrd.end = initrd.start + segs[2].memsz
    <3>1. Loadable(segs[2])
      <4>1. 2 \in DOMAIN segs
        BY DEF segs
      <4> QED BY <2>7, <4>1 DEF Inv, LayoutInv
    <3>2. PICK i \in DOMAIN setup.iomem : segs[2].mem + segs[2].memsz <= setup.iomem[i].end
      BY <3>1 DEF Loadable
    <3>3. setup.iomem[i].end < WORD /\ setup.iomem[i].end \in Nat
      BY BootAssumption DEF Inv, PartsInv, ValidMachine
    <3>4. segs[2].mem + segs[2].memsz \in Nat
      BY <2>1, <2>2
    <3>5. segs[2].mem + segs[2].memsz < WORD
      BY <2>1, <3>2, <3>3, <3>4
    <3>6. (segs[2].mem + segs[2].memsz) % WORD = segs[2].mem + segs[2].memsz
      BY <2>1, <3>4, <3>5, NoWrapAround
    <3> QED BY <2>2, <2>3, <2>4, <2>6, <3>6
  <2> QED BY <2>2, <2>3, <2>4, <2>6, <2>7
<1> QED BY <1>1, BootInvariant, PTL

(* The third segment is the whole tree with all three properties in it.    *)
THEOREM TreeAlwaysWhole == Spec => []TreeWhole
<1>1. Inv => TreeWhole
  <2> SUFFICES ASSUME Inv, pc \in Placed, D!Regular
               PROVE  /\ segs[3].bufsz = blob.total /\ blob.used <= blob.total
                      /\ \A p \in Props : blob.len[p] # D!Absent
    BY DEF TreeWhole
  <2>1. DP!Sound /\ ret = "0"
    BY DEF Inv, StoredInv
  <2>2. dtbsz = blob.total /\ blob.used <= blob.total
    BY <2>1 DEF DP!Sound, DP!WellFormed
  <2>3. \A p \in Props : blob.len[p] # D!Absent
    BY DEF Inv, StoredInv, Props
  <2> QED BY <2>2, <2>3 DEF segs
<1> QED BY <1>1, BootInvariant, PTL

(* Only a checked zImage is started, with a ramdisk that was really read   *)
(* or with none.                                                           *)
THEOREM OnlyLoadedStarts == Spec => []StartsWhatWasLoaded
<1>1. Inv => StartsWhatWasLoaded
  <2> SUFFICES ASSUME Inv, pc \in Started
               PROVE  /\ zimage.src # "null" /\ zimage.zmagic /\ zlen <= zimage.sz
                      /\ ramdisk.src = "null" => ramdisk.sz = 0
    BY DEF StartsWhatWasLoaded
  <2>1. zimage.src # "null" /\ zimage.zmagic /\ zlen <= zimage.sz
    BY DEF Inv, LayoutInv
  <2>2. Loadable(segs[2]) /\ ramdisk.sz \in Nat
    BY DEF Inv, PartsInv, LayoutInv, segs
  <2>3. ramdisk.sz > 0 => ramdisk.src # "null"
    BY <2>2 DEF Loadable, segs
  <2> QED BY <2>1, <2>2, <2>3
<1> QED BY <1>1, BootInvariant, PTL

(* An image as mkbootimg writes it gives its kernel and its ramdisk, and   *)
(* one that gives its ramdisk also gives its kernel, which lies before it. *)
LEMMA ImageArithmetic ==
    ASSUME NEW img, img # NoFile, ValidImage(img), PlainHeader(img)
    PROVE  /\ WholeImage(img) => ZimageLoads(img, "well") /\ InitrdLoads(img, "well")
           /\ InitrdLoads(img, "well") => ZimageLoads(img, "well")
<1> DEFINE k == img.ksize
           r == img.rsize
           p == img.page
           A == ALIGN(k, p)
<1>1. /\ k \in Nat /\ r \in Nat /\ p \in Nat \ {0} /\ img.size \in Nat
      /\ img.size < MaxAlloc /\ MaxAlloc \in Nat /\ WORD \in Nat /\ BOOTHDR \in Nat
      /\ k + r + 2 * p < WORD /\ PowerOfTwo(p)
  BY BootAssumption DEF ValidImage, PlainHeader
<1>2. A \in Nat /\ k <= A /\ A < k + p /\ A = ((k + p - 1) \div p) * p
  BY <1>1, AlignFacts
<1> HIDE DEF k, r, p, A
<1>3. /\ (k + p) % WORD = k + p /\ (A + p) % WORD = A + p
      /\ (A + p + r) % WORD = A + p + r
  <2>1. k + p \in Nat /\ A + p \in Nat /\ A + p + r \in Nat
    BY <1>1, <1>2
  <2>2. k + p < WORD /\ A + p < WORD /\ A + p + r < WORD
    BY <1>1, <1>2
  <2> QED BY <1>1, <2>1, <2>2, NoWrapAround
<1>4. InitrdOffset(img) = A + p
  BY <1>3 DEF InitrdOffset, A, k, p
<1>5. ZimageLoads(img, "well") <=> img.size >= BOOTHDR /\ img.magic /\ k + p <= img.size /\ k < MaxAlloc
  BY <1>3 DEF ZimageLoads, Validated, load_file, k, p
<1>6. InitrdLoads(img, "well") <=>
        img.size >= BOOTHDR /\ img.magic /\ A + p + r <= img.size /\ r < MaxAlloc
  BY <1>3, <1>4 DEF InitrdLoads, Validated, load_file, r
<1>7. InitrdLoads(img, "well") => ZimageLoads(img, "well")
  BY <1>1, <1>2, <1>5, <1>6
<1>8. ASSUME WholeImage(img) PROVE InitrdLoads(img, "well")
  <2> DEFINE a == (k + p - 1) \div p
             b == (r + p - 1) \div p
  <2>1. img.magic /\ p >= BOOTHDR /\ img.size >= (1 + a + b) * p
    BY <1>8 DEF WholeImage, Pages, k, r, p
  <2>2. a \in Nat /\ b \in Nat /\ A = a * p /\ r <= b * p
    BY <1>1, <1>2
  <2> HIDE DEF a, b
  <2>3. (1 + a + b) * p = p + a * p + b * p
    BY <1>1, <2>2
  <2>4. b * p \in Nat /\ a * p \in Nat
    BY <1>1, <2>2
  <2>5. A + p + r <= img.size /\ img.size >= BOOTHDR
    BY <1>1, <2>1, <2>2, <2>3, <2>4
  <2> QED BY <1>1, <1>2, <1>6, <2>1, <2>5
<1> QED BY <1>7, <1>8

(* For all images: kernel and ramdisk are taken from the image together,   *)
(* although they are read independently.                                   *)
THEOREM ImageAlwaysTakenWhole == Spec => []ImageTakenWhole
<1>1. Inv => ImageTakenWhole
  <2> SUFFICES ASSUME Inv, pc = "dtb", fault = {}, PlainHeader(Image)
               PROVE  /\ WholeImage(Image) => zimage.src = "image" /\ ramdisk.src = "image"
                      /\ ramdisk.src = "image" => zimage.src = "image"
    BY DEF ImageTakenWhole
  <2>1. /\ zimage.src = "image" <=> ZimageLoads(Image, "well")
        /\ ramdisk.src = "image" <=> InitrdLoads(Image, "well")
    BY DEF Inv, ImageInv
  <2>2. CASE Image = NoFile
    BY <2>1, <2>2 DEF WholeImage, InitrdLoads, Validated, load_file
  <2>3. CASE Image # NoFile
    <3>1. ValidImage(Image)
      BY ImageValid DEF Inv, PartsInv
    <3> QED BY <2>1, <2>3, <3>1, ImageArithmetic
  <2> QED BY <2>2, <2>3
<1> QED BY <1>1, BootInvariant, PTL

-----------------------------------------------------------------------------
(* util_has_cmdline, as DtbProofs has it.                                  *)
LEMMA SameAnswer ==
    ASSUME NEW params, NEW reads, NEW key, NEW val
    PROVE  /\ O!util_has_cmdline(reads, key, val) = DP!util_has_cmdline(reads, key, val)
           /\ O!Unambiguous(params, reads, key, val) <=> DP!Unambiguous(params, reads, key, val)
           /\ O!HasParameter(params, key, val) <=> DP!HasParameter(params, key, val)
           /\ O!Spaced(reads) <=> DP!Spaced(reads)
<1>1. \A text : O!Hits(text, key) = DP!Hits(text, key)
  BY DEF O!Hits, DP!Hits, O!Occurs, DP!Occurs
<1>2. \A text, i : O!Compared(text, i, key) = DP!Compared(text, i, key)
  BY DEF O!Compared, DP!Compared, O!OwnValue, DP!OwnValue, O!LaterValue, DP!LaterValue,
         O!Occurs, DP!Occurs
<1> \A S : O!Min(S) = DP!Min(S)
  BY Zenon DEF O!Min, DP!Min
<1> \A v, text : O!Begins(v, text) <=> DP!Begins(v, text)
  BY DEF O!Begins, DP!Begins
<1>3. ASSUME NEW text PROVE O!Search(text, key, val) = DP!Search(text, key, val)
  BY <1>1, <1>2 DEF O!Search, DP!Search
<1>4. O!util_has_cmdline(reads, key, val) = DP!util_has_cmdline(reads, key, val)
  BY <1>3 DEF O!util_has_cmdline, DP!util_has_cmdline
<1>5. O!Seen(reads, key) = DP!Seen(reads, key)
  BY <1>1 DEF O!Seen, DP!Seen
<1>6. O!Unambiguous(params, reads, key, val) <=> DP!Unambiguous(params, reads, key, val)
  BY <1>5 DEF O!Unambiguous, DP!Unambiguous, O!Begins, DP!Begins
<1> QED BY <1>4, <1>6 DEF O!HasParameter, DP!HasParameter, O!Spaced, DP!Spaced

(* A question about a parameter the command line is clear about is         *)
(* answered, and rightly.                                                  *)
LEMMA ClearAnswers ==
    ASSUME setup \in Machines, O!Spaced(setup.reads), NEW key, NEW val,
           O!Unambiguous(setup.params, setup.reads, key, val)
    PROVE  /\ Answer(key, val) \in {"yes", "no"}
           /\ Answer(key, val) = "yes" <=> O!HasParameter(setup.params, key, val)
<1>1. O!ValidSetup(setup)
  BY BootAssumption DEF ValidMachine
<1>2. DP!ArePieces(setup.reads) /\ DP!AreParameters(setup.params)
  BY <1>1 DEF O!ValidSetup, O!ArePieces, DP!ArePieces, O!AreParameters, DP!AreParameters, O!IsList, DP!IsList
<1>3. DP!Unambiguous(setup.params, setup.reads, key, val) /\ DP!Spaced(setup.reads)
  BY SameAnswer
<1> DEFINE answer == DP!util_has_cmdline(setup.reads, key, val)
           has == DP!HasParameter(setup.params, key, val)
<1>4. answer \in {"yes", "no"} /\ (answer = "yes" <=> has)
  BY <1>2, <1>3, DP!HasCmdlineExact, BootAssumption
<1>5. Answer(key, val) = answer /\ (has <=> O!HasParameter(setup.params, key, val))
  BY SameAnswer DEF Answer
<1> QED BY <1>4, <1>5

LEMMA GoodReadConfig ==
    ASSUME GoodSetup, Going, ReadConfig
    PROVE  Going'
<1>1. /\ pc = "config" /\ pc' = "mode" /\ code' = code /\ crashed' = crashed
      /\ UNCHANGED <<dev, loaded, tree, overlayState, setup>>
  BY DEF ReadConfig, Goto, Exit, GoodSetup
<1> QED BY <1>1 DEF Going, RightDevice, overlayState

LEMMA GoodReadMode ==
    ASSUME PartsInv, GoodSetup, Going, ReadMode
    PROVE  Going'
<1>1. pc = "mode" /\ UNCHANGED <<dev, loaded, tree, overlayState, setup>>
  BY DEF ReadMode
<1>2. /\ "crash" \notin Answers("bootmode", "2")
      /\ "crash" \notin Answers("androidboot.mode", "charger")
      /\ "crash" \notin Answers("lpcharge", "1")
  BY ClearAnswers DEF PartsInv, GoodSetup, Answers
<1>3. pc' = "device" /\ code' = code /\ crashed' = crashed
  BY <1>2 DEF ReadMode, Crash, Goto
<1> QED BY <1>1, <1>3 DEF Going, RightDevice, overlayState

(* The bootloader's name is read as it was passed.                         *)
LEMMA NameReadAsPassed ==
    ASSUME setup \in Machines, GoodSetup
    PROVE  get_bootloader(setup.cmdline) = {setup.cmdline.value}
<1> DEFINE c == setup.cmdline
           hits == {k \in 1..c.reads : NameFound(c, k) # {NoName}}
<1>1. /\ c.piece \in 1..c.reads /\ c.value # NoName /\ c.how = "whole" /\ c.stale = NoName
  BY BootAssumption DEF ValidMachine, GoodSetup, Readable
<1>2. NameFound(c, c.piece) = {c.value} /\ \A k \in 1..c.reads : k # c.piece => NameFound(c, k) = {NoName}
  BY <1>1 DEF NameFound
<1>3. hits = {c.piece} /\ c.piece \in Int
  BY <1>1, <1>2
<1>4. Min({c.piece}) = c.piece
  BY <1>3, MinIs
<1> QED BY <1>2, <1>3, <1>4 DEF get_bootloader

LEMMA GoodGetDevice ==
    ASSUME PartsInv, GoodSetup, Going, GetDevice, Unhurt'
    PROVE  Going'
<1> DEFINE v == setup.cmdline.value
           stops == {i \in DOMAIN setup.devices :
                        \/ setup.devices[i].models = Garbage
                        \/ \E j \in DOMAIN setup.devices[i].models : setup.devices[i].models[j] = v}
           has(i) == \E j \in DOMAIN setup.devices[i].models : setup.devices[i].models[j] = v
<1>1. /\ pc = "device" /\ UNCHANGED <<recovery, loaded, tree, overlayState, setup>>
      /\ ValidMachine(setup)
  BY BootAssumption DEF GetDevice, PartsInv
<1>2. stops # {} /\ stops \in SUBSET Nat /\ \A i \in stops : has(i)
  <2>1. setup.devices \in Seq({setup.devices[i] : i \in DOMAIN setup.devices})
    BY <1>1 DEF ValidMachine, O!IsList
  <2>2. DOMAIN setup.devices \subseteq Nat
    BY <2>1
  <2> QED BY <2>2 DEF GoodSetup
<1>3. Min(stops) \in stops
  <2> HIDE DEF stops
  <2> QED BY <1>2, MinOf
<1>4. get_cur_device(setup.devices, v) = Min(stops) /\ v # NoName
  BY <1>2 DEF get_cur_device, GoodSetup
<1>5. Min(stops) \in DOMAIN setup.devices /\ Min(stops) # 0 /\ has(Min(stops))
  <2>1. setup.devices \in Seq({setup.devices[i] : i \in DOMAIN setup.devices})
    BY <1>1 DEF ValidMachine, O!IsList
  <2>2. 0 \notin DOMAIN setup.devices
    BY <2>1
  <2>3. Min(stops) \in DOMAIN setup.devices
    BY <1>3
  <2> HIDE DEF stops
  <2> QED BY <1>2, <1>3, <2>2, <2>3
<1> DEFINE d == Min(stops)
<1> HIDE DEF stops
<1>6. setup.devices[d].models # Garbage /\ "name" \in setup.devices[d].keys
  BY <1>5 DEF GoodSetup
<1>7. "io" \notin fault'
  BY DEF Unhurt
<1>8. dev' = d /\ pc' = "zimage" /\ code' = code /\ crashed' = crashed
  <2>1. get_bootloader(setup.cmdline) = {v}
    BY NameReadAsPassed DEF PartsInv
  <2> QED BY <1>4, <1>5, <1>6, <1>7, <2>1 DEF GetDevice, Exit, Crash, Goto
<1> QED BY <1>1, <1>5, <1>8 DEF Going, RightDevice, overlayState

(* Without a failed access the kernel is there: the image's or the file's. *)
LEMMA GoodLoadZimage ==
    ASSUME GoodSetup, Going, LoadZimage, Unhurt'
    PROVE  Going'
<1>1. /\ pc = "zimage" /\ pc' = "ramdisk" /\ code' = code /\ crashed' = crashed
      /\ UNCHANGED <<dev, tree, overlayState, setup>>
  BY DEF LoadZimage, Goto
<1>2. PICK o1 \in Outcomes, o2 \in Outcomes, junk \in Junk :
        /\ zimage' = load_zimage(Image, setup.zImage, o1, o2, junk)
        /\ fault' = fault \cup Failures({o1, o2})
  BY DEF LoadZimage
<1>3. o2 = "well"
  BY <1>2, NoFailure DEF Failures, Unhurt
<1>4. zimage'.src # "null"
  BY <1>2, <1>3 DEF load_zimage, load_file, GoodSetup
<1> QED BY <1>1, <1>4 DEF Going, RightDevice, overlayState

LEMMA GoodLoadRamdisk ==
    ASSUME Going, LoadRamdisk
    PROVE  Going'
<1>1. /\ pc = "ramdisk" /\ pc' = "dtb" /\ code' = code /\ crashed' = crashed
      /\ UNCHANGED <<dev, zimage, tree, overlayState, setup>>
  BY DEF LoadRamdisk, Goto
<1> QED BY <1>1 DEF Going, RightDevice, overlayState

(* The first tree that is there is sound, and no open fails before it.     *)
LEMMA GoodLoadDtb ==
    ASSUME PartsInv, GoodSetup, Going, LoadDtb, Unhurt'
    PROVE  Going'
<1> DEFINE dtbs == setup.devices[dev].dtbs
           there == {i \in DOMAIN dtbs : dtbs[i] # NoFile}
<1>1. /\ pc = "dtb" /\ UNCHANGED <<dev, loaded, n, hdr, applied, hung, setup>>
      /\ ValidMachine(setup) /\ dev \in DOMAIN setup.devices
  BY BootAssumption DEF LoadDtb, PartsInv
<1>2. FirstSound(dtbs) /\ "dtbs" \in setup.devices[dev].keys
  BY <1>1 DEF GoodSetup
<1>3. PICK i \in DOMAIN dtbs : Sound(dtbs[i]) /\ \A j \in 1..(i - 1) : dtbs[j] = NoFile
  BY <1>2 DEF FirstSound
<1>4. DOMAIN dtbs = 1..Len(dtbs) /\ Len(dtbs) \in Nat
  <2>1. dtbs \in Seq({dtbs[j] : j \in DOMAIN dtbs})
    BY <1>1 DEF ValidMachine, O!IsList
  <2> HIDE DEF dtbs
  <2> QED BY <2>1
<1>5. i \in there /\ there \in SUBSET Int /\ \A j \in there : i <= j
  <2> HIDE DEF dtbs
  <2> QED BY <1>3, <1>4 DEF Sound
<1>6. Min(there) = i
  <2> HIDE DEF there
  <2> QED BY <1>5, MinIs
<1>7. "io" \notin fault'
  BY DEF Unhurt
<1>8. /\ blob' = dtbs[i].blob /\ dtbsz' = dtbs[i].size
      /\ pc' = "overlays" /\ code' = code /\ crashed' = crashed
  BY <1>2, <1>5, <1>6, <1>7 DEF LoadDtb, Goto, Exit, Crash
<1>9. dtbsz' = blob'.total /\ dtbsz' >= HEADERSIZE /\ blob'.form = "rw"
  BY <1>3, <1>8 DEF Sound
<1> QED BY <1>1, <1>8, <1>9 DEF Going, RightDevice, loaded

(* Every overlay is applied or left out; merging fails only by itself.     *)
LEMMA GoodApplyOverlays ==
    ASSUME PartsInv, TreeInv, GoodSetup, Going, ApplyOverlays, Unhurt'
    PROVE  Going'
<1>1. /\ pc = "overlays" /\ O!apply_overlays /\ UNCHANGED <<control, loaded>>
      /\ pc' = IF crashed' THEN "crash" ELSE IF hung' THEN "hang"
                ELSE IF O!Finished' THEN "bootargs" ELSE pc
      /\ n \in Nat /\ dtbsz = blob.total /\ blob.form = "rw" /\ blob \in RawBlob
      /\ ~crashed /\ ~hung
      /\ n = 0 => dtbsz >= HEADERSIZE
      /\ n # 0 => hdr # O!NULL
  BY DEF ApplyOverlays, Going, TreeInv
<1>2. ASSUME setup' = setup, ~crashed', ~hung', n' = n + 1, hdr' # O!NULL,
             dtbsz' = blob'.total, blob'.form = "rw"
      PROVE  Going'
  <2>1. pc' \in {"overlays", "bootargs"} /\ n' \in Nat /\ n' # 0
    BY <1>1, <1>2
  <2> QED BY <1>1, <1>2, <2>1 DEF Going, RightDevice, control, loaded
<1>3. CASE O!Install
  <2>1. hdr' = 0 /\ n = 0 /\ n' = 1 /\ UNCHANGED <<setup, blob, dtbsz, crashed, hung>>
    BY <1>1, <1>3 DEF O!Install
  <2>2. hdr' # O!NULL /\ n' = n + 1
    BY <2>1 DEF O!NULL
  <2> QED BY <1>1, <1>2, <2>1, <2>2
<1>4. ASSUME O!More
      PROVE  /\ n \in DOMAIN setup.overlays /\ n # 0 /\ O!cur.fits = "yes"
             /\ O!cur.file \notin 0..(HEADERSIZE - 1) /\ O!cur.mode = "fixed"
             /\ O!cur.file \in Nat \cup {O!Missing}
             /\ O!cur.file # O!Missing => O!Mergeable
  <2>1. n \in DOMAIN setup.overlays /\ O!ValidSetup(setup) /\ HEADERSIZE \in Nat
    BY <1>4, BootAssumption DEF O!More, PartsInv, ValidMachine
  <2>2. n # 0
    <3>1. setup.overlays \in Seq({setup.overlays[j] : j \in DOMAIN setup.overlays})
      BY <2>1 DEF O!ValidSetup, O!IsList
    <3> QED BY <2>1, <3>1
  <2>3. /\ O!cur.fits = "yes" /\ O!cur.file \notin 0..(HEADERSIZE - 1)
        /\ O!cur.mode = "fixed" /\ O!cur.file \in Nat \cup {O!Missing}
    BY <2>1 DEF GoodSetup, O!ValidSetup, O!cur
  <2>4. O!cur.file # O!Missing => O!cur.file >= HEADERSIZE
    BY <2>1, <2>3
  <2> QED BY <1>1, <2>1, <2>2, <2>3, <2>4 DEF O!Mergeable
<1>5. CASE O!More /\ \E outcome \in O!ReadOutcomes : O!Skip(outcome) \/ O!LoadFails(outcome)
  BY <1>1, <1>2, <1>4, <1>5 DEF O!Skip, O!LoadFails
<1>6. CASE O!More /\ \E outcome \in O!ReadOutcomes : O!Apply(outcome)
  <2>1. PICK outcome \in O!ReadOutcomes : O!Apply(outcome)
    BY <1>6
  <2>2. hdr' = n /\ n' = n + 1 /\ UNCHANGED <<setup, crashed, hung>> /\ dtbsz' = blob'.total
    BY <2>1 DEF O!Apply, O!NextNode, O!NewSize
  <2>3. blob'.form = "rw"
    BY <1>1, <2>1 DEF O!Apply, O!Merged, RawBlob
  <2>4. hdr' # O!NULL
    BY <1>1, <2>2 DEF O!NULL
  <2> QED BY <1>1, <1>2, <2>2, <2>3, <2>4
<1>7. CASE O!More /\ \E outcome \in O!ReadOutcomes : O!ApplyFails(outcome)
  <2>1. "merge" \in fault'
    BY <1>4, <1>7 DEF O!ApplyFails
  <2> QED BY <2>1 DEF Unhurt
<1>8. CASE O!More /\ O!QueryCrashes
  BY <1>4, <1>8 DEF O!QueryCrashes, O!Verdict, O!ModeSaysApply
<1>9. CASE O!More /\ \E outcome \in O!ReadOutcomes : O!Hangs(outcome)
  BY <1>1, <1>4, <1>9 DEF O!Hangs
<1> QED BY <1>1, <1>3, <1>5, <1>6, <1>7, <1>8, <1>9 DEF O!apply_overlays, O!Iterate

(* A call of setup_dtb_prop on an editable tree goes well if it has memory.*)
LEMMA GoodSetProp ==
    ASSUME DP!TypeOK, D!Regular => DP!Sound, hdr # O!NULL, blob.form = "rw",
           NEW p \in Props, NEW len \in Nat, NEW then, SetProp(p, len, then), ~enomem'
    PROVE  pc' = then /\ code' = code /\ blob'.form = "rw" /\ (then # "crash" => crashed' = crashed)
<1>1. DP!setup_dtb_prop(p, len)
  BY SameCall DEF SetProp
<1>2. blob'.form = "rw"
  BY <1>1, DP!FormKept, BootAssumption
<1>3. pc' = then
  BY <1>2, SetPropFacts DEF D!Regular
<1> QED BY <1>2, <1>3 DEF SetProp, Crash, Goto

LEMMA GoodSetBootargs ==
    ASSUME Inv, Going, SetBootargs, Unhurt'
    PROVE  Going'
<1>1. /\ pc = "bootargs" /\ hdr # O!NULL /\ blob.form = "rw" /\ ~enomem'
      /\ UNCHANGED <<dev, loaded, overlayState, setup>>
  BY DEF SetBootargs, Going, Unhurt
<1>2. PICK len \in Nat : SetProp("bootargs", len, "base")
  BY BootAssumption DEF SetBootargs
<1>3. DP!TypeOK /\ DP!Sound
  BY <1>1, Handover DEF Inv
<1>4. pc' = "base" /\ code' = code /\ blob'.form = "rw" /\ crashed' = crashed
  BY <1>1, <1>2, <1>3, GoodSetProp DEF Props
<1> QED BY <1>1, <1>4 DEF Going, RightDevice, loaded, overlayState

LEMMA GoodSetInitrd ==
    ASSUME Inv, Going, SetInitrdStart \/ SetInitrdEnd, Unhurt'
    PROVE  Going'
<1>1. /\ pc \in {"initrd-start", "initrd-end"} /\ blob.form = "rw" /\ ~enomem'
      /\ UNCHANGED <<dev, loaded, overlayState, setup>>
      /\ \/ pc = "initrd-start" /\ SetProp("initrd-start", 4, "initrd-end")
         \/ pc = "initrd-end" /\ SetProp("initrd-end", 4, "kexec")
  BY DEF SetInitrdStart, SetInitrdEnd, Going, Unhurt
<1>2. DP!TypeOK /\ hdr # O!NULL /\ (D!Regular => DP!Sound)
  BY <1>1 DEF Inv, TreeInv, StoredInv
<1>3. pc' \in {"initrd-end", "kexec"} /\ code' = code /\ blob'.form = "rw" /\ crashed' = crashed
  BY <1>1, <1>2, GoodSetProp DEF Props
<1> QED BY <1>1, <1>3 DEF Going, RightDevice, loaded, overlayState

(* Later steps only give up with 4 or 5: the kernel is there to be checked.*)
LEMMA GoodFinish ==
    ASSUME Going, GetBase \/ CheckZimage \/ KexecLoad \/ Reboot
    PROVE  Going'
<1>1. /\ pc \in {"base", "check", "kexec", "reboot"} /\ pc' \in {"exit"} \cup Based
      /\ code' \in {code, 4, 5} /\ crashed' = crashed
      /\ UNCHANGED <<dev, loaded, tree, overlayState, setup>>
  <2>1. zimage.src # "null" \/ pc # "check"
    BY DEF Going
  <2> QED BY <2>1 DEF GetBase, CheckZimage, KexecLoad, Reboot, Exit, Goto, Crash
<1> QED BY <1>1 DEF Going, RightDevice, loaded, tree, overlayState

(* No later step changes the mode.                                        *)
LEMMA GoodMode ==
    ASSUME PartsInv, GoodSetup, RightMode, Next, fault \subseteq fault', setup' = setup
    PROVE  RightMode'
<1> SUFFICES ASSUME pc' \notin {"config", "mode"}, "mode" \notin fault'
             PROVE  recovery' <=> O!HasParameter(setup.params, "bootmode", "2")
  <2>1. O!HasParameter(setup.params, "bootmode", "2")' <=> O!HasParameter(setup.params, "bootmode", "2")
    BY Zenon
  <2> QED BY <2>1 DEF RightMode
<1>1. CASE ReadConfig
  BY <1>1 DEF ReadConfig, Goto, GoodSetup
<1>2. CASE ReadMode
  <2> DEFINE answer == Answer("bootmode", "2")
  <2>1. recovery' = (answer = "yes")
    BY <1>2 DEF ReadMode
  <2>2. answer = "yes" <=> O!HasParameter(setup.params, "bootmode", "2")
    BY ClearAnswers DEF PartsInv, GoodSetup
  <2> HIDE DEF answer
  <2> QED BY <2>1, <2>2
<1>3. CASE ~ReadConfig /\ ~ReadMode
  <2>1. recovery' = recovery /\ pc \notin {"config", "mode"}
    BY <1>3 DEF Next, GetDevice, LoadZimage, LoadRamdisk, LoadDtb, ApplyOverlays, control,
       SetBootargs, GetBase, CheckZimage, SetInitrdStart, SetInitrdEnd, KexecLoad, Reboot
  <2> QED BY <2>1 DEF RightMode
<1> QED BY <1>1, <1>2, <1>3

LEMMA SetupFrame == ASSUME setup' = setup PROVE GoodSetup' <=> GoodSetup
<1>1. \A key, val : O!Unambiguous(setup.params, setup.reads, key, val)'
                        <=> O!Unambiguous(setup.params, setup.reads, key, val)
  BY Zenon DEF O!Unambiguous
<1>2. O!Spaced(setup.reads)' <=> O!Spaced(setup.reads)
  BY Zenon DEF O!Spaced
<1> QED BY <1>1, <1>2, Zenon DEF GoodSetup

(* Failures are not forgotten, and the machine stays as it is.             *)
LEMMA HistoryKept ==
    ASSUME Inv, Next, GoodSetup', Unhurt'
    PROVE  GoodSetup /\ Unhurt /\ setup' = setup /\ fault \subseteq fault'
<1>1. setup' = setup
  BY DEF Next, ReadConfig, ReadMode, GetDevice, LoadZimage, LoadRamdisk, LoadDtb, ApplyOverlays,
     O!apply_overlays, O!Install, O!Iterate, O!Skip, O!LoadFails, O!Apply, O!ApplyFails, O!Hangs, O!QueryCrashes,
     SetBootargs, GetBase, CheckZimage, SetInitrdStart, SetInitrdEnd, KexecLoad, Reboot
<1>2. fault \subseteq fault'
  BY DEF Next, ReadConfig, ReadMode, GetDevice, LoadZimage, LoadRamdisk, LoadDtb, ApplyOverlays,
     O!apply_overlays, O!Install, O!Iterate, O!Skip, O!LoadFails, O!Apply, O!ApplyFails, O!Hangs, O!QueryCrashes,
     O!Faults, SetBootargs, GetBase, CheckZimage, SetInitrdStart, SetInitrdEnd, KexecLoad, Reboot
<1>3. enomem => enomem'
  <2>1. ASSUME DP!TypeOK, NEW p \in Props, NEW len \in Nat, NEW then, SetProp(p, len, then), hdr # O!NULL
        PROVE  enomem => enomem'
    BY <2>1, SameCall, DP!FormKept, BootAssumption DEF SetProp
  <2>2. CASE SetBootargs
    <3>1. PICK len \in Nat : SetProp("bootargs", len, "base")
      BY <2>2, BootAssumption DEF SetBootargs
    <3>2. pc = "bootargs"
      BY <2>2 DEF SetBootargs
    <3> QED BY <2>1, <3>1, <3>2, NoTreeCrashes, Handover DEF Inv, Props
  <2>3. CASE SetInitrdStart \/ SetInitrdEnd
    <3>1. /\ pc \in {"initrd-start", "initrd-end"}
          /\ SetProp("initrd-start", 4, "initrd-end") \/ SetProp("initrd-end", 4, "kexec")
      BY <2>3 DEF SetInitrdStart, SetInitrdEnd
    <3>2. DP!TypeOK /\ hdr # O!NULL
      BY <3>1 DEF Inv, TreeInv
    <3> QED BY <2>1, <3>1, <3>2 DEF Props
  <2>4. CASE ~SetBootargs /\ ~SetInitrdStart /\ ~SetInitrdEnd
    BY <2>4 DEF Next, ReadConfig, ReadMode, GetDevice, LoadZimage, LoadRamdisk, LoadDtb,
       ApplyOverlays, GetBase, CheckZimage, KexecLoad, Reboot, propState
  <2> QED BY <2>2, <2>3, <2>4
<1>4. GoodSetup
  BY <1>1, SetupFrame
<1> QED BY <1>1, <1>2, <1>3, <1>4 DEF Unhurt

(* For all machines: a good one, whose command line is clear in the pieces *)
(* it is read in, is never left without a kernel to start but by a failure *)
(* that main cannot help, and is in the mode that was asked for.           *)
THEOREM GoodMachineAlwaysBoots == Spec => []GoodMachineBoots
<1>1. Init => GoodInv
  BY DEF Init, GoodInv, Going, RightDevice, RightMode
<1>2. ASSUME Inv, GoodInv, Next PROVE GoodInv'
  <2> SUFFICES ASSUME GoodSetup', Unhurt' PROVE Going' /\ RightMode'
    BY DEF GoodInv
  <2>1. /\ GoodSetup /\ Unhurt /\ setup' = setup /\ fault \subseteq fault'
        /\ Going /\ RightMode /\ PartsInv /\ TreeInv
    BY <1>2, HistoryKept DEF GoodInv, Inv
  <2>2. RightMode'
    BY <1>2, <2>1, GoodMode
  <2>3. Going'
    BY <1>2, <2>1, GoodReadConfig, GoodReadMode, GoodGetDevice, GoodLoadZimage, GoodLoadRamdisk,
       GoodLoadDtb, GoodApplyOverlays, GoodSetBootargs, GoodSetInitrd, GoodFinish DEF Next
  <2> QED BY <2>2, <2>3
<1>3. ASSUME GoodInv, UNCHANGED bootVars PROVE GoodInv'
  <2>1. UNCHANGED <<pc, code, recovery, dev, zimage, blob, dtbsz, n, hdr, enomem, setup, crashed, hung, fault>>
    BY <1>3 DEF bootVars, control, loaded, tree, overlayState, propState
  <2>2. O!HasParameter(setup.params, "bootmode", "2")' <=> O!HasParameter(setup.params, "bootmode", "2")
    BY <2>1, Zenon
  <2> QED BY <1>3, <2>1, <2>2, SetupFrame DEF GoodInv, Unhurt, Going, RightDevice, RightMode, O!NULL
<1>4. GoodInv => GoodMachineBoots
  BY DEF GoodInv, GoodMachineBoots, GoodMachine, Unhurt, Going, RightDevice, RightMode
<1> QED BY <1>1, <1>2, <1>3, <1>4, BootInvariant, PTL DEF Spec
=============================================================================
