------------------------------- MODULE MCBoot -------------------------------
(* main on machines that differ from a good one in one or two respects:    *)
(* image, mode, files, trees, overlays, memory.  Pages have 16 bytes.      *)
EXTENDS Boot, TLC

(* Both forms of ALIGN are the mask.                                       *)
ASSUME AlignIsMask ==
    \A x \in 0..70, k \in 0..5 : ALIGN(x, 2^k) = Cleared[x + 2^k - 1, 2^k - 1]

MCNames == {"N7100", "I9300", "G9000"}

Param(k, v) == [key |-> k, val |-> v]
MCOccursIn == {<<"lpcharge", "no-lpcharge">>}
MCBehind == << >>
MCPrefixOf == {<<"2", "20">>}
MCCmdlineLen == ("image" :> 9) @@ ("config" :> 6)
MCNameLen == [p \in Props |-> IF p = "bootargs" THEN 8 ELSE 16]

Dtb(slack, form, chosen) ==
    [size |-> 48 + slack,
     blob |-> [alloc |-> 48 + slack, total |-> 48, used |-> 44, chosen |-> chosen,
               len |-> [p \in Props |-> IF chosen /\ p = "bootargs" THEN 3 ELSE D!Absent],
               names |-> IF chosen THEN {"bootargs"} ELSE {}, form |-> form]]

Img(size, ksize, rsize) ==
    [size |-> size, magic |-> TRUE, page |-> 16, ksize |-> ksize, rsize |-> rsize,
     zmagic |-> TRUE, zlen |-> 20]

(* header 16, kernel 20 in two pages, ramdisk 10 in one: 64 bytes          *)
Images == { NoFile, Img(64, 20, 10), Img(60, 20, 30), Img(30, 20, 10), Img(4, 20, 10),
            Img(64, WORD - 8, 10), [Img(64, 20, 10) EXCEPT !.magic = FALSE],
            [Img(64, 20, 10) EXCEPT !.zmagic = FALSE], [Img(64, 20, 10) EXCEPT !.page = 12] }

Kernel == [size |-> 20, zmagic |-> TRUE, zlen |-> 18]
Missing == -1     \* of Overlays
Overlay(len, fits) ==
    [forDevice |-> TRUE, mode |-> "fixed", bank |-> TRUE, level |-> 0, value |-> 0,
     key |-> "", val |-> "", file |-> len, fits |-> fits]
Bank(s, e, r) == [start |-> s, end |-> e, ram |-> r]

Line(reads, value, how, stale) ==
    [reads |-> reads, value |-> value, piece |-> reads, how |-> how, stale |-> stale]
Configured(models, dtbs) == [models |-> models, keys |-> {"name", "dtbs"}, dtbs |-> dtbs]

(* A command line read in one piece, and ones read in two: with whole      *)
(* parameters, and with bootmode=2 cut in its key, behind it and behind    *)
(* the "=".  Old bytes may be behind.                                      *)
console == Param("console", "tty")
quiet == Param("quiet", NoValue)
bootmode(v) == Param("bootmode", v)
Asked(params, reads, m) ==
    [m EXCEPT !.params = params, !.reads = reads, !.cmdline = Line(Len(reads), @.value, @.how, @.stale)]
Recovery == <<console, quiet, bootmode("2")>>
InPieces ==
    { << <<console, quiet>>, <<bootmode("2"), quiet>> >>,
      << <<console, bootmode("2")>>, <<quiet, quiet>> >>,
      << <<console, quiet, Param("boot", NoValue)>>, <<Param("mode", "2"), quiet>> >>,
      << <<console, quiet, bootmode(NoValue)>>, <<Param("", "2"), quiet>> >>,
      << <<console, quiet, bootmode("")>>, <<Param("2", NoValue), quiet>> >>,
      << <<console, quiet>>, <<bootmode("2")>> >> }

(* The device of most machines comes second.                               *)
Listed(dtbs) == <<Configured(<<"I9300">>, <<Dtb(0, "rw", TRUE)>>), Configured(<<"N7105", "N7100">>, dtbs)>>

Good ==
    [started |-> TRUE, config |-> TRUE, cmdline |-> Line(1, "N7100", "whole", NoName),
     devices |-> Listed(<<Dtb(0, "rw", FALSE)>>), overlays |-> << >>,
     params |-> <<console, bootmode("0")>>, reads |-> << <<console, bootmode("0")>> >>,
     bootImg |-> NoFile, recoveryImg |-> NoFile,
     zImage |-> Kernel, initramfs |-> [size |-> 10],
     iomem |-> <<Bank(0, 8, FALSE), Bank(64, 1024, TRUE)>>]


MCMachines ==
    {[Asked(p, << p >>, Good) EXCEPT !.bootImg = i, !.recoveryImg = r, !.zImage = z] :
        i \in Images, r \in {NoFile, Img(64, 20, 10)}, p \in {Good.params, Recovery},
        z \in {Kernel, NoFile}}
    \cup {[Asked(Recovery, r, Good) EXCEPT !.recoveryImg = Img(64, 20, 10)] : r \in InPieces}
    \cup {[Good EXCEPT !.devices = Listed(d), !.overlays = o] :
        d \in { << >>, <<NoFile, Dtb(0, "rw", TRUE)>>, <<Dtb(4, "rw", TRUE)>>,
                <<Dtb(0, "ro", FALSE), Dtb(0, "rw", FALSE)>>, <<Dtb(0, "none", FALSE)>>,
                <<Dtb(0, "bad", FALSE)>> },
        o \in {<< >>, <<Overlay(40, "yes"), Overlay(56, "yes")>>, <<Overlay(40, "no")>>, <<Overlay(40, "odd")>>, <<Overlay(40, "broken")>>,
                <<Overlay(Missing, "yes"), Overlay(40, "yes")>>}}
    \cup {[Asked(<<console, quiet, bootmode("0")>>, << <<console, quiet>>, <<bootmode("0"), quiet>> >>, Good)
            EXCEPT !.cmdline = Line(2, v, h, s)] :
        v \in MCNames \cup {NoName}, h \in {"whole", "key", "value"}, s \in {NoName, "I9300"}}
    \cup {[Good EXCEPT !.started = FALSE], [Good EXCEPT !.config = FALSE],
          [Good EXCEPT !.devices = << >>], [Good EXCEPT !.devices = Tail(@)],
          [Good EXCEPT !.devices[1].models = Garbage], [Good EXCEPT !.devices[1].keys = {}],
          [Good EXCEPT !.devices[2].keys = {"dtbs"}],
          [Good EXCEPT !.devices[2].keys = {"name"}, !.devices[2].dtbs = << >>],
          [Good EXCEPT !.initramfs = NoFile],
          [Good EXCEPT !.zImage.zlen = 21], [Good EXCEPT !.zImage.size = 2],
          Asked(<<bootmode(NoValue), quiet>>, << <<bootmode(NoValue), quiet>> >>, Good),
          Asked(Good.params, << Append(Good.params, Param("lpcharge", NoValue)) >>, Good),
          Asked(<<Param("no-lpcharge", "1"), quiet>>, << <<Param("no-lpcharge", "1"), quiet>> >>, Good),
          [Good EXCEPT !.iomem = <<Bank(0, 8, FALSE)>>],
          [Good EXCEPT !.iomem = <<Bank(64, 200, TRUE), Bank(256, 1024, TRUE)>>],
          [Good EXCEPT !.iomem = <<Bank(WORD - 160, WORD - 1, TRUE)>>]}
=============================================================================
