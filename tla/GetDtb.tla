------------------------------- MODULE GetDtb -------------------------------
(***************************************************************************)
(* getdtb.c: prints the name of the device tree for the device it runs on. *)
(* It has the reading loop of get_bootloader, a table of devices of its    *)
(* own, and takes the first tree of the device that can be opened.         *)
(***************************************************************************)
EXTENDS Device, Tool

CONSTANT Situations  \* [cmdline, argc, files: trees that are there]

VARIABLES
    setup,
    round,        \* pieces read, then entries of the table or trees tried
    bl_name, device, dtb,
    failed    \* a call failed

getdtbVars == <<setup, pc, round, bl_name, device, dtb, failed, code>>

(* The value of the name's parameter ends in a piece that is read.         *)
ASSUME GetDtbAssumption ==
    \A s \in Situations :
        /\ s.argc \in Int
        /\ s.cmdline.reads \in Nat
        /\ s.cmdline.value # NoName => s.cmdline.piece \in 1..s.cmdline.reads
        /\ s.cmdline.how \in {"whole", "key", "value"}

devices ==
    << [bl_name |-> "I9300", dtbs |-> <<"m0", "galaxy-s3-common">>],
       [bl_name |-> "I9305", dtbs |-> <<"m3", "galaxy-s3-common">>],
       [bl_name |-> "N7100", dtbs |-> <<"t0-3g", "t0">>],
       [bl_name |-> "N7105", dtbs |-> <<"t0-lte", "t0">>] >>

Nobody == [bl_name |-> "", dtbs |-> << >>]
NoTree == ""

GiveUp == Exits(1) /\ UNCHANGED <<setup, round, bl_name, device, dtb>>

Usage == pc = "start" /\ setup.argc < 2 /\ GiveUp /\ UNCHANGED failed

(* open and read of /proc/cmdline may fail.                                *)
OpenCmdline ==
    /\ pc = "start" /\ setup.argc >= 2
    /\ \/ pc' = "read" /\ UNCHANGED <<setup, round, bl_name, device, dtb, failed, code>>
       \/ GiveUp /\ failed' = TRUE

ReadPiece ==
    /\ pc = "read"
    /\ \/ /\ round < setup.cmdline.reads
          /\ \E name \in NameFound(setup.cmdline, round + 1) :
                IF name = NoName THEN round' = round + 1 /\ UNCHANGED <<pc, bl_name>>
                ELSE round' = 0 /\ pc' = "match" /\ bl_name' = name
          /\ UNCHANGED <<setup, device, dtb, failed, code>>
       \/ round = setup.cmdline.reads /\ GiveUp /\ UNCHANGED failed
       \/ GiveUp /\ failed' = TRUE

(* Mutant: a device that does not match is not forgotten.                  *)
MatchKeepsDevice ==
    /\ pc = "match"
    /\ device' = devices[round + 1]
    /\ IF device'.bl_name = bl_name \/ round + 1 = Len(devices) THEN pc' = "matched" /\ round' = 0
       ELSE round' = round + 1 /\ UNCHANGED pc
    /\ UNCHANGED <<setup, bl_name, dtb, failed, code>>

(* One round of the loop over the table.                                   *)
MatchDevice ==
    /\ pc = "match"
    /\ device' = IF devices[round + 1].bl_name = bl_name THEN devices[round + 1] ELSE Nobody
    /\ IF device' # Nobody \/ round + 1 = Len(devices) THEN pc' = "matched" /\ round' = 0
       ELSE round' = round + 1 /\ UNCHANGED pc
    /\ UNCHANGED <<setup, bl_name, dtb, failed, code>>

NoDevice == pc = "matched" /\ device = Nobody /\ GiveUp /\ UNCHANGED failed

(* One round of the loop over the device's trees.                          *)
TryDtb ==
    /\ pc = "matched" /\ device # Nobody
    /\ \/ /\ round < Len(device.dtbs) /\ device.dtbs[round + 1] \in setup.files
          /\ pc' = "done" /\ dtb' = device.dtbs[round + 1] /\ code' = 0
          /\ UNCHANGED <<setup, round, bl_name, device, failed>>
       \/ /\ round < Len(device.dtbs) /\ device.dtbs[round + 1] \notin setup.files
          /\ round' = round + 1
          /\ UNCHANGED <<setup, pc, bl_name, device, dtb, failed, code>>
       \/ round = Len(device.dtbs) /\ GiveUp /\ UNCHANGED failed

GetDtbInit ==
    /\ setup \in Situations
    /\ pc = "start" /\ round = 0
    /\ bl_name = NoName /\ device = Nobody /\ dtb = NoTree
    /\ failed = FALSE /\ code = -1

GetDtbNext == Usage \/ OpenCmdline \/ ReadPiece \/ MatchDevice \/ NoDevice \/ TryDtb

GetDtbSpec == GetDtbInit /\ [][GetDtbNext]_getdtbVars

-----------------------------------------------------------------------------
(* The trees of the device the command line names, if getdtb can know it:  *)
(* a key that is cut by the end of a piece is not found.                   *)
Wanted ==
    LET named == {i \in DOMAIN devices : devices[i].bl_name = setup.cmdline.value /\ setup.cmdline.how = "whole"}
        there(i) == {j \in DOMAIN devices[i].dtbs : devices[i].dtbs[j] \in setup.files}
    IN  {devices[i].dtbs[Min(there(i))] : i \in {x \in named : there(x) # {}}}

(* The tree printed is the first one there of the device whose bootloader  *)
(* the command line names, in whichever piece of it; for an unknown device *)
(* or one without trees nothing is printed and the status says so.         *)
RightTree ==
    (pc = "done" /\ setup.argc >= 2 /\ ~failed /\ Readable(setup.cmdline)) =>
        /\ {dtb} \ {NoTree} = Wanted
        /\ code = IF dtb = NoTree THEN 1 ELSE 0
=============================================================================
