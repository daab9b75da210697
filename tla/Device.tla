------------------------------- MODULE Device -------------------------------
(***************************************************************************)
(* Which device is this?  get_bootloader and get_cur_device (boot/util.c); *)
(* getdtb.c has the same loop.  /proc/cmdline is read in pieces of         *)
(* BUF_SIZE bytes, and the bootloader's parameter is looked for in each.   *)
(* Of its value only the first five characters count, a model's name.      *)
(*                                                                         *)
(* cmdline = [reads: number of pieces, value: of the parameter, NoName if  *)
(* there is none, piece: where the parameter starts, how: "whole", or what *)
(* is cut by the end of that piece, "key" or "value", stale: the value of  *)
(* a parameter in the old bytes behind the buffer's contents].             *)
(***************************************************************************)
EXTENDS Integers, Sequences, FiniteSetsExt

CONSTANT Names  \* what five bytes behind a key may spell

NoName == ""

(* strstr and the five bytes it leads to, after piece k: the buffer is not *)
(* terminated, so that old bytes are searched too and a value may end in   *)
(* them.                                                                   *)
NameFound(cmdline, k) ==
    IF cmdline.value = NoName \/ k # cmdline.piece \/ cmdline.how = "key" THEN {cmdline.stale}
    ELSE IF cmdline.how = "value" THEN Names
    ELSE {cmdline.value}

(* The name in the first piece that has one.                               *)
get_bootloader(cmdline) ==
    LET hits == {k \in 1..cmdline.reads : NameFound(cmdline, k) # {NoName}}
    IN  IF hits = {} THEN {NoName} ELSE NameFound(cmdline, Min(hits))

(* The first configured device with that model: 0 if there is none.  The   *)
(* models of a device without a "model" line are garbage.                  *)
Garbage == <<"?">>
get_cur_device(devices, name) ==
    LET stops == {i \in DOMAIN devices :
                    devices[i].models = Garbage \/ \E j \in DOMAIN devices[i].models : devices[i].models[j] = name}
    IN  IF name = NoName \/ stops = {} THEN 0 ELSE Min(stops)

(* The old bytes are harmless and the value is in one piece.               *)
Readable(cmdline) == cmdline.how # "value" /\ cmdline.stale = NoName
=============================================================================
