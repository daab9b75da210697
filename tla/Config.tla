------------------------------- MODULE Config -------------------------------
(***************************************************************************)
(* load_config (boot/config.c) on top of ini_parse (boot/inih/ini.c): the  *)
(* file is read one fgets buffer at a time, each buffer is classified, and *)
(* the handler fills the configuration.  A line longer than the buffer     *)
(* arrives in several pieces, and every piece is treated as a line.        *)
(*                                                                         *)
(* A piece is a record: kind "pair" (name, value), "section" (name),       *)
(* "open" (a section line without "]"), "word" (text without "=" or ":"),  *)
(* or "blank" (also comments); indented; value, the whole text if it is    *)
(* taken as a continuation.                                                *)
(* A value is the sequence of its comma-separated items, as split returns. *)
(***************************************************************************)
EXTENDS Integers, Sequences, FiniteSetsExt

CONSTANTS
    Pieces,           \* what fgets may return
    OverlaySections,  \* section names that start with "overlay"
    ChipLists,        \* what /dev may hold: sequences of gpio chips [ok, label, name]
    MaxPieces         \* bound on the length of a file

VARIABLES
    cfg,       \* struct global_config
    section, prevName, lineno, error,   \* locals of ini_parse_stream
    refused,   \* history: some piece was refused
    calls,     \* history: handler calls <<section, name>> that succeeded
    result     \* "reading", then "config" or "NULL"

configVars == <<cfg, section, prevName, lineno, error, refused, calls, result>>

-----------------------------------------------------------------------------
Unset == << >>       \* NULL or zero from calloc
Garbage == <<"?">>   \* malloc'ed and never written

GlobalKeys == {"rootdir", "zImage", "initramfs", "dtbs", "cmdline", "bootimage", "recoveryimage"}
DeviceKeys == {"name", "model", "dtbs"}

(* Sections that do not describe a device, whatever the devices are called.*)
Reserved == OverlaySections \cup {"global"}

Text == Seq(STRING)

(* No text of a file is what uninitialised memory holds.                   *)
ASSUME ConfigAssumption ==
    /\ \A p \in Pieces : p.value \in Text \ {Garbage}
    /\ "global" \notin OverlaySections
    /\ ChipLists \subseteq Seq([ok : BOOLEAN, label : Text, name : Text])

(* Mutant: a key without a mode is taken for a gpio key.                   *)
WordWithoutMode(mode, key) ==
    CASE key \in {"bank", "key"} -> 1
      [] key = "pin" \/ (mode = "cmdline" /\ key = "value") -> 2
      [] key = "value" -> 3
      [] OTHER -> 0

(* struct overlay_cfg.  The union u is three words: bank or key, pin or    *)
(* value, value; each remembers the mode it was written under.             *)
NewOverlay(name) ==
    [name |-> name, path |-> Unset, devices |-> Unset, mode |-> "unknown",
     u |-> [w \in 1..3 |-> Unset]]

Word(mode, key) ==
    CASE mode = "gpio" /\ key = "bank" -> 1
      [] mode = "gpio" /\ key = "pin" -> 2
      [] mode = "gpio" /\ key = "value" -> 3
      [] mode = "cmdline" /\ key = "key" -> 1
      [] mode = "cmdline" /\ key = "value" -> 2
      [] OTHER -> 0

EmptyConfig ==
    [devices |-> Unset, device |-> << >>, global |-> [k \in GlobalKeys |-> Unset],
     overlays |-> << >>]

Accept(c) == [ok |-> TRUE, cfg |-> c]
Reject(c) == [ok |-> FALSE, cfg |-> c]

(* Mutant: any global option forgets what is known of the devices.         *)
GlobalForgetsDevices(name, value) ==
    LET fresh(c) == [c EXCEPT !.device = [i \in DOMAIN c.devices |-> [k \in DeviceKeys |-> Garbage]]]
    IN  IF name = "devices" THEN Accept(fresh([cfg EXCEPT !.devices = value]))
        ELSE IF name \in GlobalKeys THEN Accept(fresh([cfg EXCEPT !.global[name] = value]))
        ELSE Reject(cfg)

(* "devices" makes new, uninitialised device_configs, one per codename.    *)
handle_global(name, value) ==
    IF name = "devices"
    THEN Accept([cfg EXCEPT !.devices = value,
                            !.device = [i \in DOMAIN value |-> [k \in DeviceKeys |-> Garbage]]])
    ELSE IF name \in GlobalKeys THEN Accept([cfg EXCEPT !.global[name] = value])
    ELSE Reject(cfg)

(* Unknown keys of a device are ignored.                                   *)
handle_device(i, name, value) ==
    IF name \in DeviceKeys THEN Accept([cfg EXCEPT !.device[i][name] = value])
    ELSE Accept(cfg)

Position(sect) ==
    IF \E i \in DOMAIN cfg.overlays : cfg.overlays[i].name = sect
    THEN CHOOSE i \in DOMAIN cfg.overlays : cfg.overlays[i].name = sect
    ELSE Len(cfg.overlays) + 1

(* Mutant: a section that comes back starts a new overlay.                 *)
AlwaysCreated(sect) == Append(cfg.overlays, NewOverlay(sect))

(* The overlay list after find_or_create_overlay.                          *)
find_or_create_overlay(sect) ==
    IF Position(sect) <= Len(cfg.overlays) THEN cfg.overlays
    ELSE Append(cfg.overlays, NewOverlay(sect))

Mode(value) == IF value[1] \in {"fixed", "gpio", "cmdline"} THEN value[1] ELSE "invalid"

(* The scan of /dev ends at the first chip that cannot be asked, even if   *)
(* a later one has the label.                                              *)
get_gpio_name(chips, label) ==
    LET stops == {i \in DOMAIN chips : ~chips[i].ok \/ chips[i].label = label}
    IN  IF stops = {} \/ ~chips[Min(stops)].ok THEN Unset ELSE chips[Min(stops)].name

(* The name of the bank in /dev is stored, other values as they are.       *)
Stored(mode, name, value, chips) ==
    IF mode = "gpio" /\ name = "bank" THEN get_gpio_name(chips, value) ELSE value

handle_overlay(sect, name, value, chips) ==
    LET list == find_or_create_overlay(sect)
        i == Position(sect)
        o == list[i]
        w == Word(o.mode, name)
        stored == Stored(o.mode, name, value, chips)
        with(ov) == [cfg EXCEPT !.overlays = [list EXCEPT ![i] = ov]]
    IN  CASE name = "path" -> Accept(with([o EXCEPT !.path = value]))
          [] name = "mode" -> Accept(with([o EXCEPT !.mode = Mode(value)]))
          [] name = "devices" -> Accept(with([o EXCEPT !.devices = value]))
          [] OTHER -> IF w = 0 \/ stored = Unset
                      THEN Reject(with(o))
                      ELSE Accept(with([o EXCEPT !.u[w] = <<o.mode, stored>>]))

handler(sect, name, value, chips) ==
    IF sect = "global" THEN handle_global(name, value)
    ELSE IF sect \in OverlaySections THEN handle_overlay(sect, name, value, chips)
    ELSE IF \E i \in DOMAIN cfg.devices : cfg.devices[i] = sect
    THEN handle_device(Min({i \in DOMAIN cfg.devices : cfg.devices[i] = sect}), name, value)
    ELSE Reject(cfg)        \* also: "global section should be first!"

-----------------------------------------------------------------------------
(* Mutant: a good piece clears the error.                                  *)
RefusedLast(bad) ==
    /\ error' = IF bad THEN lineno' ELSE 0
    /\ refused' = (refused \/ bad)

(* A piece that is refused, by the parser or by the handler, is reported   *)
(* with the number of pieces read; parsing goes on.                        *)
Refused(bad) ==
    /\ error' = IF bad /\ error = 0 THEN lineno' ELSE error
    /\ refused' = (refused \/ bad)

Call(name, value, chips) ==
    LET r == handler(section, name, value, chips) IN
    /\ cfg' = r.cfg
    /\ calls' = IF r.ok THEN Append(calls, <<section, name>>) ELSE calls
    /\ Refused(~r.ok)

(* Non-blank, indented, and there is a name it can belong to.              *)
Continues(p) == p.indented /\ prevName # "" /\ p.kind # "blank"

Continuation(p, chips) ==
    /\ Continues(p)
    /\ Call(prevName, p.value, chips)
    /\ UNCHANGED <<section, prevName>>

Section(p) ==
    /\ ~Continues(p) /\ p.kind = "section"
    /\ section' = p.name /\ prevName' = ""
    /\ Refused(FALSE)
    /\ UNCHANGED <<cfg, calls>>

Pair(p, chips) ==
    /\ ~Continues(p) /\ p.kind = "pair"
    /\ prevName' = p.name
    /\ Call(p.name, p.value, chips)
    /\ UNCHANGED section

Other(p) ==
    /\ ~Continues(p) /\ p.kind \in {"open", "word", "blank"}
    /\ Refused(p.kind # "blank")
    /\ UNCHANGED <<cfg, calls, section, prevName>>

ReadPiece ==
    /\ result = "reading" /\ lineno < MaxPieces
    /\ lineno' = lineno + 1
    /\ \E p \in Pieces, chips \in ChipLists :
        Continuation(p, chips) \/ Section(p) \/ Pair(p, chips) \/ Other(p)
    /\ UNCHANGED result

(* End of the file, at any point; or it could not be opened.               *)
Finish ==
    /\ result = "reading"
    /\ \/ result' = IF error = 0 THEN "config" ELSE "NULL"
       \/ lineno = 0 /\ result' = "NULL"
    /\ UNCHANGED <<cfg, section, prevName, lineno, error, refused, calls>>

Init ==
    /\ cfg = EmptyConfig
    /\ section = "" /\ prevName = "" /\ lineno = 0 /\ error = 0
    /\ refused = FALSE /\ calls = << >>
    /\ result = "reading"

Next == ReadPiece \/ Finish

Spec == Init /\ [][Next]_configVars

-----------------------------------------------------------------------------
(* Properties *)

Returned == result = "config"

(* load_config never returns a configuration from a file of which any      *)
(* piece was refused, although parsing and filling go on after an error.   *)
OnlyCleanFiles == Returned => ~refused

FirstCall(sect) == Min({i \in DOMAIN calls : calls[i][1] = sect})

(* apply_overlays takes overlays in list order, and that is the order in   *)
(* which their sections first appear: a section that comes back later      *)
(* continues its overlay and does not start another.                       *)
OverlaysInFileOrder ==
    Returned => LET list == cfg.overlays IN
        /\ \A i, j \in DOMAIN list : i < j => FirstCall(list[i].name) < FirstCall(list[j].name)
        /\ \A i \in DOMAIN calls : calls[i][1] \in OverlaySections =>
            \E j \in DOMAIN list : list[j].name = calls[i][1]

Called(call) == \E i \in DOMAIN calls : calls[i] = call
AtMostOnce(call) == \A i, j \in DOMAIN calls : calls[i] = call /\ calls[j] = call => i = j

(* The members of the union u are read by gpio_should_apply or             *)
(* util_has_cmdline according to the final mode.  If the mode was set only *)
(* once, they were written as members of that mode: keys in front of the   *)
(* mode line are refused, whatever sections came in between.               *)
UnionReadAsWritten ==
    Returned => \A i \in DOMAIN cfg.overlays : LET o == cfg.overlays[i] IN
        AtMostOnce(<<o.name, "mode">>) =>
            \A w \in 1..3 : o.u[w] = Unset \/ o.u[w][1] = o.mode

(* What a device section says is kept: unless the devices are listed       *)
(* twice, every key set in the section of a device has a value at the end, *)
(* and get_cur_device and load_dtb do not read uninitialised memory for    *)
(* it.  The section of a device called "global" or "overlay..." does not   *)
(* describe it.                                                            *)
DeviceSettingsKept ==
    (Returned /\ AtMostOnce(<<"global", "devices">>)) =>
        \A i \in DOMAIN cfg.devices, k \in DeviceKeys :
            (cfg.devices[i] \notin Reserved /\ Called(<<cfg.devices[i], k>>)) =>
                \E j \in 1..i : cfg.devices[j] = cfg.devices[i] /\ cfg.device[j][k] # Garbage
=============================================================================
