------------------------------- MODULE Mixer -------------------------------
(***************************************************************************)
(* The audio tool: parse_config collects mixer controls from an XML file   *)
(* in expat callbacks, main (set_paths.c) sets the default ones and then   *)
(* those of one path of one device.                                        *)
(*                                                                         *)
(* A file is the sequence of expat's events [ev, elem, name, val], NULL    *)
(* for a missing attribute.  Lists (llist.c) are sequences; an empty one   *)
(* is a NULL pointer.  The parser's cur_widget_list is the address of a    *)
(* list: <<0, "default">>, or <<k, "en">> and <<k, "dis">> of setting k.   *)
(***************************************************************************)
EXTENDS Tool, Integers, SequencesExt, FiniteSetsExt, Functions

CONSTANTS
    Files,    \* sequences of events
    Args,     \* [argc, path, en, card]: the command line, and whether mixer_open works
    Kind,     \* the controls the card has -> "int" or "enum"
    Values,   \* the controls -> how many values each has
    Items,    \* the controls -> the items of an enumeration
    Atoi,     \* text of a value -> what atoi makes of it
    NULL

VARIABLES
    file, args,
    pos,
    cur_device, cur_state, cur_widget_list,  \* struct parser_data
    cfg,       \* [default, settings]
    todo,      \* widgets apply_paths has still to set
    hw,        \* place -> value
    refused,   \* history: places that have refused the last value
    short      \* history: an allocation failed

(* The elements of file f that are open before event k.                    *)
OpenIn(f, k) ==
    LET matched(i) ==
            \E j \in (i + 1)..(k - 1) : f[j].ev = "end" /\
                Cardinality({x \in i..j : f[x].ev = "start"}) = Cardinality({x \in i..j : f[x].ev = "end"})
    IN  {i \in 1..(k - 1) : f[i].ev = "start" /\ ~matched(i)}

(* Expat reports the end of the innermost open element only, under the     *)
(* element's name; at any other tag it stops with an error.                *)
WellNested(f) ==
    \A k \in DOMAIN f :
        \/ f[k].ev = "start"
        \/ f[k].ev = "end" /\ OpenIn(f, k) # {} /\ f[Max(OpenIn(f, k))].elem = f[k].elem

(* The values of a control have a place each.                              *)
PlacesOf(c) == {c} \X (1..Values[c])
Hardware == UNION {PlacesOf(c) : c \in DOMAIN Kind}

ASSUME MixerAssumption ==
    /\ \A f \in Files : WellNested(f)
    /\ \A a \in Args : a.argc \in Nat /\ a.path # NULL
    /\ Kind \in [DOMAIN Kind -> {"int", "enum"}] /\ Values \in [DOMAIN Kind -> Nat]
    /\ \A c \in DOMAIN Kind : IF Kind[c] = "int" THEN Items[c] = {} ELSE Values[c] = 1
    /\ NULL \notin DOMAIN Kind
    /\ NULL \notin Nat \X {"default", "en", "dis"}

mixerVars == <<file, args, pc, pos, cur_device, cur_state, cur_widget_list, cfg, todo, hw, refused, short, code>>
parserVars == <<cur_device, cur_state, cur_widget_list>>
mainVars == <<pc, code>>
hwVars == <<hw, refused>>

-----------------------------------------------------------------------------
(* Callbacks *)

e == file[pos]
DefaultList == <<0, "default">>
Setting(name) == SelectInSeq(cfg.settings, LAMBDA s : s.name = name)
Side == IF cur_state' # 0 THEN "en" ELSE "dis"

(* strcmp with the name of a setting whose strdup has failed.              *)
MeetsNull(name) ==
    \E k \in DOMAIN cfg.settings :
        cfg.settings[k].name = NULL /\ (Setting(name) = 0 \/ k < Setting(name))

Crash == -1

(* The process dies of a NULL that an allocation has returned.             *)
Dies == short' = TRUE /\ Exits(Crash)

(* find_list finds no list, and the device gets a new setting: calloc,     *)
(* strdup and the list's own allocation are not checked.                   *)
NewSetting ==
    \/ \E name \in {cur_device, NULL} :
        /\ cfg' = [cfg EXCEPT !.settings = Append(@, [name |-> name, en |-> << >>, dis |-> << >>])]
        /\ cur_widget_list' = <<Len(cfg'.settings), Side>>
        /\ short' = (short \/ name = NULL)
        /\ UNCHANGED mainVars
    \/ Dies /\ UNCHANGED <<cfg, cur_widget_list>>

StartPath ==
    /\ cur_state' = IF e.name = NULL THEN cur_state ELSE IF e.name = "on" THEN 1 ELSE 0
    /\ IF cur_device = NULL
       THEN cur_widget_list' = DefaultList /\ UNCHANGED <<cfg, short, mainVars>>
       ELSE IF MeetsNull(cur_device) THEN Dies /\ UNCHANGED <<cfg, cur_widget_list>>
       ELSE IF Setting(cur_device) # 0
       THEN cur_widget_list' = <<Setting(cur_device), Side>> /\ UNCHANGED <<cfg, short, mainVars>>
       ELSE NewSetting
    /\ UNCHANGED cur_device

(* The name is copied: what it is, or NULL.                                *)
StartDevice ==
    /\ \/ e.name = NULL /\ UNCHANGED <<cur_device, short>>
       \/ e.name # NULL /\ cur_device' = e.name /\ UNCHANGED short
       \/ e.name # NULL /\ cur_device' = NULL /\ short' = TRUE
    /\ UNCHANGED <<cur_state, cur_widget_list, cfg, mainVars>>

(* A number that is not "0" but 0 to atoi is kept as a string.             *)
IsNumber(val) == Atoi[val] # 0 \/ val = "0"
Widget ==
    [name |-> e.name, intval |-> Atoi[e.val],
     strval |-> IF IsNumber(e.val) THEN NULL ELSE e.val]

(* One of its two strdups has failed, or both.                             *)
Damaged == {[Widget EXCEPT !.name = NULL], [Widget EXCEPT !.strval = NULL],
            [Widget EXCEPT !.name = NULL, !.strval = NULL]}

Added(w) ==
    IF cur_widget_list = DefaultList THEN [cfg EXCEPT !.default = Append(@, w)]
    ELSE [cfg EXCEPT !.settings[cur_widget_list[1]][cur_widget_list[2]] = Append(@, w)]

(* Refused without name, value or list; given up for want of memory, which *)
(* the list does not look for.                                             *)
Refused == e.name = NULL \/ e.val = NULL \/ cur_widget_list = NULL
StartCtl ==
    /\ \/ Refused /\ UNCHANGED <<cfg, short, mainVars>>
       \/ ~Refused /\ cfg' = Added(Widget) /\ UNCHANGED <<short, mainVars>>
       \/ ~Refused /\ short' = TRUE /\ cfg' \in {Added(w) : w \in Damaged \ {Widget}} /\ UNCHANGED mainVars
       \/ ~Refused /\ short' = TRUE /\ UNCHANGED <<cfg, mainVars>>
       \/ ~Refused /\ Dies /\ UNCHANGED cfg
    /\ UNCHANGED parserVars

config_start ==
    /\ e.ev = "start"
    /\ CASE e.elem = "path" -> StartPath
         [] e.elem = "device" -> StartDevice
         [] e.elem = "ctl" -> StartCtl
         [] OTHER -> UNCHANGED <<parserVars, cfg, short, mainVars>>

(* Mutant: the list stays behind.                                          *)
EndKeepsList ==
    /\ e.ev = "end"
    /\ cur_state' = IF e.elem = "path" THEN -1 ELSE cur_state
    /\ cur_device' = IF e.elem = "device" THEN NULL ELSE cur_device
    /\ UNCHANGED <<cur_widget_list, cfg, short, mainVars>>

config_end ==
    /\ e.ev = "end"
    /\ cur_state' = IF e.elem = "path" THEN -1 ELSE cur_state
    /\ cur_widget_list' = IF e.elem = "path" THEN NULL ELSE cur_widget_list
    /\ cur_device' = IF e.elem = "device" THEN NULL ELSE cur_device
    /\ UNCHANGED <<cfg, short, mainVars>>

-----------------------------------------------------------------------------
(* parse_config: the callbacks for one event, or the end of the file.      *)
ParseEvent ==
    /\ pc = "parse" /\ pos \in DOMAIN file
    /\ config_start \/ config_end
    /\ pos' = pos + 1
    /\ UNCHANGED <<file, args, todo, hwVars>>

(* At the end of the file, or after an error in it or in reading it: what  *)
(* has been collected is returned in either case.                          *)
ParseEnds ==
    /\ pc = "parse"
    /\ pc' = "parsed"
    /\ UNCHANGED <<file, args, pos, parserVars, cfg, todo, hwVars, short, code>>

-----------------------------------------------------------------------------
(* main *)

ExitWith(c) ==
    /\ Exits(c)
    /\ UNCHANGED <<file, args, pos, parserVars, cfg, todo, hwVars, short>>

(* A file that cannot be opened: main uses the NULL configuration.         *)
Start ==
    /\ pc = "start"
    /\ \/ args.argc < 2 /\ ExitWith(1)
       \/ args.argc >= 2 /\ ExitWith(Crash)
       \/ /\ args.argc >= 2 /\ pc' = "parse"
          /\ UNCHANGED <<file, args, pos, parserVars, cfg, todo, hwVars, short, code>>

(* The settings are listed; what printing a NULL name does depends on libc.*)
NoPath ==
    /\ pc = "parsed" /\ args.argc < 4
    /\ \/ ExitWith(2)
       \/ (\E k \in DOMAIN cfg.settings : cfg.settings[k].name = NULL) /\ ExitWith(Crash)

Defaults ==
    /\ pc = "parsed" /\ args.argc >= 4
    /\ pc' = "defaults"
    /\ todo' = cfg.default
    /\ UNCHANGED <<file, args, pos, parserVars, cfg, hwVars, short, code>>

(* mixer_get_ctl_by_name; on a card that did not open it finds nothing.    *)
Found(name) == args.card /\ name \in DOMAIN Kind

(* external: the places a value can go to.  A string is set by name, which *)
(* only an enumeration with that item has; a number goes to all values of  *)
(* the control, of an enumeration the index.                               *)
Writable(w) ==
    IF w.strval = NULL \/ w.strval \in Items[w.name] THEN PlacesOf(w.name) ELSE {}

Value(w) == IF w.strval = NULL THEN <<"number", w.intval>> ELSE <<"item", w.strval>>

(* Each of these sets may fail, and the loop goes on.                      *)
Set(w) ==
    \E taken \in SUBSET Writable(w) :
        /\ hw' = [x \in Hardware |-> IF x \in taken THEN Value(w) ELSE hw[x]]
        /\ refused' = (refused \ taken) \cup (PlacesOf(w.name) \ taken)

(* Mutant: a control the card does not have ends the loop.                 *)
StopsAtMissing ==
    /\ pc \in {"defaults", "path"} /\ todo # << >>
    /\ IF Found(Head(todo).name) THEN Set(Head(todo)) /\ todo' = Tail(todo)
       ELSE todo' = << >> /\ UNCHANGED hwVars
    /\ UNCHANGED <<file, args, mainVars, pos, parserVars, cfg, short>>

(* One round of the loop; a control the card does not have is passed over, *)
(* a name that strdup has lost is compared with those of the card.         *)
apply_paths ==
    /\ pc \in {"defaults", "path"} /\ todo # << >>
    /\ IF Found(Head(todo).name) THEN Set(Head(todo)) ELSE UNCHANGED hwVars
    /\ IF args.card /\ Head(todo).name = NULL THEN Exits(Crash) ELSE UNCHANGED mainVars
    /\ todo' = Tail(todo)
    /\ UNCHANGED <<file, args, pos, parserVars, cfg, short>>

find_path ==
    LET s == Setting(args.path) IN
    IF s = 0 THEN << >> ELSE IF args.en # 0 THEN cfg.settings[s].en ELSE cfg.settings[s].dis

ApplyPath ==
    /\ pc = "defaults" /\ todo = << >>
    /\ IF MeetsNull(args.path) THEN ExitWith(Crash)
       ELSE IF find_path = << >> THEN ExitWith(2)
       ELSE /\ pc' = "path" /\ todo' = find_path
            /\ UNCHANGED <<file, args, pos, parserVars, cfg, hwVars, short, code>>

Return == pc = "path" /\ todo = << >> /\ ExitWith(0)

MixerInit ==
    /\ file \in Files /\ args \in Args
    /\ pc = "start" /\ pos = 1
    /\ cur_device = NULL /\ cur_state = 0 /\ cur_widget_list = NULL
    /\ cfg = [default |-> << >>, settings |-> << >>]
    /\ todo = << >>
    /\ hw = [x \in Hardware |-> NULL] /\ refused = {}
    /\ short = FALSE /\ code = NULL

MixerNext ==
    \/ Start \/ ParseEvent \/ ParseEnds
    \/ NoPath \/ Defaults \/ apply_paths \/ ApplyPath \/ Return

MixerSpec == MixerInit /\ [][MixerNext]_mixerVars

-----------------------------------------------------------------------------
(* Properties *)

OpenElems(k, elem) == {i \in OpenIn(file, k) : file[i].elem = elem}

(* No path in a path, no device in a device or a path; devices and their   *)
(* paths have names.                                                       *)
Flat ==
    \A k \in 1..(pos - 1) : file[k].ev = "start" =>
        /\ file[k].elem = "path" =>
            OpenElems(k, "path") = {} /\ (file[k].name = NULL => OpenElems(k, "device") = {})
        /\ file[k].elem = "device" =>
            OpenElems(k, "path") \cup OpenElems(k, "device") = {} /\ file[k].name # NULL

(* The controls of a device and state, NULL for the default, as the file   *)
(* nests them.                                                             *)
In(k, device, state) ==
    /\ file[k].ev = "start" /\ file[k].elem = "ctl" /\ NULL \notin {file[k].name, file[k].val}
    /\ \E p \in OpenElems(k, "path") :
        /\ {file[d].name : d \in OpenElems(k, "device")} = {device} \ {NULL}
        /\ device # NULL => (file[p].name = "on") = (state = "en")
Nested(device, state) == {k \in 1..(pos - 1) : In(k, device, state)}
Devices == {file[k].name : k \in {j \in 1..(pos - 1) : file[j].elem = "device" /\ file[j].ev = "start"}}

(* A widget for each control, in the order of the file.                    *)
Rank(ctls, k) == Cardinality({j \in ctls : j <= k})
Same(widgets, ctls) ==
    /\ Len(widgets) = Cardinality(ctls)
    /\ \A k \in ctls :
        LET w == widgets[Rank(ctls, k)] IN w.name = file[k].name /\ w.intval = Atoi[file[k].val]
ListOf(device, state) ==
    IF Setting(device) = 0 THEN << >> ELSE cfg.settings[Setting(device)][state]

(* After any part of the file the widgets are in the lists the elements    *)
(* around them say, in file order, also when a device comes back: an error *)
(* in the file costs what follows it and no more.                          *)
WidgetsWhereWritten ==
    (Flat /\ ~short) =>
        /\ Same(cfg.default, Nested(NULL, "en"))
        /\ \A d \in Devices : \A s \in {"en", "dis"} : Same(ListOf(d, s), Nested(d, s))

(* What the file means for a control: a number for a number, an item for   *)
(* an enumeration; the text of an item does not begin with a number.       *)
Meant(c, val) ==
    IF Kind[c] = "int" /\ IsNumber(val) THEN <<"number", Atoi[val]>> ELSE <<"item", val>>
Plain(ctl) ==
    (ctl.name \in DOMAIN Kind /\ Kind[ctl.name] = "enum") => ~IsNumber(ctl.val)

(* When the tool has run, each value of each control of a card that opens  *)
(* is the last one the default path and then the chosen path give it, if   *)
(* the card has not refused that one; it is none but one they give, or as  *)
(* it was before.  That is so even if the chosen path does not exist, or   *)
(* some controls or items are not there.                                   *)
HardwareAsWritten ==
    LET default == Nested(NULL, "en")
        chosen == Nested(args.path, IF args.en # 0 THEN "en" ELSE "dis")
        given(ctls, c) == {k \in ctls : args.card /\ file[k].name = c}
        last(c) == IF given(chosen, c) # {} THEN Meant(c, file[Max(given(chosen, c))].val)
                   ELSE IF given(default, c) # {} THEN Meant(c, file[Max(given(default, c))].val)
                   ELSE NULL
    IN  (/\ pc = "done" /\ code # Crash /\ args.argc >= 4
         /\ Flat /\ ~short /\ \A k \in default \cup chosen : Plain(file[k])) =>
            \A c \in DOMAIN Kind : \A x \in PlacesOf(c) :
                /\ x \notin refused => hw[x] = last(c)
                /\ hw[x] \in {NULL} \cup {Meant(c, file[k].val) : k \in given(default \cup chosen, c)}
=============================================================================
