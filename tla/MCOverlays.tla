----------------------------- MODULE MCOverlays -----------------------------
(* apply_overlays on lists of up to three overlays of every mode, with     *)
(* clear and confusing command lines, read in one piece or two, and trees  *)
(* with and without slack.                                                 *)
EXTENDS Overlays, TLC

MCOccursIn == {<<"lcdtype", "old.lcdtype">>, <<"lcdtype", "UUID=lcdtype">>, <<"lcdtype", "was:lcdtype=0">>}
MCBehind == (<<"lcdtype", "was:lcdtype=0">> :> "0")
MCPrefixOf == {<<"1", "10">>}
Param(k, v) == [key |-> k, val |-> v]

tty == Param("console", "tty")
quiet == Param("quiet", NoValue)
lcd(v) == Param("lcdtype", v)

(* Command lines and how they are read: in one piece; in two, with whole   *)
(* parameters and with the key, the "=" or the value of one cut; with old  *)
(* bytes behind.  What is left of the first piece is behind the second.    *)
Line(params, reads) == [params |-> params, reads |-> reads]
CmdlineChoices ==
    { Line(<<tty, lcd("1")>>, << <<tty, lcd("1")>> >>),
      Line(<<tty, lcd("0")>>, << <<tty, lcd("0")>> >>),
      Line(<<tty, lcd("0")>>, << <<tty, lcd("0"), lcd("1")>> >>),
      Line(<<lcd("10"), quiet>>, << <<lcd("10"), quiet>> >>),
      Line(<<Param("old.lcdtype", "0"), lcd("1")>>, << <<Param("old.lcdtype", "0"), lcd("1")>> >>),
      Line(<<Param("root", "UUID=lcdtype"), lcd("1")>>, << <<Param("root", "UUID=lcdtype"), lcd("1")>> >>),
      Line(<<Param("last", "was:lcdtype=0"), lcd("1")>>, << <<Param("last", "was:lcdtype=0"), lcd("1")>> >>),
      Line(<<tty, lcd(NoValue)>>, << <<tty, lcd(NoValue)>> >>),
      Line(<<lcd("1")>>, << <<lcd("1")>> >>),
      Line(<<tty, quiet, lcd("1")>>, << <<tty, quiet>>, <<lcd("1"), quiet>> >>),
      Line(<<tty, quiet, lcd("1")>>, << <<tty, quiet, Param("lcd", NoValue)>>, <<Param("type", "1"), quiet>> >>),
      Line(<<tty, quiet, lcd("1")>>, << <<tty, quiet, lcd(NoValue)>>, <<Param("", "1"), quiet>> >>),
      Line(<<tty, quiet, lcd("10")>>, << <<tty, quiet, lcd("1")>>, <<Param("0", NoValue), quiet>> >>) }

Plain(mode) ==
    [forDevice |-> TRUE, mode |-> mode, bank |-> TRUE, level |-> 1, value |-> 1,
     key |-> "lcdtype", val |-> "1", file |-> 40, fits |-> "yes"]

OverlayChoices ==
    { Plain("fixed"), Plain("gpio"), Plain("cmdline"), Plain("invalid"),
      [Plain("fixed") EXCEPT !.forDevice = FALSE],
      [Plain("fixed") EXCEPT !.file = Missing],
      [Plain("fixed") EXCEPT !.fits = "no"],
      [Plain("fixed") EXCEPT !.fits = "odd"],
      [Plain("fixed") EXCEPT !.fits = "broken"],
      [Plain("fixed") EXCEPT !.file = 39],
      [Plain("gpio") EXCEPT !.level = 0],
      [Plain("gpio") EXCEPT !.bank = FALSE] }

Lists(S, max) == UNION {[1..k -> S] : k \in 0..max}

(* Trees of every form; those that are not sound with short lists only.    *)
Tree(form, slack) ==
    [size |-> 48 + slack, blob |-> [alloc |-> 48 + slack, total |-> 48, used |-> 44, form |-> form]]

MCSetups ==
    {[overlays |-> os, params |-> l.params, reads |-> l.reads, size |-> t.size, blob |-> t.blob] :
        os \in Lists(OverlayChoices, 3), l \in CmdlineChoices, t \in {Tree("rw", 0)}}
    \cup
    {[overlays |-> os, params |-> l.params, reads |-> l.reads, size |-> t.size, blob |-> t.blob] :
        os \in Lists(OverlayChoices, 2), l \in CmdlineChoices,
        t \in {Tree("rw", 4), Tree("ro", 0), Tree("bad", 0), Tree("none", 0)}}
=============================================================================
