------------------------------ MODULE MCConfig ------------------------------
(* load_config on all files of up to seven pieces over a small vocabulary: *)
(* two devices, two overlays, each mode, misplaced, unknown, indented and  *)
(* overlong lines.                                                         *)
EXTENDS Config

Piece(kind, name, value) ==
    [kind |-> kind, name |-> name, value |-> value, indented |-> FALSE]
Indented(p) == [p EXCEPT !.indented = TRUE]

MCOverlaySections == {"overlay.a", "overlay.b"}
MCPieces ==
    { Piece("section", "global", <<"[">>), Piece("section", "n710x", <<"[">>),
      Piece("section", "overlay.a", <<"[">>), Piece("section", "overlay.b", <<"[">>),
      Piece("pair", "devices", <<"n710x", "i9300">>),
      Piece("pair", "cmdline", <<"rw">>),
      Piece("pair", "model", <<"N7100">>),
      Piece("pair", "mode", <<"gpio">>), Piece("pair", "mode", <<"cmdline">>),
      Piece("pair", "bank", <<"gpa1">>), Piece("pair", "value", <<"1">>),
      Indented(Piece("word", "", <<"quiet">>)),
      Piece("open", "", <<"[">>), Piece("blank", "", << >>) }

Chip(ok, label, name) == [ok |-> ok, label |-> <<label>>, name |-> <<name>>]

MCChipLists ==
    { << >>, <<Chip(TRUE, "gpa0", "gpiochip0"), Chip(TRUE, "gpa1", "gpiochip1")>>,
      <<Chip(FALSE, "gpa0", "gpiochip0"), Chip(TRUE, "gpa1", "gpiochip1")>> }
=============================================================================
