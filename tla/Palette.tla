------------------------------ MODULE Palette ------------------------------
(***************************************************************************)
(* The command palette, widgets/command_palette.py: the commands it keeps, *)
(* the list on the screen, and the row that Enter runs.  It is made at its *)
(* first use, belongs to the main window, and survives every rebuild of    *)
(* the user interface.  Shell gives the commands their effects.            *)
(***************************************************************************)
EXTENDS Naturals, Sequences

CONSTANTS
  Pages,        \* the keys of the pages, in the order of the shortcuts
  NoPage

ASSUME PagesAssumption ==
  /\ Pages \in Seq({Pages[i] : i \in DOMAIN Pages}) /\ Pages # <<>>
  /\ \A i \in DOMAIN Pages : Pages[i] # NoPage

VARIABLE
  palette       \* [made, visible, kept, listed, row]: _filtered_commands, the
                \* items of the list widget, and its current row (0: none)

-----------------------------------------------------------------------------
(* A command is what its action does.  The address that "copy_ip" copies is  *)
(* set nowhere in the application, which leaves the command disabled; the    *)
(* commands that stay out of the shell are one, "other".                     *)
Command(do, page, enabled) == [do |-> do, page |-> page, enabled |-> enabled]

DefaultCommands ==
  [i \in DOMAIN Pages |-> Command("show", Pages[i], TRUE)]
  \o << Command("theme", NoPage, TRUE), Command("other", NoPage, TRUE),
        Command("logout", NoPage, TRUE), Command("copy_ip", NoPage, FALSE) >>

Enabled(c) == c.enabled

(* What the search text matches: everything, one command, or nothing. *)
Searches == {"", "theme", "nothing"}
Matches(text, c) == text = "" \/ c.do = text

NoPalette ==
  [made |-> FALSE, visible |-> FALSE, kept |-> <<>>, listed |-> <<>>, row |-> 0]

NewPalette == [NoPalette EXCEPT !.made = TRUE, !.kept = DefaultCommands]

(* The commands that match, listed, the first one selected. *)
Filter(p, text) ==
  LET found == SelectSeq(DefaultCommands, LAMBDA c : Enabled(c) /\ Matches(text, c))
  IN [p EXCEPT !.kept = found, !.listed = found,
               !.row = IF found = <<>> THEN 0 ELSE 1]

(* showEvent: the search is emptied. *)
Showing(p) == [Filter(p, "") EXCEPT !.visible = TRUE]

Hiding(p) == [p EXCEPT !.visible = FALSE]

(* Ctrl+K: _toggle_command_palette, or the palette's own shortcut *)
TogglePalette ==
  LET p == IF palette.made THEN palette ELSE NewPalette
  IN palette' = IF p.visible THEN Hiding(p) ELSE Showing(p)

Search ==
  /\ palette.visible
  /\ \E text \in Searches : palette' = Filter(palette, text)

(* The arrow keys, and a click on an item *)
MoveRow ==
  /\ palette.visible
  /\ \E row \in DOMAIN palette.listed : palette' = [palette EXCEPT !.row = row]

(* Escape *)
HidePalette ==
  /\ palette.visible
  /\ palette' = Hiding(palette)

(* Enter hides the palette before it runs the command of the row. *)
Running(c) ==
  /\ palette.visible
  /\ palette.row \in DOMAIN palette.kept /\ c = palette.kept[palette.row]
  /\ palette' = Hiding(palette)

-----------------------------------------------------------------------------
(* Enter looks its command up in _filtered_commands by the row of the list    *)
(* widget: it is the one the reader sees selected, it is enabled, and one is  *)
(* selected whenever something is listed.                                     *)
PaletteTrue ==
  palette.visible =>
    /\ palette.kept = palette.listed
    /\ \A i \in DOMAIN palette.kept : palette.kept[i].enabled
    /\ palette.row = 0 <=> palette.listed = <<>>
    /\ palette.row <= Len(palette.listed)
=============================================================================
