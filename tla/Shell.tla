------------------------------- MODULE Shell -------------------------------
(***************************************************************************)
(* The shell of the user interface: the stack of pages and the sidebar of  *)
(* app.py, the shortcuts of app_shortcuts.py that act on them, and the     *)
(* change of theme, which destroys and rebuilds all of it.                 *)
(*                                                                         *)
(* Handlers run in the GUI thread, one after the other, except that a      *)
(* change of theme lets events be handled twice while it is under way:     *)
(* before it razes the user interface and when that is done.               *)
(***************************************************************************)
EXTENDS Palette, SequencesExt

CONSTANT
  MaxThemes     \* bound: changes of theme

ASSUME ShellAssumption == MaxThemes \in Nat

VARIABLES
  ui,           \* the pages, their container and the sidebar
  theme,        \* [stage, page, rebuilt, watched]: how far a change of theme is,
                \* and its local variables
  toggling,     \* _theme_toggling
  themes,       \* changes of theme made
  ticking,      \* do the six timers run?
  access,       \* "user", "tecnico" or "admin"
  watching,     \* _watcher.is_active
  dialog,       \* the login dialog: "none", "known" to _auth_overlay, or
                \* "forgotten" by it after a failed attempt
  ended,        \* _on_close ran
  intruded      \* history: was something handled amid a rebuild, "never", amid the
                \* last one ("now") or "before"?

shellVars ==
  <<palette, ui, theme, toggling, themes, ticking, access, watching, dialog, ended,
    intruded>>

-----------------------------------------------------------------------------
Keys == ToSet(Pages)

(* stack and shown: the pages in the container and the one it shows; loose:   *)
(* pages built while there was no container; active: the page of _active_btn, *)
(* old if it belongs to a sidebar that was razed and dead once that sidebar   *)
(* is deleted; lit: the buttons of the sidebar that look active.              *)
EmptyUi ==
  [stack |-> <<>>, shown |-> NoPage, loose |-> {}, container |-> TRUE,
   current |-> NoPage, active |-> NoPage, old |-> FALSE, dead |-> FALSE,
   lit |-> {}, raised |-> FALSE]

Cached(u) == ToSet(u.stack) \cup u.loose

(* _build_tab: the first page added to a container is shown by it. *)
BuildTab(u, k) ==
  IF u.container
  THEN [u EXCEPT !.stack = Append(@, k), !.shown = IF u.stack = <<>> THEN k ELSE @]
  ELSE [u EXCEPT !.loose = @ \cup {k}]

(* _show_page: to deactivate a button that was deleted raises, before anything *)
(* is done.  A page that is not in the container cannot be shown by it.        *)
ShowPage(u, k) ==
  IF u.dead
  THEN [u EXCEPT !.raised = TRUE]
  ELSE LET v == IF k \in Cached(u) THEN u ELSE BuildTab(u, k)
       IN [v EXCEPT !.shown = IF v.container /\ k \in ToSet(v.stack) THEN k ELSE @,
                    !.lit = (@ \ (IF v.old /\ v.container THEN {} ELSE {v.active})) \cup {k},
                    !.active = k, !.old = ~v.container,
                    !.current = k]

(* What a container shows when the page it shows is taken out. *)
Neighbour(stack, i) ==
  LET rest == RemoveAt(stack, i)
  IN IF rest = <<>> THEN NoPage
     ELSE IF i <= Len(rest) THEN rest[i] ELSE rest[Len(rest)]

RemovePage(u, k) ==
  IF k \in ToSet(u.stack)
  THEN LET i == CHOOSE i \in DOMAIN u.stack : u.stack[i] = k
       IN [u EXCEPT !.stack = RemoveAt(@, i),
                    !.shown = IF @ = k THEN Neighbour(u.stack, i) ELSE @]
  ELSE [u EXCEPT !.loose = @ \ {k}]

(* Slip: the page is rebuilt at its next visit, even if it is shown. *)
RebuildPage_Lazily(u, k) == RemovePage(u, k)

(* _rebuild_page: nothing is built for a page that is not the current one. *)
RebuildPage(u, k) ==
  LET v == RemovePage(u, k)
  IN IF v.current = k THEN ShowPage(v, k) ELSE v

(* _rebuild_for_access_change.  An exception of the first rebuild leaves the  *)
(* second undone.                                                             *)
RebuildForAccess(u) ==
  LET v == RebuildPage(u, u.current)
  IN IF v.raised \/ u.current = "topology" THEN v ELSE RebuildPage(v, "topology")

(* A handler starts without an exception. *)
Calm(u) == [u EXCEPT !.raised = FALSE]

(* _build_layout: a new sidebar and an empty container. *)
BuildLayout(u) ==
  [u EXCEPT !.container = TRUE, !.stack = <<>>, !.loose = {}, !.shown = NoPage,
            !.lit = {}]

NoTheme == [stage |-> "none", page |-> NoPage, rebuilt |-> NoPage, watched |-> FALSE]

ShellInit ==
  /\ palette = NoPalette
  /\ ui = ShowPage(EmptyUi, Pages[1])
  /\ theme = NoTheme
  /\ toggling = FALSE
  /\ themes = 0
  /\ ticking = TRUE
  /\ access = "user"
  /\ watching = FALSE
  /\ dialog = "none"
  /\ ended = FALSE
  /\ intruded = "never"

(* Events are handled between the handlers and in the two pauses of a change *)
(* of theme.                                                                 *)
Razed == theme.stage = "razed"
Handles == ~ended \/ theme.stage # "none"

(* Only the last pause matters: the rebuild has read its variables by then. *)
Intrude == intruded' = IF Razed THEN "now" ELSE intruded

-----------------------------------------------------------------------------
(* Handlers *)

(* A click in the sidebar, Ctrl+1 .. Ctrl+0, or a command of the palette *)
Visit(k) ==
  /\ ui' = ShowPage(Calm(ui), k)
  /\ Intrude

Navigate ==
  /\ Handles
  /\ \E k \in Keys : Visit(k)
  /\ UNCHANGED <<palette, theme, toggling, themes, ticking, access, watching, dialog, ended>>

(* Ctrl+Tab and Ctrl+Shift+Tab, of no effect under a login dialog *)
CycleTab ==
  /\ Handles /\ dialog # "known"
  /\ \E i \in DOMAIN Pages, step \in {1, Len(Pages) - 1} :
       /\ Pages[i] = ui.current
       /\ Visit(Pages[((i - 1 + step) % Len(Pages)) + 1])
  /\ UNCHANGED <<palette, theme, toggling, themes, ticking, access, watching, dialog, ended>>

(* _show_auth_dialog: a login dialog, or for somebody with a level the        *)
(* question of the logout, answered with yes.                                 *)
ShowAuthDialog ==
  /\ Intrude
  /\ IF access = "user"
     THEN /\ dialog' = "known"
          /\ UNCHANGED <<ui, access, watching>>
     ELSE /\ access' = "user"
          /\ watching' = FALSE
          /\ ui' = RebuildForAccess(Calm(ui))
          /\ UNCHANGED dialog

OpenDialog ==
  /\ Handles /\ dialog # "known"
  /\ ShowAuthDialog
  /\ UNCHANGED <<palette, theme, toggling, themes, ticking, ended>>

(* A failed attempt is reported with the dialog still open. *)
FailOrClose ==
  /\ Handles /\ dialog # "none"
  /\ dialog' \in {"forgotten", "none"}
  /\ UNCHANGED <<palette, ui, theme, toggling, themes, ticking, access, watching, ended, intruded>>

(* An exception of the rebuild leaves the watcher as it is, and the dialog    *)
(* takes it for a failed attempt and stays.                                   *)
Login ==
  /\ Handles /\ dialog # "none"
  /\ access' \in {"tecnico", "admin"}
  /\ ui' = RebuildForAccess(Calm(ui))
  /\ dialog' = IF ui'.raised THEN "forgotten" ELSE "none"
  /\ watching' = IF ui'.raised THEN watching ELSE access' = "tecnico"
  /\ Intrude
  /\ UNCHANGED <<palette, theme, toggling, themes, ticking, ended>>

(* _check_session_timeout *)
Expire ==
  /\ ticking /\ access # "user"
  /\ access' = "user"
  /\ watching' = FALSE
  /\ ui' = RebuildPage(Calm(ui), "topology")
  /\ UNCHANGED <<palette, theme, toggling, themes, ticking, dialog, ended, intruded>>

(* _rebuild_manutencao_if_active, by the poll timer *)
ShowResults ==
  /\ ticking /\ watching /\ ui.current = "manutencao"
  /\ ui' = RebuildPage(Calm(ui), "manutencao")
  /\ UNCHANGED <<palette, theme, toggling, themes, ticking, access, watching, dialog, ended, intruded>>

(* _on_close, by Ctrl+Q or the window.  The change of theme that it interrupts *)
(* goes on.                                                                    *)
CloseWindow ==
  /\ ~ended
  /\ ended' = TRUE
  /\ ticking' = FALSE
  /\ watching' = FALSE
  /\ intruded' = IF theme.stage = "none" THEN intruded ELSE "now"
  /\ UNCHANGED <<palette, ui, theme, toggling, themes, access, dialog>>

-----------------------------------------------------------------------------
(* A change of theme *)

(* _toggle_theme, up to its processEvents() *)
ToggleTheme ==
  /\ ~toggling
  /\ themes < MaxThemes
  /\ themes' = themes + 1
  /\ toggling' = TRUE
  /\ theme' = [NoTheme EXCEPT !.stage = "styled", !.page = ui.current]
  /\ intruded' = IF intruded = "now" THEN "before" ELSE intruded

ClickTheme ==
  /\ Handles
  /\ ToggleTheme
  /\ UNCHANGED <<palette, ui, ticking, access, watching, dialog, ended>>

(* Slip: the watcher is asked after it was stopped. *)
Raze_Stopped ==
  /\ theme.stage = "styled"
  /\ theme' = [theme EXCEPT !.stage = "razed", !.rebuilt = ui.current, !.watched = FALSE]
  /\ ticking' = FALSE /\ watching' = FALSE
  /\ dialog' = "none"
  /\ ui' = [BuildLayout(ui) EXCEPT !.container = FALSE, !.lit = ui.lit,
                                   !.active = NoPage, !.old = FALSE, !.dead = FALSE]
  /\ UNCHANGED <<palette, toggling, themes, access, ended, intruded>>

(* _rebuild_ui, up to its processEvents(): the sidebar is still there, out of *)
(* the window.                                                                *)
Raze ==
  /\ theme.stage = "styled"
  /\ theme' = [theme EXCEPT !.stage = "razed", !.rebuilt = ui.current, !.watched = watching]
  /\ ticking' = FALSE /\ watching' = FALSE
  /\ dialog' = "none"
  /\ ui' = [BuildLayout(ui) EXCEPT !.container = FALSE, !.lit = ui.lit,
                                   !.active = NoPage, !.old = FALSE, !.dead = FALSE]
  /\ UNCHANGED <<palette, toggling, themes, access, ended, intruded>>

(* The rest of both.  The timers start whether or not the window was closed;  *)
(* the watcher, whether or not its level was lost.  Afterwards what was razed *)
(* is deleted.                                                                *)
Rebuild ==
  /\ theme.stage = "razed"
  /\ LET u == RebuildPage(BuildLayout(Calm(ui)), theme.rebuilt)
         v == IF theme.page \in Cached(u) THEN ShowPage(u, theme.page) ELSE u
     IN ui' = [v EXCEPT !.dead = v.old]
  /\ ticking' = TRUE
  /\ watching' = (watching \/ theme.watched)
  /\ theme' = NoTheme
  /\ UNCHANGED <<palette, toggling, themes, access, dialog, ended, intruded>>

(* _unlock_theme, 1.5 s later *)
UnlockTheme ==
  /\ toggling /\ theme.stage = "none"
  /\ toggling' = FALSE
  /\ UNCHANGED <<palette, ui, theme, themes, ticking, access, watching, dialog, ended, intruded>>

-----------------------------------------------------------------------------
(* The palette, which no login dialog disables *)

UsePalette ==
  /\ Handles
  /\ TogglePalette \/ Search \/ MoveRow \/ HidePalette
  /\ UNCHANGED <<ui, theme, toggling, themes, ticking, access, watching, dialog, ended, intruded>>

RunCommand ==
  /\ Handles
  /\ \E c \in Range(DefaultCommands) :
       /\ Running(c)
       /\ \/ c.do = "show" /\ Visit(c.page)
             /\ UNCHANGED <<theme, toggling, themes, access, watching, dialog>>
          \/ c.do = "theme" /\ ToggleTheme
             /\ UNCHANGED <<ui, access, watching, dialog>>
          \/ c.do = "logout" /\ ~(access = "user" /\ dialog = "known") /\ ShowAuthDialog
             /\ UNCHANGED <<theme, toggling, themes>>
          \/ c.do = "other"
             /\ UNCHANGED <<ui, theme, toggling, themes, access, watching, dialog, intruded>>
  /\ UNCHANGED <<ticking, ended>>

-----------------------------------------------------------------------------
ShellNext ==
  \/ Navigate \/ CycleTab
  \/ OpenDialog \/ FailOrClose \/ Login
  \/ Expire \/ ShowResults \/ CloseWindow
  \/ ClickTheme \/ Raze \/ Rebuild \/ UnlockTheme
  \/ UsePalette \/ RunCommand

ShellSpec == ShellInit /\ [][ShellNext]_shellVars

-----------------------------------------------------------------------------
(* Whatever pages were visited, rebuilt for another level, dropped for a      *)
(* later visit or razed with a theme: what is shown is the current page, in   *)
(* the container of the user interface at hand, under the only button that    *)
(* looks active, and no handler raises.  The exception is an event handled    *)
(* while a change of theme had no container: a page shown then is lost, its   *)
(* button is deleted under _active_btn, and until the next change of theme    *)
(* no page can be shown.                                                      *)
PageShown ==
  theme.stage = "none" /\ intruded # "now" =>
    /\ ui.shown = ui.current /\ ui.current \in ToSet(ui.stack)
    /\ ui.lit = {ui.current} /\ ui.active = ui.current
    /\ ~ui.raised

(* A change of theme stops the timers and the watcher and brings both back:   *)
(* afterwards the timers run until the window is closed, and the watcher      *)
(* watches for a technician and for nobody else.                              *)
Resumed ==
  theme.stage = "none" /\ intruded = "never" =>
    /\ ticking <=> ~ended
    /\ watching <=> access = "tecnico" /\ ~ended

(* The references to widgets that a change of theme deletes are reset, so     *)
(* that none is used afterwards.                                              *)
NoneDangles == ~ui.dead
=============================================================================
