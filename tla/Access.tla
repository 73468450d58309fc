------------------------------- MODULE Access --------------------------------
(***************************************************************************)
(* The access level of the application (handlers/auth.py, app_state.py,    *)
(* sdn_controller/authz.py) and what depends on it: the copies of the      *)
(* level, the pages built for it, and the watcher.  All of it runs in the  *)
(* GUI thread, interleaved with the user at the granularity of handlers;   *)
(* timers also fire while the question of the logout is open.  Whether     *)
(* credentials are right is a choice; who may log in is not modelled.      *)
(***************************************************************************)
EXTENDS Watcher

CONSTANTS
  Timeout,      \* timeout_secs of the SessionTracker (300 s), in units of time
  Period,       \* interval of _session_timer (30 s)
  MaxDialogs,   \* bound: login dialogs open at once
  MaxMoves,     \* bound: logins, theme changes and toggles of the watcher
  UiMax         \* maxlen of _ui_queue (1000 in the application)

ASSUME AccessAssumption ==
  /\ Timeout \in Nat \ {0} /\ Period \in Nat \ {0}
  /\ MaxDialogs \in Nat /\ MaxMoves \in Nat /\ UiMax \in Nat

VARIABLES
  level,       \* _access_level
  role,        \* _session_tracker._role
  sbRole,      \* _sb._access_role
  age,         \* time since _last_activity
  sinceCheck,  \* time since _session_timer fired or was started
  dialogs,     \* login dialogs on the screen
  overlay,     \* _auth_overlay refers to one of them
  asking,      \* the question of the logout is open
  page,        \* _current_page
  built,       \* the level each cached page was built for, or "none"
  posted,      \* callbacks of the watcher in _ui_queue
  moves,       \* what the user did that the bounds count
  late,        \* history: restarts of _session_timer since it fired
  stray        \* history: the watcher was started without a level

copies == <<level, role, sbRole>>
clock == <<age, sinceCheck, late>>
dialogVars == <<dialogs, overlay, asking>>
pageVars == <<page, built>>
accessVars == <<copies, clock, dialogVars, pageVars, posted, moves, stray>>
vars == <<watcherVars, accessVars>>

-----------------------------------------------------------------------------
Levels == {"user", "tecnico", "admin"}

(* The pages that look different for different levels; "home" stands for  *)
(* those that do not.                                                     *)
Restricted == {"topology", "manutencao"}
Pages == Restricted \cup {"home"}

Init ==
  /\ WatcherInit
  /\ level = "user" /\ role = "user" /\ sbRole = "user"
  /\ age = 0 /\ sinceCheck = 0 /\ late = 0
  /\ dialogs = 0 /\ overlay = FALSE /\ asking = FALSE
  /\ page = "home"
  /\ built = [p \in Restricted |-> "none"]
  /\ posted = 0
  /\ moves = 0
  /\ stray = FALSE

(* Slip: the role is set without counting as activity. *)
SetLevel_Stale(l) ==
  /\ level' = l /\ role' = l /\ sbRole' = l
  /\ UNCHANGED age

(* set_role() counts as activity. *)
SetLevel(l) ==
  /\ level' = l /\ role' = l /\ sbRole' = l
  /\ age' = 0

(* Slip: the topology is left to its next visit, which finds it cached. *)
Rebuilt_Current(pages, l) ==
  [p \in Restricted |-> IF p = page THEN l ELSE built[p]]

(* _rebuild_page() of some pages: the one shown is built at once, the others *)
(* are dropped, to be built when they are shown.                             *)
Rebuilt(pages, l) ==
  [p \in Restricted |->
     IF p \notin pages THEN built[p] ELSE IF p = page THEN l ELSE "none"]

Counted ==
  /\ moves < MaxMoves
  /\ moves' = moves + 1

Free == ~asking /\ ~down

-----------------------------------------------------------------------------
(* Logging in and out *)

OpenDialog ==
  /\ Free /\ level = "user" /\ ~overlay
  /\ dialogs < MaxDialogs
  /\ dialogs' = dialogs + 1 /\ overlay' = TRUE
  /\ UNCHANGED <<watcherVars, copies, clock, asking, pageVars, posted, moves, stray>>

(* The result of a failed attempt is reported, with the dialog still open. *)
AttemptFails ==
  /\ Free /\ dialogs > 0
  /\ overlay' = FALSE
  /\ UNCHANGED <<watcherVars, copies, clock, dialogs, asking, pageVars, posted, moves, stray>>

CloseDialog ==
  /\ Free /\ dialogs > 0
  /\ dialogs' = dialogs - 1
  /\ overlay' \in {overlay, FALSE}
  /\ UNCHANGED <<watcherVars, copies, clock, asking, pageVars, posted, moves, stray>>

Login(l) ==
  /\ Free /\ dialogs > 0 /\ l # "user"
  /\ Counted
  /\ SetLevel(l)
  /\ dialogs' = dialogs - 1 /\ overlay' = FALSE
  /\ built' = Rebuilt({page, "topology"}, l)
  /\ IF l = "tecnico"
     THEN StartWatcher /\ UNCHANGED stray
     ELSE StopWatcher /\ stray' = FALSE
  /\ UNCHANGED <<sinceCheck, late, asking, page, posted>>

AskLogout ==
  /\ Free /\ level # "user"
  /\ asking' = TRUE
  /\ UNCHANGED <<watcherVars, copies, clock, dialogs, overlay, pageVars, posted, moves, stray>>

Stay ==
  /\ asking
  /\ asking' = FALSE
  /\ UNCHANGED <<watcherVars, copies, clock, dialogs, overlay, pageVars, posted, moves, stray>>

(* The level may have expired while the question was open. *)
Logout ==
  /\ asking
  /\ asking' = FALSE
  /\ SetLevel("user")
  /\ StopWatcher /\ stray' = FALSE
  /\ built' = Rebuilt({page, "topology"}, "user")
  /\ UNCHANGED <<sinceCheck, late, dialogs, overlay, page, posted, moves>>

-----------------------------------------------------------------------------
(* Inactivity *)

(* The tracker hears of activity, and does not look whether it comes late. *)
Touch ==
  /\ Free
  /\ age' = 0
  /\ UNCHANGED <<watcherVars, copies, sinceCheck, late, dialogVars, pageVars, posted, moves, stray>>

Expired == age > Timeout /\ role # "user"

(* Slip: the watcher goes on. *)
CheckTimeout_Watching ==
  /\ ~down /\ sinceCheck >= Period
  /\ sinceCheck' = 0 /\ late' = 0
  /\ IF level # "user" /\ Expired
     THEN /\ level' = "user" /\ role' = "user" /\ sbRole' = "user"
          /\ built' = Rebuilt({"topology"}, "user")
     ELSE UNCHANGED <<copies, built>>
  /\ UNCHANGED <<watcherVars, stray, age, dialogVars, page, posted, moves>>

(* _check_session_timeout: the tracker's role is lowered when it is read. *)
CheckTimeout ==
  /\ ~down /\ sinceCheck >= Period
  /\ sinceCheck' = 0 /\ late' = 0
  /\ IF level # "user" /\ Expired
     THEN /\ level' = "user" /\ role' = "user" /\ sbRole' = "user"
          /\ StopWatcher /\ stray' = FALSE
          /\ built' = Rebuilt({"topology"}, "user")
     ELSE UNCHANGED <<copies, watcherVars, stray, built>>
  /\ UNCHANGED <<age, dialogVars, page, posted, moves>>

(* The timer fires on time.  Past the age at which anything can depend on it, *)
(* inactivity is not counted.                                                 *)
MaxAge == Timeout + Period * (MaxMoves + 1) + 1

Pass ==
  /\ ~down /\ sinceCheck < Period
  /\ sinceCheck' = sinceCheck + 1
  /\ age' = IF age < MaxAge THEN age + 1 ELSE age
  /\ UNCHANGED <<watcherVars, copies, late, dialogVars, pageVars, posted, moves, stray>>

-----------------------------------------------------------------------------
(* Pages *)

ShowPage(p) ==
  /\ Free
  /\ page' = p
  /\ built' = [q \in Restricted |-> IF q = p /\ built[q] = "none" THEN level ELSE built[q]]
  /\ UNCHANGED <<watcherVars, copies, clock, dialogVars, posted, moves, stray>>

(* A change of theme: every page and dialog goes, and the timers start anew. *)
ChangeTheme ==
  /\ Free /\ Counted
  /\ built' = Rebuilt(Restricted, level)
  /\ dialogs' = 0 /\ overlay' = FALSE
  /\ posted' = 0
  /\ sinceCheck' = 0 /\ late' = late + 1
  /\ RestartWatcher
  /\ stray' = (stray /\ active)
  /\ UNCHANGED <<copies, age, asking, page>>

(* The button of the maintenance page, which a page built for "user" lacks. *)
ToggleWatcher ==
  /\ Free /\ page = "manutencao" /\ built[page] # "user"
  /\ Counted
  /\ IF active
     THEN StopWatcher /\ stray' = FALSE
     ELSE StartWatcher /\ stray' = (level = "user")
  /\ UNCHANGED <<copies, clock, dialogVars, pageVars, posted>>

-----------------------------------------------------------------------------
(* The watcher's own steps *)

Tick ==
  /\ TickWatcher
  /\ UNCHANGED accessVars

Begin ==
  /\ ScanBegins
  /\ UNCHANGED accessVars

(* Results that differ from the last ones are announced to the GUI, whose *)
(* queue may be full.                                                     *)
End ==
  /\ ScanEnds
  /\ posted' \in {posted} \cup (IF posted < UiMax THEN {posted + 1} ELSE {})
  /\ UNCHANGED <<copies, clock, dialogVars, pageVars, moves, stray>>

(* _rebuild_manutencao_if_active, from _poll_queue *)
ShowResults ==
  /\ ~down /\ posted > 0
  /\ posted' = posted - 1
  /\ built' = IF page = "manutencao" THEN Rebuilt({page}, level) ELSE built
  /\ UNCHANGED <<watcherVars, copies, clock, dialogVars, page, moves, stray>>

(* closeEvent: the timers stop, and the scans that wait are made nevertheless. *)
Close ==
  /\ Free
  /\ ShutdownWatcher
  /\ stray' = FALSE
  /\ UNCHANGED <<copies, clock, dialogVars, pageVars, posted, moves>>

-----------------------------------------------------------------------------
Next ==
  \/ OpenDialog \/ AttemptFails \/ CloseDialog
  \/ \E l \in Levels : Login(l)
  \/ AskLogout \/ Stay \/ Logout
  \/ Touch \/ CheckTimeout \/ Pass
  \/ \E p \in Pages : ShowPage(p)
  \/ ChangeTheme \/ ToggleWatcher
  \/ Tick \/ Begin \/ End \/ ShowResults
  \/ Close

Spec == Init /\ [][Next]_vars

(* The watcher's timer fires while it is armed, and every scan ends: it reads *)
(* the files of the project and waits for nobody.                             *)
Fairness == WF_vars(Tick) /\ WF_vars(Begin) /\ WF_vars(End)

FairSpec == Spec /\ Fairness

-----------------------------------------------------------------------------
AccessTypes ==
  /\ {level, role, sbRole} \subseteq Levels
  /\ age \in Nat /\ sinceCheck \in 0 .. Period /\ late \in Nat
  /\ dialogs \in Nat /\ overlay \in BOOLEAN /\ asking \in BOOLEAN
  /\ page \in Pages
  /\ built \in [Restricted -> Levels \cup {"none"}]
  /\ posted \in 0 .. UiMax
  /\ moves \in Nat
  /\ stray \in BOOLEAN

TypeOK == WatcherTypes /\ AccessTypes

(* A level is lost at the latest one period after its timeout: whoever has    *)
(* one was active within Timeout and the time since the last check.  Each     *)
(* change of theme postpones that check by up to a period.                    *)
IdleBounded == level # "user" => age <= Timeout + sinceCheck + late * Period

(* The topology page, with its buttons to add, edit and delete devices, is    *)
(* never shown or cached for a level other than the current one.              *)
TopologyFresh == built["topology"] \in {"none", level}

(* The watcher watches for somebody who has a level: logging out and expiry   *)
(* stop it and no change of theme brings it back.  The exception is a toggle  *)
(* on a maintenance page that was built before the level was lost.            *)
WatchedBySomebody == active => level # "user" \/ stray

(* The strengthening of the properties above: the timeout reads another copy   *)
(* of the level than the pages.                                                *)
CopiesAgree == role = level /\ sbRole = level

AccessInv ==
  /\ AccessTypes /\ WatcherInv
  /\ CopiesAgree /\ IdleBounded /\ TopologyFresh /\ WatchedBySomebody
=============================================================================
