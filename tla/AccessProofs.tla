---------------------------- MODULE AccessProofs -----------------------------
(***************************************************************************)
(* Proofs about Access and the Watcher within it, for any timeout, period  *)
(* and bounds.                                                             *)
(***************************************************************************)
EXTENDS Access, TLAPS

(* Every operation of the watcher keeps its invariant. *)
LEMMA StartWatcherKeeps == WatcherInv /\ StartWatcher => WatcherInv'
<1>1. SUFFICES ASSUME WatcherInv, StartWatcher PROVE WatcherInv'
  OBVIOUS
<1>2. queued' \in Nat /\ forgotten' \in Nat
  BY <1>1 DEF StartWatcher, WatcherInv, WatcherTypes, watcherVars
<1>3. {active', scanning', running', down'} \subseteq BOOLEAN
  BY <1>1 DEF StartWatcher, WatcherInv, WatcherTypes, watcherVars
<1>4. FlagMeansActive'
  BY <1>1 DEF StartWatcher, WatcherInv, WatcherTypes, FlagMeansActive, watcherVars
<1>5. NoPileUp'
  <2>1. CASE active
    BY <1>1, <2>1 DEF StartWatcher, WatcherInv, WatcherTypes, NoPileUp, Pending, watcherVars
  <2>2. CASE ~active
    <3>1. scanning = FALSE
      BY <1>1, <2>2 DEF WatcherInv, WatcherTypes, FlagMeansActive
    <3> QED
      BY <1>1, <2>2, <3>1 DEF StartWatcher, WatcherInv, WatcherTypes, NoPileUp, Pending, watcherVars
  <2> QED
    BY <2>1, <2>2
<1> QED
  BY <1>2, <1>3, <1>4, <1>5 DEF WatcherInv, WatcherTypes

LEMMA StopWatcherKeeps == WatcherInv /\ StopWatcher => WatcherInv'
<1>1. SUFFICES ASSUME WatcherInv, StopWatcher PROVE WatcherInv'
  OBVIOUS
<1>2. queued' \in Nat /\ forgotten' \in Nat
  BY <1>1 DEF StopWatcher, WatcherInv, WatcherTypes
<1>3. {active', scanning', running', down'} \subseteq BOOLEAN
  BY <1>1 DEF StopWatcher, WatcherInv, WatcherTypes
<1>4. FlagMeansActive'
  BY <1>1 DEF StopWatcher, WatcherInv, WatcherTypes, FlagMeansActive
<1>5. NoPileUp'
  BY <1>1 DEF StopWatcher, WatcherInv, WatcherTypes, NoPileUp, Pending
<1> QED
  BY <1>2, <1>3, <1>4, <1>5 DEF WatcherInv, WatcherTypes

LEMMA RestartWatcherKeeps == WatcherInv /\ RestartWatcher => WatcherInv'
<1>1. SUFFICES ASSUME WatcherInv, RestartWatcher PROVE WatcherInv'
  OBVIOUS
<1>2. queued' \in Nat /\ forgotten' \in Nat
  BY <1>1 DEF RestartWatcher, WatcherInv, WatcherTypes, StopWatcher
<1>3. {active', scanning', running', down'} \subseteq BOOLEAN
  BY <1>1 DEF RestartWatcher, WatcherInv, WatcherTypes, StopWatcher
<1>4. FlagMeansActive'
  BY <1>1 DEF RestartWatcher, WatcherInv, WatcherTypes, FlagMeansActive, StopWatcher
<1>5. NoPileUp'
  <2>1. CASE active
    BY <1>1, <2>1 DEF RestartWatcher, WatcherInv, WatcherTypes, NoPileUp, Pending, StopWatcher
  <2>2. CASE ~active
    <3>1. scanning = FALSE
      BY <1>1, <2>2 DEF WatcherInv, WatcherTypes, FlagMeansActive
    <3> QED
      BY <1>1, <2>2, <3>1 DEF RestartWatcher, WatcherInv, WatcherTypes, NoPileUp, Pending, StopWatcher
  <2> QED
    BY <2>1, <2>2
<1> QED
  BY <1>2, <1>3, <1>4, <1>5 DEF WatcherInv, WatcherTypes

LEMMA ShutdownWatcherKeeps == WatcherInv /\ ShutdownWatcher => WatcherInv'
<1>1. SUFFICES ASSUME WatcherInv, ShutdownWatcher PROVE WatcherInv'
  OBVIOUS
<1>2. queued' \in Nat /\ forgotten' \in Nat
  BY <1>1 DEF ShutdownWatcher, WatcherInv, WatcherTypes
<1>3. {active', scanning', running', down'} \subseteq BOOLEAN
  BY <1>1 DEF ShutdownWatcher, WatcherInv, WatcherTypes
<1>4. FlagMeansActive'
  BY <1>1 DEF ShutdownWatcher, WatcherInv, WatcherTypes, FlagMeansActive
<1>5. NoPileUp'
  BY <1>1 DEF ShutdownWatcher, WatcherInv, WatcherTypes, NoPileUp, Pending
<1> QED
  BY <1>2, <1>3, <1>4, <1>5 DEF WatcherInv, WatcherTypes

LEMMA TickWatcherKeeps == WatcherInv /\ TickWatcher => WatcherInv'
<1>1. SUFFICES ASSUME WatcherInv, TickWatcher PROVE WatcherInv'
  OBVIOUS
<1>2. queued' \in Nat /\ forgotten' \in Nat
  BY <1>1 DEF TickWatcher, WatcherInv, WatcherTypes
<1>3. {active', scanning', running', down'} \subseteq BOOLEAN
  BY <1>1 DEF TickWatcher, WatcherInv, WatcherTypes
<1>4. FlagMeansActive'
  BY <1>1 DEF TickWatcher, WatcherInv, WatcherTypes, FlagMeansActive
<1>5. NoPileUp'
  BY <1>1 DEF TickWatcher, WatcherInv, WatcherTypes, NoPileUp, Pending
<1> QED
  BY <1>2, <1>3, <1>4, <1>5 DEF WatcherInv, WatcherTypes

LEMMA ScanBeginsKeeps == WatcherInv /\ ScanBegins => WatcherInv'
<1>1. SUFFICES ASSUME WatcherInv, ScanBegins PROVE WatcherInv'
  OBVIOUS
<1>2. queued' \in Nat /\ forgotten' \in Nat
  BY <1>1 DEF ScanBegins, WatcherInv, WatcherTypes
<1>3. {active', scanning', running', down'} \subseteq BOOLEAN
  BY <1>1 DEF ScanBegins, WatcherInv, WatcherTypes
<1>4. FlagMeansActive'
  BY <1>1 DEF ScanBegins, WatcherInv, WatcherTypes, FlagMeansActive
<1>5. NoPileUp'
  BY <1>1 DEF ScanBegins, WatcherInv, WatcherTypes, NoPileUp, Pending
<1> QED
  BY <1>2, <1>3, <1>4, <1>5 DEF WatcherInv, WatcherTypes

LEMMA ScanEndsKeeps == WatcherInv /\ ScanEnds => WatcherInv'
<1>1. SUFFICES ASSUME WatcherInv, ScanEnds PROVE WatcherInv'
  OBVIOUS
<1>2. queued' \in Nat /\ forgotten' \in Nat
  BY <1>1 DEF ScanEnds, WatcherInv, WatcherTypes
<1>3. {active', scanning', running', down'} \subseteq BOOLEAN
  BY <1>1 DEF ScanEnds, WatcherInv, WatcherTypes
<1>4. FlagMeansActive'
  BY <1>1 DEF ScanEnds, WatcherInv, WatcherTypes, FlagMeansActive
<1>5. NoPileUp'
  BY <1>1 DEF ScanEnds, WatcherInv, WatcherTypes, NoPileUp, Pending
<1> QED
  BY <1>2, <1>3, <1>4, <1>5 DEF WatcherInv, WatcherTypes

(* So does every step, which does one of them or leaves the watcher alone. *)
LEMMA WatcherStep == WatcherInv /\ [Next]_vars => WatcherInv'
<1>1. SUFFICES ASSUME WatcherInv, [Next]_vars PROVE WatcherInv'
  OBVIOUS
<1>2. ASSUME UNCHANGED watcherVars PROVE WatcherInv'
  BY <1>1, <1>2 DEF watcherVars, WatcherInv, WatcherTypes, FlagMeansActive, NoPileUp, Pending
<1>OpenDialog. ASSUME OpenDialog PROVE WatcherInv'
  BY <1>1, <1>2, <1>OpenDialog DEF OpenDialog
<1>AttemptFails. ASSUME AttemptFails PROVE WatcherInv'
  BY <1>1, <1>2, <1>AttemptFails DEF AttemptFails
<1>CloseDialog. ASSUME CloseDialog PROVE WatcherInv'
  BY <1>1, <1>2, <1>CloseDialog DEF CloseDialog
<1>Login. ASSUME NEW l \in Levels, Login(l) PROVE WatcherInv'
  BY <1>1, <1>2, <1>Login, StartWatcherKeeps, StopWatcherKeeps DEF Login
<1>AskLogout. ASSUME AskLogout PROVE WatcherInv'
  BY <1>1, <1>2, <1>AskLogout DEF AskLogout
<1>Stay. ASSUME Stay PROVE WatcherInv'
  BY <1>1, <1>2, <1>Stay DEF Stay
<1>Logout. ASSUME Logout PROVE WatcherInv'
  BY <1>1, <1>Logout, StopWatcherKeeps DEF Logout
<1>Touch. ASSUME Touch PROVE WatcherInv'
  BY <1>1, <1>2, <1>Touch DEF Touch
<1>CheckTimeout. ASSUME CheckTimeout PROVE WatcherInv'
  BY <1>1, <1>2, <1>CheckTimeout, StopWatcherKeeps DEF CheckTimeout
<1>Pass. ASSUME Pass PROVE WatcherInv'
  BY <1>1, <1>2, <1>Pass DEF Pass
<1>ShowPage. ASSUME NEW p \in Pages, ShowPage(p) PROVE WatcherInv'
  BY <1>1, <1>2, <1>ShowPage DEF ShowPage
<1>ChangeTheme. ASSUME ChangeTheme PROVE WatcherInv'
  BY <1>1, <1>ChangeTheme, RestartWatcherKeeps DEF ChangeTheme
<1>ToggleWatcher. ASSUME ToggleWatcher PROVE WatcherInv'
  BY <1>1, <1>2, <1>ToggleWatcher, StartWatcherKeeps, StopWatcherKeeps DEF ToggleWatcher
<1>Tick. ASSUME Tick PROVE WatcherInv'
  BY <1>1, <1>Tick, TickWatcherKeeps DEF Tick
<1>Begin. ASSUME Begin PROVE WatcherInv'
  BY <1>1, <1>Begin, ScanBeginsKeeps DEF Begin
<1>End. ASSUME End PROVE WatcherInv'
  BY <1>1, <1>End, ScanEndsKeeps DEF End
<1>ShowResults. ASSUME ShowResults PROVE WatcherInv'
  BY <1>1, <1>2, <1>ShowResults DEF ShowResults
<1>Close. ASSUME Close PROVE WatcherInv'
  BY <1>1, <1>Close, ShutdownWatcherKeeps DEF Close
<1>Stutter. ASSUME UNCHANGED vars PROVE WatcherInv'
  BY <1>1, <1>2, <1>Stutter DEF vars
<1> QED
  BY <1>1, <1>OpenDialog, <1>AttemptFails, <1>CloseDialog, <1>Login, <1>AskLogout, <1>Stay,
     <1>Logout, <1>Touch, <1>CheckTimeout, <1>Pass, <1>ShowPage, <1>ChangeTheme,
     <1>ToggleWatcher, <1>Tick, <1>Begin, <1>End, <1>ShowResults, <1>Close, <1>Stutter DEF Next

(* Every step keeps the types. *)
LEMMA TypeStep == AccessTypes /\ [Next]_vars => AccessTypes'
<1>1. SUFFICES ASSUME AccessTypes, [Next]_vars PROVE AccessTypes'
  OBVIOUS
<1>2. USE AccessAssumption DEF AccessTypes, Levels, Restricted, Pages, MaxAge
<1>OpenDialog. ASSUME OpenDialog PROVE AccessTypes'
  BY <1>1, <1>OpenDialog DEF OpenDialog, copies, clock, dialogVars, pageVars, accessVars,
     watcherVars
<1>AttemptFails. ASSUME AttemptFails PROVE AccessTypes'
  BY <1>1, <1>AttemptFails DEF AttemptFails, copies, clock, dialogVars, pageVars, accessVars,
     watcherVars
<1>CloseDialog. ASSUME CloseDialog PROVE AccessTypes'
  <2>1. /\ age' \in Nat /\ sinceCheck' \in 0 .. Period /\ late' \in Nat
        /\ dialogs' \in Nat /\ posted' \in 0 .. UiMax /\ moves' \in Nat
    BY <1>1, <1>CloseDialog DEF CloseDialog, copies, clock, dialogVars, pageVars, accessVars,
     watcherVars
  <2>2. /\ overlay' \in BOOLEAN /\ asking' \in BOOLEAN /\ stray' \in BOOLEAN
        /\ page' \in Pages /\ {level', role', sbRole'} \subseteq Levels
    BY <1>1, <1>CloseDialog DEF CloseDialog, copies, clock, dialogVars, pageVars, accessVars,
     watcherVars
  <2>3. built' \in [Restricted -> Levels \cup {"none"}]
    BY <1>1, <1>CloseDialog DEF CloseDialog, copies, clock, dialogVars, pageVars, accessVars,
     watcherVars
  <2> QED
    BY <2>1, <2>2, <2>3
<1>Login. ASSUME NEW l \in Levels, Login(l) PROVE AccessTypes'
  <2>1. /\ age' \in Nat /\ sinceCheck' \in 0 .. Period /\ late' \in Nat
        /\ dialogs' \in Nat /\ posted' \in 0 .. UiMax /\ moves' \in Nat
    BY <1>1, <1>Login DEF Login, StartWatcher, StopWatcher, SetLevel, Rebuilt, Counted, copies,
     clock, dialogVars, pageVars, accessVars, watcherVars
  <2>2. /\ overlay' \in BOOLEAN /\ asking' \in BOOLEAN /\ stray' \in BOOLEAN
        /\ page' \in Pages /\ {level', role', sbRole'} \subseteq Levels
    BY <1>1, <1>Login DEF Login, StartWatcher, StopWatcher, SetLevel, Rebuilt, Counted, copies,
     clock, dialogVars, pageVars, accessVars, watcherVars
  <2>3. built' \in [Restricted -> Levels \cup {"none"}]
    BY <1>1, <1>Login DEF Login, StartWatcher, StopWatcher, SetLevel, Rebuilt, Counted, copies,
     clock, dialogVars, pageVars, accessVars, watcherVars
  <2> QED
    BY <2>1, <2>2, <2>3
<1>AskLogout. ASSUME AskLogout PROVE AccessTypes'
  BY <1>1, <1>AskLogout DEF AskLogout, copies, clock, dialogVars, pageVars, accessVars, watcherVars
<1>Stay. ASSUME Stay PROVE AccessTypes'
  BY <1>1, <1>Stay DEF Stay, copies, clock, dialogVars, pageVars, accessVars, watcherVars
<1>Logout. ASSUME Logout PROVE AccessTypes'
  BY <1>1, <1>Logout DEF Logout, StopWatcher, SetLevel, Rebuilt, copies, clock, dialogVars,
     pageVars, accessVars, watcherVars
<1>Touch. ASSUME Touch PROVE AccessTypes'
  BY <1>1, <1>Touch DEF Touch, copies, clock, dialogVars, pageVars, accessVars, watcherVars
<1>CheckTimeout. ASSUME CheckTimeout PROVE AccessTypes'
  <2>1. /\ age' \in Nat /\ sinceCheck' \in 0 .. Period /\ late' \in Nat
        /\ dialogs' \in Nat /\ posted' \in 0 .. UiMax /\ moves' \in Nat
    BY <1>1, <1>CheckTimeout DEF CheckTimeout, StopWatcher, Rebuilt, Expired, copies, clock,
     dialogVars, pageVars, accessVars, watcherVars
  <2>2. /\ overlay' \in BOOLEAN /\ asking' \in BOOLEAN /\ stray' \in BOOLEAN
        /\ page' \in Pages /\ {level', role', sbRole'} \subseteq Levels
    BY <1>1, <1>CheckTimeout DEF CheckTimeout, StopWatcher, Rebuilt, Expired, copies, clock,
     dialogVars, pageVars, accessVars, watcherVars
  <2>3. built' \in [Restricted -> Levels \cup {"none"}]
    BY <1>1, <1>CheckTimeout DEF CheckTimeout, StopWatcher, Rebuilt, Expired, copies, clock,
     dialogVars, pageVars, accessVars, watcherVars
  <2> QED
    BY <2>1, <2>2, <2>3
<1>Pass. ASSUME Pass PROVE AccessTypes'
  BY <1>1, <1>Pass DEF Pass, copies, clock, dialogVars, pageVars, accessVars, watcherVars
<1>ShowPage. ASSUME NEW p \in Pages, ShowPage(p) PROVE AccessTypes'
  BY <1>1, <1>ShowPage DEF ShowPage, copies, clock, dialogVars, pageVars, accessVars, watcherVars
<1>ChangeTheme. ASSUME ChangeTheme PROVE AccessTypes'
  <2>1. /\ age' \in Nat /\ sinceCheck' \in 0 .. Period /\ late' \in Nat
        /\ dialogs' \in Nat /\ posted' \in 0 .. UiMax /\ moves' \in Nat
    BY <1>1, <1>ChangeTheme DEF ChangeTheme, RestartWatcher, StopWatcher, Rebuilt, Counted,
     copies, clock, dialogVars, pageVars, accessVars, watcherVars
  <2>2. /\ overlay' \in BOOLEAN /\ asking' \in BOOLEAN /\ stray' \in BOOLEAN
        /\ page' \in Pages /\ {level', role', sbRole'} \subseteq Levels
    BY <1>1, <1>ChangeTheme DEF ChangeTheme, RestartWatcher, StopWatcher, Rebuilt, Counted,
     copies, clock, dialogVars, pageVars, accessVars, watcherVars
  <2>3. built' \in [Restricted -> Levels \cup {"none"}]
    BY <1>1, <1>ChangeTheme DEF ChangeTheme, RestartWatcher, StopWatcher, Rebuilt, Counted,
     copies, clock, dialogVars, pageVars, accessVars, watcherVars
  <2> QED
    BY <2>1, <2>2, <2>3
<1>ToggleWatcher. ASSUME ToggleWatcher PROVE AccessTypes'
  <2>1. /\ age' \in Nat /\ sinceCheck' \in 0 .. Period /\ late' \in Nat
        /\ dialogs' \in Nat /\ posted' \in 0 .. UiMax /\ moves' \in Nat
    BY <1>1, <1>ToggleWatcher DEF ToggleWatcher, StartWatcher, StopWatcher, Counted, copies,
     clock, dialogVars, pageVars, accessVars, watcherVars
  <2>2. /\ overlay' \in BOOLEAN /\ asking' \in BOOLEAN /\ stray' \in BOOLEAN
        /\ page' \in Pages /\ {level', role', sbRole'} \subseteq Levels
    BY <1>1, <1>ToggleWatcher DEF ToggleWatcher, StartWatcher, StopWatcher, Counted, copies,
     clock, dialogVars, pageVars, accessVars, watcherVars
  <2>3. built' \in [Restricted -> Levels \cup {"none"}]
    BY <1>1, <1>ToggleWatcher DEF ToggleWatcher, StartWatcher, StopWatcher, Counted, copies,
     clock, dialogVars, pageVars, accessVars, watcherVars
  <2> QED
    BY <2>1, <2>2, <2>3
<1>Tick. ASSUME Tick PROVE AccessTypes'
  BY <1>1, <1>Tick DEF Tick, TickWatcher, copies, clock, dialogVars, pageVars, accessVars,
     watcherVars
<1>Begin. ASSUME Begin PROVE AccessTypes'
  BY <1>1, <1>Begin DEF Begin, ScanBegins, copies, clock, dialogVars, pageVars, accessVars,
     watcherVars
<1>End. ASSUME End PROVE AccessTypes'
  BY <1>1, <1>End DEF End, ScanEnds, copies, clock, dialogVars, pageVars, accessVars, watcherVars
<1>ShowResults. ASSUME ShowResults PROVE AccessTypes'
  BY <1>1, <1>ShowResults DEF ShowResults, Rebuilt, copies, clock, dialogVars, pageVars,
     accessVars, watcherVars
<1>Close. ASSUME Close PROVE AccessTypes'
  BY <1>1, <1>Close DEF Close, ShutdownWatcher, copies, clock, dialogVars, pageVars, accessVars,
     watcherVars
<1>Stutter. ASSUME UNCHANGED vars PROVE AccessTypes'
  BY <1>1, <1>Stutter DEF vars, copies, clock, dialogVars, pageVars, accessVars, watcherVars
<1> QED
  BY <1>1, <1>OpenDialog, <1>AttemptFails, <1>CloseDialog, <1>Login, <1>AskLogout, <1>Stay,
     <1>Logout, <1>Touch, <1>CheckTimeout, <1>Pass, <1>ShowPage, <1>ChangeTheme,
     <1>ToggleWatcher, <1>Tick, <1>Begin, <1>End, <1>ShowResults, <1>Close, <1>Stutter DEF Next

(* Every handler that changes the level changes all copies. *)
LEMMA CopiesStep == CopiesAgree /\ [Next]_vars => CopiesAgree'
<1>1. SUFFICES ASSUME CopiesAgree, [Next]_vars PROVE CopiesAgree'
  OBVIOUS
<1>2. USE AccessAssumption DEF CopiesAgree
<1>OpenDialog. ASSUME OpenDialog PROVE CopiesAgree'
  BY <1>1, <1>OpenDialog DEF OpenDialog, copies, clock, dialogVars, pageVars, accessVars,
     watcherVars
<1>AttemptFails. ASSUME AttemptFails PROVE CopiesAgree'
  BY <1>1, <1>AttemptFails DEF AttemptFails, copies, clock, dialogVars, pageVars, accessVars,
     watcherVars
<1>CloseDialog. ASSUME CloseDialog PROVE CopiesAgree'
  BY <1>1, <1>CloseDialog DEF CloseDialog, copies, clock, dialogVars, pageVars, accessVars,
     watcherVars
<1>Login. ASSUME NEW l \in Levels, Login(l) PROVE CopiesAgree'
  BY <1>1, <1>Login DEF Login, StartWatcher, StopWatcher, SetLevel, Rebuilt, Counted, copies,
     clock, dialogVars, pageVars, accessVars, watcherVars
<1>AskLogout. ASSUME AskLogout PROVE CopiesAgree'
  BY <1>1, <1>AskLogout DEF AskLogout, copies, clock, dialogVars, pageVars, accessVars, watcherVars
<1>Stay. ASSUME Stay PROVE CopiesAgree'
  BY <1>1, <1>Stay DEF Stay, copies, clock, dialogVars, pageVars, accessVars, watcherVars
<1>Logout. ASSUME Logout PROVE CopiesAgree'
  BY <1>1, <1>Logout DEF Logout, StopWatcher, SetLevel, Rebuilt, copies, clock, dialogVars,
     pageVars, accessVars, watcherVars
<1>Touch. ASSUME Touch PROVE CopiesAgree'
  BY <1>1, <1>Touch DEF Touch, copies, clock, dialogVars, pageVars, accessVars, watcherVars
<1>CheckTimeout. ASSUME CheckTimeout PROVE CopiesAgree'
  BY <1>1, <1>CheckTimeout DEF CheckTimeout, StopWatcher, Rebuilt, Expired, copies, clock,
     dialogVars, pageVars, accessVars, watcherVars
<1>Pass. ASSUME Pass PROVE CopiesAgree'
  BY <1>1, <1>Pass DEF Pass, copies, clock, dialogVars, pageVars, accessVars, watcherVars
<1>ShowPage. ASSUME NEW p \in Pages, ShowPage(p) PROVE CopiesAgree'
  BY <1>1, <1>ShowPage DEF ShowPage, copies, clock, dialogVars, pageVars, accessVars, watcherVars
<1>ChangeTheme. ASSUME ChangeTheme PROVE CopiesAgree'
  BY <1>1, <1>ChangeTheme DEF ChangeTheme, RestartWatcher, StopWatcher, Rebuilt, Counted,
     copies, clock, dialogVars, pageVars, accessVars, watcherVars
<1>ToggleWatcher. ASSUME ToggleWatcher PROVE CopiesAgree'
  BY <1>1, <1>ToggleWatcher DEF ToggleWatcher, StartWatcher, StopWatcher, Counted, copies,
     clock, dialogVars, pageVars, accessVars, watcherVars
<1>Tick. ASSUME Tick PROVE CopiesAgree'
  BY <1>1, <1>Tick DEF Tick, TickWatcher, copies, clock, dialogVars, pageVars, accessVars,
     watcherVars
<1>Begin. ASSUME Begin PROVE CopiesAgree'
  BY <1>1, <1>Begin DEF Begin, ScanBegins, copies, clock, dialogVars, pageVars, accessVars,
     watcherVars
<1>End. ASSUME End PROVE CopiesAgree'
  BY <1>1, <1>End DEF End, ScanEnds, copies, clock, dialogVars, pageVars, accessVars, watcherVars
<1>ShowResults. ASSUME ShowResults PROVE CopiesAgree'
  BY <1>1, <1>ShowResults DEF ShowResults, Rebuilt, copies, clock, dialogVars, pageVars,
     accessVars, watcherVars
<1>Close. ASSUME Close PROVE CopiesAgree'
  BY <1>1, <1>Close DEF Close, ShutdownWatcher, copies, clock, dialogVars, pageVars, accessVars,
     watcherVars
<1>Stutter. ASSUME UNCHANGED vars PROVE CopiesAgree'
  BY <1>1, <1>Stutter DEF vars, copies, clock, dialogVars, pageVars, accessVars, watcherVars
<1> QED
  BY <1>1, <1>OpenDialog, <1>AttemptFails, <1>CloseDialog, <1>Login, <1>AskLogout, <1>Stay,
     <1>Logout, <1>Touch, <1>CheckTimeout, <1>Pass, <1>ShowPage, <1>ChangeTheme,
     <1>ToggleWatcher, <1>Tick, <1>Begin, <1>End, <1>ShowResults, <1>Close, <1>Stutter DEF Next

(* The check lowers a level that is too old, and a change of theme postpones it
   by at most the period that had passed. *)
LEMMA IdleStep == AccessTypes /\ CopiesAgree /\ IdleBounded /\ [Next]_vars => IdleBounded'
<1>1. SUFFICES ASSUME AccessTypes /\ CopiesAgree /\ IdleBounded, [Next]_vars PROVE IdleBounded'
  OBVIOUS
<1>2. USE AccessAssumption DEF AccessTypes, CopiesAgree, IdleBounded, MaxAge
<1>OpenDialog. ASSUME OpenDialog PROVE IdleBounded'
  BY <1>1, <1>OpenDialog DEF OpenDialog, copies, clock, dialogVars, pageVars, accessVars,
     watcherVars
<1>AttemptFails. ASSUME AttemptFails PROVE IdleBounded'
  BY <1>1, <1>AttemptFails DEF AttemptFails, copies, clock, dialogVars, pageVars, accessVars,
     watcherVars
<1>CloseDialog. ASSUME CloseDialog PROVE IdleBounded'
  BY <1>1, <1>CloseDialog DEF CloseDialog, copies, clock, dialogVars, pageVars, accessVars,
     watcherVars
<1>Login. ASSUME NEW l \in Levels, Login(l) PROVE IdleBounded'
  BY <1>1, <1>Login DEF Login, StartWatcher, StopWatcher, SetLevel, Rebuilt, Counted, copies,
     clock, dialogVars, pageVars, accessVars, watcherVars
<1>AskLogout. ASSUME AskLogout PROVE IdleBounded'
  BY <1>1, <1>AskLogout DEF AskLogout, copies, clock, dialogVars, pageVars, accessVars, watcherVars
<1>Stay. ASSUME Stay PROVE IdleBounded'
  BY <1>1, <1>Stay DEF Stay, copies, clock, dialogVars, pageVars, accessVars, watcherVars
<1>Logout. ASSUME Logout PROVE IdleBounded'
  BY <1>1, <1>Logout DEF Logout, StopWatcher, SetLevel, Rebuilt, copies, clock, dialogVars,
     pageVars, accessVars, watcherVars
<1>Touch. ASSUME Touch PROVE IdleBounded'
  BY <1>1, <1>Touch DEF Touch, copies, clock, dialogVars, pageVars, accessVars, watcherVars
<1>CheckTimeout. ASSUME CheckTimeout PROVE IdleBounded'
  BY <1>1, <1>CheckTimeout DEF CheckTimeout, StopWatcher, Rebuilt, Expired, copies, clock,
     dialogVars, pageVars, accessVars, watcherVars
<1>Pass. ASSUME Pass PROVE IdleBounded'
  BY <1>1, <1>Pass DEF Pass, copies, clock, dialogVars, pageVars, accessVars, watcherVars
<1>ShowPage. ASSUME NEW p \in Pages, ShowPage(p) PROVE IdleBounded'
  BY <1>1, <1>ShowPage DEF ShowPage, copies, clock, dialogVars, pageVars, accessVars, watcherVars
<1>ChangeTheme. ASSUME ChangeTheme PROVE IdleBounded'
  BY <1>1, <1>ChangeTheme DEF ChangeTheme, RestartWatcher, StopWatcher, Rebuilt, Counted,
     copies, clock, dialogVars, pageVars, accessVars, watcherVars
<1>ToggleWatcher. ASSUME ToggleWatcher PROVE IdleBounded'
  BY <1>1, <1>ToggleWatcher DEF ToggleWatcher, StartWatcher, StopWatcher, Counted, copies,
     clock, dialogVars, pageVars, accessVars, watcherVars
<1>Tick. ASSUME Tick PROVE IdleBounded'
  BY <1>1, <1>Tick DEF Tick, TickWatcher, copies, clock, dialogVars, pageVars, accessVars,
     watcherVars
<1>Begin. ASSUME Begin PROVE IdleBounded'
  BY <1>1, <1>Begin DEF Begin, ScanBegins, copies, clock, dialogVars, pageVars, accessVars,
     watcherVars
<1>End. ASSUME End PROVE IdleBounded'
  BY <1>1, <1>End DEF End, ScanEnds, copies, clock, dialogVars, pageVars, accessVars, watcherVars
<1>ShowResults. ASSUME ShowResults PROVE IdleBounded'
  BY <1>1, <1>ShowResults DEF ShowResults, Rebuilt, copies, clock, dialogVars, pageVars,
     accessVars, watcherVars
<1>Close. ASSUME Close PROVE IdleBounded'
  BY <1>1, <1>Close DEF Close, ShutdownWatcher, copies, clock, dialogVars, pageVars, accessVars,
     watcherVars
<1>Stutter. ASSUME UNCHANGED vars PROVE IdleBounded'
  BY <1>1, <1>Stutter DEF vars, copies, clock, dialogVars, pageVars, accessVars, watcherVars
<1> QED
  BY <1>1, <1>OpenDialog, <1>AttemptFails, <1>CloseDialog, <1>Login, <1>AskLogout, <1>Stay,
     <1>Logout, <1>Touch, <1>CheckTimeout, <1>Pass, <1>ShowPage, <1>ChangeTheme,
     <1>ToggleWatcher, <1>Tick, <1>Begin, <1>End, <1>ShowResults, <1>Close, <1>Stutter DEF Next

(* Every change of the level rebuilds the topology. *)
LEMMA TopologyStep == AccessTypes /\ TopologyFresh /\ [Next]_vars => TopologyFresh'
<1>1. SUFFICES ASSUME AccessTypes /\ TopologyFresh, [Next]_vars PROVE TopologyFresh'
  OBVIOUS
<1>2. USE AccessAssumption DEF AccessTypes, TopologyFresh, Restricted, Pages
<1>OpenDialog. ASSUME OpenDialog PROVE TopologyFresh'
  BY <1>1, <1>OpenDialog DEF OpenDialog, copies, clock, dialogVars, pageVars, accessVars,
     watcherVars
<1>AttemptFails. ASSUME AttemptFails PROVE TopologyFresh'
  BY <1>1, <1>AttemptFails DEF AttemptFails, copies, clock, dialogVars, pageVars, accessVars,
     watcherVars
<1>CloseDialog. ASSUME CloseDialog PROVE TopologyFresh'
  BY <1>1, <1>CloseDialog DEF CloseDialog, copies, clock, dialogVars, pageVars, accessVars,
     watcherVars
<1>Login. ASSUME NEW l \in Levels, Login(l) PROVE TopologyFresh'
  BY <1>1, <1>Login DEF Login, StartWatcher, StopWatcher, SetLevel, Rebuilt, Counted, copies,
     clock, dialogVars, pageVars, accessVars, watcherVars
<1>AskLogout. ASSUME AskLogout PROVE TopologyFresh'
  BY <1>1, <1>AskLogout DEF AskLogout, copies, clock, dialogVars, pageVars, accessVars, watcherVars
<1>Stay. ASSUME Stay PROVE TopologyFresh'
  BY <1>1, <1>Stay DEF Stay, copies, clock, dialogVars, pageVars, accessVars, watcherVars
<1>Logout. ASSUME Logout PROVE TopologyFresh'
  BY <1>1, <1>Logout DEF Logout, StopWatcher, SetLevel, Rebuilt, copies, clock, dialogVars,
     pageVars, accessVars, watcherVars
<1>Touch. ASSUME Touch PROVE TopologyFresh'
  BY <1>1, <1>Touch DEF Touch, copies, clock, dialogVars, pageVars, accessVars, watcherVars
<1>CheckTimeout. ASSUME CheckTimeout PROVE TopologyFresh'
  BY <1>1, <1>CheckTimeout DEF CheckTimeout, StopWatcher, Rebuilt, Expired, copies, clock,
     dialogVars, pageVars, accessVars, watcherVars
<1>Pass. ASSUME Pass PROVE TopologyFresh'
  BY <1>1, <1>Pass DEF Pass, copies, clock, dialogVars, pageVars, accessVars, watcherVars
<1>ShowPage. ASSUME NEW p \in Pages, ShowPage(p) PROVE TopologyFresh'
  BY <1>1, <1>ShowPage DEF ShowPage, copies, clock, dialogVars, pageVars, accessVars, watcherVars
<1>ChangeTheme. ASSUME ChangeTheme PROVE TopologyFresh'
  BY <1>1, <1>ChangeTheme DEF ChangeTheme, RestartWatcher, StopWatcher, Rebuilt, Counted,
     copies, clock, dialogVars, pageVars, accessVars, watcherVars
<1>ToggleWatcher. ASSUME ToggleWatcher PROVE TopologyFresh'
  BY <1>1, <1>ToggleWatcher DEF ToggleWatcher, StartWatcher, StopWatcher, Counted, copies,
     clock, dialogVars, pageVars, accessVars, watcherVars
<1>Tick. ASSUME Tick PROVE TopologyFresh'
  BY <1>1, <1>Tick DEF Tick, TickWatcher, copies, clock, dialogVars, pageVars, accessVars,
     watcherVars
<1>Begin. ASSUME Begin PROVE TopologyFresh'
  BY <1>1, <1>Begin DEF Begin, ScanBegins, copies, clock, dialogVars, pageVars, accessVars,
     watcherVars
<1>End. ASSUME End PROVE TopologyFresh'
  BY <1>1, <1>End DEF End, ScanEnds, copies, clock, dialogVars, pageVars, accessVars, watcherVars
<1>ShowResults. ASSUME ShowResults PROVE TopologyFresh'
  BY <1>1, <1>ShowResults DEF ShowResults, Rebuilt, copies, clock, dialogVars, pageVars,
     accessVars, watcherVars
<1>Close. ASSUME Close PROVE TopologyFresh'
  BY <1>1, <1>Close DEF Close, ShutdownWatcher, copies, clock, dialogVars, pageVars, accessVars,
     watcherVars
<1>Stutter. ASSUME UNCHANGED vars PROVE TopologyFresh'
  BY <1>1, <1>Stutter DEF vars, copies, clock, dialogVars, pageVars, accessVars, watcherVars
<1> QED
  BY <1>1, <1>OpenDialog, <1>AttemptFails, <1>CloseDialog, <1>Login, <1>AskLogout, <1>Stay,
     <1>Logout, <1>Touch, <1>CheckTimeout, <1>Pass, <1>ShowPage, <1>ChangeTheme,
     <1>ToggleWatcher, <1>Tick, <1>Begin, <1>End, <1>ShowResults, <1>Close, <1>Stutter DEF Next

(* Every loss of the level stops the watcher. *)
LEMMA WatchStep == WatchedBySomebody /\ [Next]_vars => WatchedBySomebody'
<1>1. SUFFICES ASSUME WatchedBySomebody, [Next]_vars PROVE WatchedBySomebody'
  OBVIOUS
<1>2. USE AccessAssumption DEF WatchedBySomebody
<1>OpenDialog. ASSUME OpenDialog PROVE WatchedBySomebody'
  BY <1>1, <1>OpenDialog DEF OpenDialog, copies, clock, dialogVars, pageVars, accessVars,
     watcherVars
<1>AttemptFails. ASSUME AttemptFails PROVE WatchedBySomebody'
  BY <1>1, <1>AttemptFails DEF AttemptFails, copies, clock, dialogVars, pageVars, accessVars,
     watcherVars
<1>CloseDialog. ASSUME CloseDialog PROVE WatchedBySomebody'
  BY <1>1, <1>CloseDialog DEF CloseDialog, copies, clock, dialogVars, pageVars, accessVars,
     watcherVars
<1>Login. ASSUME NEW l \in Levels, Login(l) PROVE WatchedBySomebody'
  BY <1>1, <1>Login DEF Login, StartWatcher, StopWatcher, SetLevel, Rebuilt, Counted, copies,
     clock, dialogVars, pageVars, accessVars, watcherVars
<1>AskLogout. ASSUME AskLogout PROVE WatchedBySomebody'
  BY <1>1, <1>AskLogout DEF AskLogout, copies, clock, dialogVars, pageVars, accessVars, watcherVars
<1>Stay. ASSUME Stay PROVE WatchedBySomebody'
  BY <1>1, <1>Stay DEF Stay, copies, clock, dialogVars, pageVars, accessVars, watcherVars
<1>Logout. ASSUME Logout PROVE WatchedBySomebody'
  BY <1>1, <1>Logout DEF Logout, StopWatcher, SetLevel, Rebuilt, copies, clock, dialogVars,
     pageVars, accessVars, watcherVars
<1>Touch. ASSUME Touch PROVE WatchedBySomebody'
  BY <1>1, <1>Touch DEF Touch, copies, clock, dialogVars, pageVars, accessVars, watcherVars
<1>CheckTimeout. ASSUME CheckTimeout PROVE WatchedBySomebody'
  BY <1>1, <1>CheckTimeout DEF CheckTimeout, StopWatcher, Rebuilt, Expired, copies, clock,
     dialogVars, pageVars, accessVars, watcherVars
<1>Pass. ASSUME Pass PROVE WatchedBySomebody'
  BY <1>1, <1>Pass DEF Pass, copies, clock, dialogVars, pageVars, accessVars, watcherVars
<1>ShowPage. ASSUME NEW p \in Pages, ShowPage(p) PROVE WatchedBySomebody'
  BY <1>1, <1>ShowPage DEF ShowPage, copies, clock, dialogVars, pageVars, accessVars, watcherVars
<1>ChangeTheme. ASSUME ChangeTheme PROVE WatchedBySomebody'
  BY <1>1, <1>ChangeTheme DEF ChangeTheme, RestartWatcher, StopWatcher, Rebuilt, Counted,
     copies, clock, dialogVars, pageVars, accessVars, watcherVars
<1>ToggleWatcher. ASSUME ToggleWatcher PROVE WatchedBySomebody'
  BY <1>1, <1>ToggleWatcher DEF ToggleWatcher, StartWatcher, StopWatcher, Counted, copies,
     clock, dialogVars, pageVars, accessVars, watcherVars
<1>Tick. ASSUME Tick PROVE WatchedBySomebody'
  BY <1>1, <1>Tick DEF Tick, TickWatcher, copies, clock, dialogVars, pageVars, accessVars,
     watcherVars
<1>Begin. ASSUME Begin PROVE WatchedBySomebody'
  BY <1>1, <1>Begin DEF Begin, ScanBegins, copies, clock, dialogVars, pageVars, accessVars,
     watcherVars
<1>End. ASSUME End PROVE WatchedBySomebody'
  BY <1>1, <1>End DEF End, ScanEnds, copies, clock, dialogVars, pageVars, accessVars, watcherVars
<1>ShowResults. ASSUME ShowResults PROVE WatchedBySomebody'
  BY <1>1, <1>ShowResults DEF ShowResults, Rebuilt, copies, clock, dialogVars, pageVars,
     accessVars, watcherVars
<1>Close. ASSUME Close PROVE WatchedBySomebody'
  BY <1>1, <1>Close DEF Close, ShutdownWatcher, copies, clock, dialogVars, pageVars, accessVars,
     watcherVars
<1>Stutter. ASSUME UNCHANGED vars PROVE WatchedBySomebody'
  BY <1>1, <1>Stutter DEF vars, copies, clock, dialogVars, pageVars, accessVars, watcherVars
<1> QED
  BY <1>1, <1>OpenDialog, <1>AttemptFails, <1>CloseDialog, <1>Login, <1>AskLogout, <1>Stay,
     <1>Logout, <1>Touch, <1>CheckTimeout, <1>Pass, <1>ShowPage, <1>ChangeTheme,
     <1>ToggleWatcher, <1>Tick, <1>Begin, <1>End, <1>ShowResults, <1>Close, <1>Stutter DEF Next

LEMMA InitInv == Init => AccessInv
<1>1. SUFFICES ASSUME Init PROVE AccessInv
  OBVIOUS
<1>2. WatcherInv
  <2>1. {active, scanning, running, down} \subseteq BOOLEAN
    BY <1>1 DEF Init, WatcherInit
  <2>2. /\ queued \in Nat /\ forgotten \in Nat
        /\ FlagMeansActive /\ NoPileUp
    BY <1>1 DEF Init, WatcherInit, FlagMeansActive, NoPileUp, Pending
  <2> QED
    BY <2>1, <2>2 DEF WatcherInv, WatcherTypes
<1>3. AccessTypes
  <2>1. /\ age \in Nat /\ sinceCheck \in 0 .. Period /\ late \in Nat
        /\ dialogs \in Nat /\ posted \in 0 .. UiMax /\ moves \in Nat
    BY <1>1, AccessAssumption DEF Init
  <2>2. /\ {overlay, asking, stray} \subseteq BOOLEAN
        /\ page \in Pages /\ {level, role, sbRole} \subseteq Levels
        /\ built \in [Restricted -> Levels \cup {"none"}]
    BY <1>1 DEF Init, Levels, Restricted, Pages
  <2> QED
    BY <2>1, <2>2 DEF AccessTypes
<1>4. CopiesAgree /\ IdleBounded
  BY <1>1 DEF Init, CopiesAgree, IdleBounded
<1>5. TopologyFresh /\ WatchedBySomebody
  BY <1>1 DEF Init, WatcherInit, TopologyFresh, WatchedBySomebody, Restricted
<1> QED
  BY <1>2, <1>3, <1>4, <1>5 DEF AccessInv

(* AccessInv is an invariant of the specification. *)
THEOREM Invariance == Spec => []AccessInv
<1>1. AccessInv /\ [Next]_vars => AccessInv'
  BY TypeStep, CopiesStep, IdleStep, TopologyStep, WatcherStep, WatchStep DEF AccessInv
<1> QED
  BY InitInv, <1>1, PTL DEF Spec

(* Every variable keeps its type. *)
THEOREM TypeCorrect == Spec => []TypeOK
<1>1. AccessInv => TypeOK
  BY DEF AccessInv, WatcherInv, TypeOK
<1> QED
  BY Invariance, <1>1, PTL

(* Nobody keeps a level without activity for longer than the timeout, the time
   since the last check, and a period for each change of theme in between
   (SessionTracker and _check_session_timeout). *)
THEOREM InactivityEnds == Spec => []IdleBounded
<1>1. AccessInv => IdleBounded
  BY DEF AccessInv, WatcherInv, TypeOK
<1> QED
  BY Invariance, <1>1, PTL

(* The topology page is never that of another level (_rebuild_page). *)
THEOREM TopologyStaysFresh == Spec => []TopologyFresh
<1>1. AccessInv => TopologyFresh
  BY DEF AccessInv, WatcherInv, TypeOK
<1> QED
  BY Invariance, <1>1, PTL

(* Only stops can leave more than one scan in the pool (Watcher._tick). *)
THEOREM ScansDoNotPileUp == Spec => []NoPileUp
<1>1. AccessInv => NoPileUp
  BY DEF AccessInv, WatcherInv, TypeOK
<1> QED
  BY Invariance, <1>1, PTL

(* The watcher runs for somebody with a level, but for a toggle on an old page
   (Watcher.stop in the logout, the expiry and the change of theme). *)
THEOREM WatchingNeedsLevel == Spec => []WatchedBySomebody
<1>1. AccessInv => WatchedBySomebody
  BY DEF AccessInv, WatcherInv, TypeOK
<1> QED
  BY Invariance, <1>1, PTL
=============================================================================
