----------------------------- MODULE AuthDialog -----------------------------
(***************************************************************************)
(* The login dialog, widgets/auth_overlay.py, with what handlers/auth.py   *)
(* keeps of it: failed attempts and the lockout that follows too many of   *)
(* them.  Both are kept twice, by each dialog and by the application; a    *)
(* failed attempt makes the application forget the dialog, so that a       *)
(* second one can be opened.  A login makes the default accounts when      *)
(* there is none.  What a level gives access to is in Access.              *)
(***************************************************************************)
EXTENDS Accounts

CONSTANTS
  MainApp,      \* the instance whose dialogs these are
  MaxDialogs,   \* bound: dialogs opened
  MaxAttempts,  \* ADMIN_MAX_ATTEMPTS (3)
  LockoutSecs,  \* ADMIN_LOCKOUT_SECS (30), in units of time
  MaxNow        \* bound: time

Dialogs == 1 .. MaxDialogs
NoDialog == 0

ASSUME AuthDialogAssumption ==
  /\ MainApp \in Apps
  /\ MaxDialogs \in Nat /\ MaxAttempts \in Nat \ {0}
  /\ LockoutSecs \in Nat \ {0} /\ MaxNow \in Nat

VARIABLES
  now,          \* the time
  attempt,      \* [count, until] of the application: _admin_attempts and
                \* _admin_locked_until
  shownDialog,  \* the dialog _auth_overlay refers to, or NoDialog
  dialogs,      \* the dialogs: [at, count, until, handled, enabled, armed]
  verifying,    \* the dialog whose _verify runs, or NoDialog
  role,         \* _access_level
  failures,     \* history: failed attempts since the last login or lockout
  banned,       \* history: the end of the last lockout
  defied,       \* history: an attempt was verified before it
  crowded       \* history: a dialog was opened beside another

authVars ==
  <<accountsVars, now, attempt, shownDialog, dialogs, verifying, role, failures,
    banned, defied, crowded>>
historyVars == <<failures, banned, defied, crowded>>

-----------------------------------------------------------------------------
Closed == [at |-> "closed", count |-> 0, until |-> 0, handled |-> FALSE,
           enabled |-> FALSE, armed |-> FALSE]
Unused ==
  [at |-> "unused", count |-> 0, until |-> 0, handled |-> FALSE, enabled |-> TRUE,
   armed |-> FALSE]
IsOpen(d) == dialogs[d].at = "open"

AuthInit ==
  /\ AccountsInit
  /\ now = 0
  /\ attempt = [count |-> 0, until |-> 0]
  /\ shownDialog = NoDialog
  /\ dialogs = [d \in Dialogs |-> Unused]
  /\ verifying = NoDialog
  /\ role = "user"
  /\ failures = 0 /\ banned = 0 /\ defied = FALSE /\ crowded = FALSE

(* Slip: a new dialog counts its attempts from zero. *)
NewDialog_Fresh == [Unused EXCEPT !.at = "open", !.until = attempt.until]

NewDialog ==
  [Unused EXCEPT !.at = "open", !.count = attempt.count, !.until = attempt.until]

(* _show_auth_dialog: not while a dialog it knows of is open, or locked out. *)
OpenAuthDialog(d) ==
  /\ verifying = NoDialog
  /\ role = "user" /\ shownDialog = NoDialog
  /\ now >= attempt.until
  /\ dialogs[d].at = "unused" /\ \A e \in 1 .. d - 1 : dialogs[e].at # "unused"
  /\ dialogs' = [dialogs EXCEPT ![d] = NewDialog]
  /\ shownDialog' = d
  /\ crowded' = (crowded \/ \E e \in Dialogs : IsOpen(e))
  /\ UNCHANGED <<accountsVars, now, attempt, verifying, role, failures, banned, defied>>

(* _on_result of a failure *)
Report(count, until) ==
  /\ attempt' = [count |-> count, until |-> until]
  /\ shownDialog' = NoDialog

(* close_: a dialog that has reported a lockout has nothing to add. *)
CloseAuthDialog(d) ==
  /\ verifying = NoDialog
  /\ IsOpen(d)
  /\ IF dialogs[d].handled
     THEN UNCHANGED <<attempt, shownDialog>>
     ELSE Report(dialogs[d].count, IF now < dialogs[d].until THEN dialogs[d].until ELSE 0)
  /\ dialogs' = [dialogs EXCEPT ![d] = Closed]
  /\ UNCHANGED <<accountsVars, now, verifying, role, historyVars>>

(* _verify, with the accounts made first if there are none *)
Submit(d) ==
  /\ verifying = NoDialog
  /\ IsOpen(d) /\ dialogs[d].enabled
  /\ now >= dialogs[d].until
  /\ verifying' = d
  /\ defied' = (defied \/ now < banned)
  /\ IF users = {} THEN StartSeed(MainApp) ELSE UNCHANGED accountsVars
  /\ UNCHANGED <<now, attempt, shownDialog, dialogs, role, failures, banned, crowded>>

(* The other handlers wait, except while the passwords are shown. *)
Seeded == verifying # NoDialog /\ seed[MainApp].at = 0

(* A password that was told is known; that of a forfeited account is not. *)
Succeed ==
  /\ Seeded
  /\ \E name \in told :
       /\ role' = RoleOf[name]
       /\ IF role' = "user"
          THEN Report(0, 0)
          ELSE attempt' = [count |-> 0, until |-> 0] /\ shownDialog' = NoDialog
  /\ dialogs' = [dialogs EXCEPT ![verifying] = Closed]
  /\ verifying' = NoDialog
  /\ failures' = 0
  /\ UNCHANGED <<accountsVars, now, banned, defied, crowded>>

(* A wrong password, or any error.  The last attempt locks the dialog and the *)
(* application out; the dialog goes on counting after that.                   *)
Fail ==
  LET d == verifying
      count == dialogs[d].count + 1
      until == now + LockoutSecs
  IN IF count >= MaxAttempts
     THEN /\ Report(0, until)
          /\ dialogs' = [dialogs EXCEPT ![d] =
               [@ EXCEPT !.count = count, !.until = until, !.handled = TRUE,
                         !.enabled = FALSE, !.armed = TRUE]]
          /\ failures' = 0 /\ banned' = until
     ELSE /\ Report(count, 0)
          /\ dialogs' = [dialogs EXCEPT ![d].count = count]
          /\ failures' = failures + 1 /\ UNCHANGED banned

FailedAttempt ==
  /\ Seeded
  /\ Fail
  /\ verifying' = NoDialog
  /\ UNCHANGED <<accountsVars, now, role, defied, crowded>>

(* _reenable_after_lockout: the timer is a coarse one, and if it fires early *)
(* the dialog stays as it is.                                                *)
Reenable(d) ==
  /\ dialogs[d].armed /\ now >= dialogs[d].until - 1
  /\ dialogs' = [dialogs EXCEPT ![d].armed = FALSE, ![d].enabled = (now >= dialogs[d].until)]
  /\ UNCHANGED <<accountsVars, now, attempt, shownDialog, verifying, role, historyVars>>

LogoutUser ==
  /\ verifying = NoDialog /\ role # "user"
  /\ role' = "user"
  /\ UNCHANGED <<accountsVars, now, attempt, shownDialog, dialogs, verifying, historyVars>>

PassTime ==
  /\ now < MaxNow
  /\ now' = now + 1
  /\ UNCHANGED <<accountsVars, attempt, shownDialog, dialogs, verifying, role, historyVars>>

(* The processes other than the main one run on their own; one of them that *)
(* is killed stands for the main one killed while it makes accounts.        *)
SeedElsewhere ==
  /\ \E p \in Makers \ {MainApp} : StartSeed(p) \/ SeedStep(p)
  /\ UNCHANGED <<now, attempt, shownDialog, dialogs, verifying, role, historyVars>>

SeedHere ==
  /\ verifying # NoDialog
  /\ SeedStep(MainApp)
  /\ UNCHANGED <<now, attempt, shownDialog, dialogs, verifying, role, historyVars>>

AuthNext ==
  \/ \E d \in Dialogs : OpenAuthDialog(d) \/ CloseAuthDialog(d) \/ Submit(d) \/ Reenable(d)
  \/ Succeed \/ FailedAttempt
  \/ LogoutUser \/ PassTime
  \/ SeedElsewhere \/ SeedHere

AuthSpec == AuthInit /\ [][AuthNext]_authVars

-----------------------------------------------------------------------------
(* Closing the dialog and opening another gives no more attempts and no      *)
(* earlier ones: at most MaxAttempts fail before a lockout, and during one   *)
(* none is verified.  The exception is a dialog opened beside one that the   *)
(* application has forgotten: each has a count of its own, and a report of   *)
(* the one takes back the lockout of the other.                              *)
LockoutKept == crowded \/ (failures < MaxAttempts /\ ~defied)
=============================================================================
