--------------------------- MODULE DesktopProofs ----------------------------
(***************************************************************************)
(* Proofs about the parts of the user interface that MCDesktop checks,     *)
(* each with its own specification and for any constants: the accounts and *)
(* the login dialogs, the maintenance tab, the device in hand with the     *)
(* services page, and the shell.                                           *)
(***************************************************************************)
EXTENDS Target, Shell, AuthDialog, Maintenance, TLAPS

-----------------------------------------------------------------------------
(***************************************************************************)
(* Accounts: the passwords of the default accounts.                        *)
(***************************************************************************)
Names == {"user_admin", "user_tecnico", "user_user"}

AccountsOK ==
  /\ users \in SUBSET Names
  /\ told \in SUBSET Names
  /\ forfeited \in SUBSET Names
  /\ seed \in [Makers -> [at : 0 .. 4, made : SUBSET Names]]
  /\ \A p \in Makers : seed[p].at <= LastOf(p) + 1

(* PasswordsShown is not inductive: an account that is made now must not be  *)
(* one that was told, forfeited or made before, so all those are in the      *)
(* table, where create_user finds them.                                      *)
MadeInTable ==
  /\ told \cup forfeited \subseteq users
  /\ \A p \in Makers : seed[p].made \subseteq users

AccountsInv == AccountsOK /\ MadeInTable /\ PasswordsShown

(* The table is empty when the processes start. *)
LEMMA AccountsInvInit == AccountsInit => AccountsInv
  BY DEF AccountsInit, AccountsInv, AccountsOK, MadeInTable, PasswordsShown, Idle, LastOf, Defaults

(* The accounts are taken in the order of the list. *)
LEMMA DefaultNames ==
  /\ Len(Defaults) = 3
  /\ \A i \in 1 .. 3 : Defaults[i] \in Names
  BY DEF Defaults, Names

(* Every step of a process that makes accounts keeps track of the passwords. *)
LEMMA SeedKeeps ==
  ASSUME AccountsInv, NEW p \in Makers, StartSeed(p) \/ SeedStep(p)
  PROVE  AccountsInv'
<1> USE DEF AccountsInv, AccountsOK, MadeInTable
<1>1. ASSUME StartSeed(p) PROVE AccountsInv'
  <2>1. LastOf(p) \in {1, 3}
    BY DefaultNames DEF LastOf
  <2>2. /\ seed' \in [Makers -> [at : 0 .. 4, made : SUBSET Names]]
        /\ seed'[p].at = 1 /\ seed'[p].made = seed[p].made
        /\ \A q \in Makers \ {p} : seed'[q] = seed[q]
    BY <1>1 DEF StartSeed
  <2> QED
    BY <1>1, <2>1, <2>2 DEF StartSeed, PasswordsShown
<1>2. ASSUME Making(p), MakeAccount(p) PROVE AccountsInv'
  <2> DEFINE name == Defaults[seed[p].at]
  <2>1. seed[p].at \in 1 .. 3 /\ LastOf(p) \in {1, 3} /\ seed[p].at <= LastOf(p)
    BY <1>2, DefaultNames DEF Making, LastOf
  <2>2. name \in Names
    BY <2>1, DefaultNames
  <2>3. /\ users' = users \cup {name} /\ told' = told /\ forfeited' = forfeited
        /\ seed' = [seed EXCEPT ![p] = [at |-> seed[p].at + 1, made |-> seed[p].made \cup ({name} \ users)]]
    BY <1>2 DEF MakeAccount
  <2> HIDE DEF name
  <2>4. /\ seed'[p].at = seed[p].at + 1 /\ seed'[p].made = seed[p].made \cup ({name} \ users)
        /\ \A q \in Makers \ {p} : seed'[q] = seed[q]
    BY <2>3
  <2>5. AccountsOK'
    BY <2>1, <2>2, <2>3, <2>4
  <2>6. MadeInTable'
    BY <2>3, <2>4
  <2>7. PasswordsShown'
    BY <2>3, <2>4 DEF PasswordsShown
  <2> QED
    BY <2>5, <2>6, <2>7
<1>3. ASSUME TellPasswords(p) \/ Interrupt(p) PROVE AccountsInv'
  <2>1. /\ users' = users /\ seed'[p] = Idle /\ \A q \in Makers \ {p} : seed'[q] = seed[q]
        /\ told' \cup forfeited' = told \cup forfeited \cup seed[p].made
        /\ seed' = [seed EXCEPT ![p] = Idle]
    BY <1>3 DEF TellPasswords, Interrupt
  <2>2. told' \in SUBSET Names /\ forfeited' \in SUBSET Names
    BY <1>3 DEF TellPasswords, Interrupt
  <2>3. LastOf(p) \in {1, 3}
    BY DefaultNames DEF LastOf
  <2>4. AccountsOK'
    BY <2>1, <2>2, <2>3 DEF Idle
  <2>5. MadeInTable'
    BY <2>1 DEF Idle
  <2>6. PasswordsShown'
    BY <2>1 DEF PasswordsShown, Idle
  <2> QED
    BY <2>4, <2>5, <2>6
<1> QED
  BY <1>1, <1>2, <1>3 DEF SeedStep

(* The login dialog and the other processes do nothing else to the accounts. *)
LEMMA AccountsInvStep == AccountsInv /\ [AuthNext]_authVars => AccountsInv'
<1>1. SUFFICES ASSUME AccountsInv, [AuthNext]_authVars PROVE AccountsInv'
  OBVIOUS
<1>2. ASSUME NEW d \in Dialogs, OpenAuthDialog(d) PROVE AccountsInv'
  BY <1>1, <1>2 DEF OpenAuthDialog, accountsVars, AccountsInv, AccountsOK,
     MadeInTable, PasswordsShown
<1>3. ASSUME NEW d \in Dialogs, CloseAuthDialog(d) PROVE AccountsInv'
  BY <1>1, <1>3 DEF CloseAuthDialog, accountsVars, AccountsInv, AccountsOK,
     MadeInTable, PasswordsShown
<1>4. ASSUME NEW d \in Dialogs, Submit(d) PROVE AccountsInv'
  BY <1>1, <1>4, SeedKeeps, AuthDialogAssumption DEF Submit, Makers, accountsVars,
     AccountsInv, AccountsOK, MadeInTable, PasswordsShown
<1>5. ASSUME NEW d \in Dialogs, Reenable(d) PROVE AccountsInv'
  BY <1>1, <1>5 DEF Reenable, accountsVars, AccountsInv, AccountsOK, MadeInTable,
     PasswordsShown
<1>6. ASSUME Succeed PROVE AccountsInv'
  BY <1>1, <1>6 DEF Succeed, accountsVars, AccountsInv, AccountsOK, MadeInTable,
     PasswordsShown
<1>7. ASSUME FailedAttempt PROVE AccountsInv'
  BY <1>1, <1>7 DEF FailedAttempt, accountsVars, AccountsInv, AccountsOK, MadeInTable,
     PasswordsShown
<1>8. ASSUME LogoutUser PROVE AccountsInv'
  BY <1>1, <1>8 DEF LogoutUser, accountsVars, AccountsInv, AccountsOK, MadeInTable,
     PasswordsShown
<1>9. ASSUME PassTime PROVE AccountsInv'
  BY <1>1, <1>9 DEF PassTime, accountsVars, AccountsInv, AccountsOK, MadeInTable,
     PasswordsShown
<1>10. ASSUME SeedElsewhere PROVE AccountsInv'
  BY <1>1, <1>10, SeedKeeps DEF SeedElsewhere
<1>11. ASSUME SeedHere PROVE AccountsInv'
  BY <1>1, <1>11, SeedKeeps, AuthDialogAssumption DEF SeedHere, Makers
<1>12. ASSUME UNCHANGED authVars PROVE AccountsInv'
  BY <1>1, <1>12 DEF authVars, accountsVars, AccountsInv, AccountsOK, MadeInTable,
     PasswordsShown
<1> QED
  BY <1>1, <1>2, <1>3, <1>4, <1>5, <1>6,
     <1>7, <1>8, <1>9, <1>10, <1>11, <1>12 DEF
     AuthNext

(***************************************************************************)
(* AuthDialog: the attempts and the lockout.                               *)
(***************************************************************************)
Dialog == [at : {"unused", "open", "closed"}, count : Nat, until : Nat, handled : BOOLEAN,
           enabled : BOOLEAN, armed : BOOLEAN]

AuthOK ==
  /\ now \in Nat /\ banned \in Nat /\ failures \in Nat
  /\ attempt \in [count : Nat, until : Nat]
  /\ dialogs \in [Dialogs -> Dialog]
  /\ verifying \in Dialogs \cup {NoDialog}
  /\ defied \in BOOLEAN /\ crowded \in BOOLEAN
  /\ verifying # NoDialog => IsOpen(verifying) /\ dialogs[verifying].until <= now

(* LockoutKept is not inductive.  The failures since the last login or       *)
(* lockout are counted by the one open dialog, or by the application while   *)
(* there is none; a dialog that has reported a lockout keeps its end, and    *)
(* so does the application.                                                  *)
OneOpen == \A d, e \in Dialogs : IsOpen(d) /\ IsOpen(e) => d = e

CountedByApplication ==
  (\A d \in Dialogs : ~IsOpen(d)) => attempt.count = failures /\ (banned <= now \/ banned <= attempt.until)

CountedByDialog ==
  \A d \in Dialogs : IsOpen(d) /\ ~dialogs[d].handled =>
    dialogs[d].count = failures /\ banned <= now /\ dialogs[d].until <= now

LockedByDialog ==
  \A d \in Dialogs : IsOpen(d) /\ dialogs[d].handled =>
    /\ failures = 0 /\ attempt.count = 0
    /\ banned <= dialogs[d].until /\ banned <= attempt.until
    /\ MaxAttempts <= dialogs[d].count

Lockout == OneOpen /\ CountedByApplication /\ CountedByDialog /\ LockedByDialog

AuthInv == AuthOK /\ (crowded \/ Lockout) /\ LockoutKept

(* Nobody has tried yet. *)
LEMMA AuthInvInit == AuthInit => AuthInv
<1> SUFFICES ASSUME AuthInit PROVE AuthInv
  OBVIOUS
<1>1. Unused \in Dialog /\ Unused.at # "open"
  BY DEF Unused, Dialog
<1>2. dialogs \in [Dialogs -> Dialog] /\ \A d \in Dialogs : ~IsOpen(d)
  BY <1>1 DEF AuthInit, IsOpen
<1>3. AuthOK
  BY <1>2 DEF AuthInit, AuthOK
<1>4. Lockout
  BY <1>2 DEF AuthInit, Lockout, OneOpen, CountedByApplication, CountedByDialog, LockedByDialog
<1> QED
  BY <1>3, <1>4, AuthDialogAssumption DEF AuthInit, AuthInv, LockoutKept

(* Every step of the dialogs, of the clock and of the logout keeps the count. *)
LEMMA AuthInvStep == AuthInv /\ [AuthNext]_authVars => AuthInv'
<1>1. SUFFICES ASSUME AuthInv, [AuthNext]_authVars PROVE AuthInv'
  OBVIOUS
<1>2. ASSUME NEW d \in Dialogs, OpenAuthDialog(d) PROVE AuthInv'
  <2>1. /\ dialogs'[d] = NewDialog /\ \A e \in Dialogs \ {d} : dialogs'[e] = dialogs[e]
        /\ dialogs' = [dialogs EXCEPT ![d] = NewDialog]
        /\ attempt.until <= now
    BY <1>1, <1>2 DEF OpenAuthDialog, AuthInv, AuthOK
  <2>2. /\ NewDialog \in Dialog /\ NewDialog.count = attempt.count /\ NewDialog.until = attempt.until
        /\ NewDialog.at = "open" /\ NewDialog.handled = FALSE
    BY <1>1 DEF NewDialog, Unused, Dialog, AuthInv, AuthOK
  <2>3. AuthOK'
    BY <1>1, <1>2, <2>1, <2>2 DEF OpenAuthDialog, AuthInv, AuthOK, NoDialog, IsOpen
  <2>4. crowded' = (crowded \/ \E e \in Dialogs : IsOpen(e)) /\ UNCHANGED <<now, attempt, failures, banned, defied>>
    BY <1>2 DEF OpenAuthDialog
  <2>5. CASE crowded'
    BY <1>1, <2>3, <2>5 DEF AuthInv, LockoutKept
  <2>6. CASE ~crowded'
    <3>1. Lockout /\ \A e \in Dialogs : ~IsOpen(e)
      BY <1>1, <2>4, <2>6 DEF AuthInv
    <3>2. \A e \in Dialogs : IsOpen(e)' => e = d
      BY <2>1, <3>1 DEF IsOpen
    <3>3. IsOpen(d)'
      BY <2>1, <2>2 DEF IsOpen
    <3>4. attempt.count = failures /\ banned <= now
      BY <1>1, <2>1, <3>1 DEF Lockout, CountedByApplication, AuthInv, AuthOK
    <3>5. Lockout'
      BY <2>1, <2>2, <2>4, <3>2, <3>3, <3>4 DEF Lockout, OneOpen, CountedByApplication, CountedByDialog, LockedByDialog
    <3> QED
      BY <1>1, <2>3, <2>4, <3>5 DEF AuthInv, LockoutKept
  <2> QED
    BY <2>5, <2>6
<1>3. ASSUME NEW d \in Dialogs, CloseAuthDialog(d) PROVE AuthInv'
  BY <1>1, <1>3, AuthDialogAssumption DEF CloseAuthDialog, Report, Closed, AuthInv,
     AuthOK, Lockout, OneOpen, CountedByApplication, CountedByDialog, LockedByDialog, LockoutKept,
     historyVars, IsOpen, NoDialog, Dialogs, Dialog
<1>4. ASSUME NEW d \in Dialogs, Submit(d) PROVE AuthInv'
  <2>1. /\ UNCHANGED <<now, attempt, dialogs, failures, banned, crowded>>
        /\ verifying' = d /\ defied' = (defied \/ now < banned)
        /\ IsOpen(d) /\ dialogs[d].until <= now
    BY <1>4 DEF Submit
  <2>2. /\ now \in Nat /\ banned \in Nat /\ dialogs[d].until \in Nat
        /\ dialogs[d].handled \in BOOLEAN /\ defied' \in BOOLEAN
    BY <1>1, <2>1 DEF AuthInv, AuthOK, Dialog
  <2>3. \A e \in Dialogs : IsOpen(e)' <=> IsOpen(e)
    BY <2>1 DEF IsOpen
  <2>4. AuthOK'
    BY <1>1, <2>1, <2>2, <2>3 DEF AuthInv, AuthOK
  <2>5. Lockout => Lockout'
    BY <2>1, <2>3 DEF Lockout, OneOpen, CountedByApplication, CountedByDialog, LockedByDialog
  <2>6. Lockout => banned <= now
    BY <2>1, <2>2 DEF Lockout, CountedByDialog, LockedByDialog
  <2>7. Lockout => ~(now < banned)
    BY <2>2, <2>6
  <2>8. LockoutKept'
    <3>1. (crowded \/ Lockout) /\ (crowded \/ (failures < MaxAttempts /\ ~defied))
      BY <1>1 DEF AuthInv, LockoutKept
    <3>2. crowded' \/ (failures' < MaxAttempts /\ ~defied')
      BY <2>1, <2>7, <3>1
    <3> QED
      BY <3>2 DEF LockoutKept
  <2> QED
    BY <1>1, <2>1, <2>4, <2>5, <2>8 DEF AuthInv
<1>5. ASSUME NEW d \in Dialogs, Reenable(d) PROVE AuthInv'
  <2> DEFINE late == now >= dialogs[d].until
             next == [dialogs[d] EXCEPT !.armed = FALSE, !.enabled = late]
  <2>1. dialogs \in [Dialogs -> Dialog] /\ dialogs[d] \in Dialog
    BY <1>1 DEF AuthInv, AuthOK
  <2>2. dialogs' = [dialogs EXCEPT ![d] = next]
    BY <1>5, <2>1 DEF Reenable
  <2>3. late \in BOOLEAN
    OBVIOUS
  <2> HIDE DEF late
  <2>4. /\ next.at = dialogs[d].at /\ next.count = dialogs[d].count
        /\ next.until = dialogs[d].until /\ next.handled = dialogs[d].handled /\ next \in Dialog
    BY <2>1, <2>3 DEF Dialog
  <2> HIDE DEF next
  <2>5. /\ \A e \in Dialogs : /\ dialogs'[e].at = dialogs[e].at /\ dialogs'[e].count = dialogs[e].count
                                /\ dialogs'[e].until = dialogs[e].until /\ dialogs'[e].handled = dialogs[e].handled
        /\ dialogs' \in [Dialogs -> Dialog]
    BY <2>1, <2>2, <2>4
  <2>6. UNCHANGED <<now, attempt, verifying, failures, banned, defied, crowded>>
    BY <1>5 DEF Reenable, historyVars
  <2>7. \A e \in Dialogs : IsOpen(e)' <=> IsOpen(e)
    BY <2>5 DEF IsOpen
  <2>8. AuthOK'
    BY <1>1, <2>5, <2>6, <2>7 DEF AuthInv, AuthOK, NoDialog
  <2>9. Lockout => Lockout'
    BY <2>5, <2>6, <2>7 DEF Lockout, OneOpen, CountedByApplication, CountedByDialog, LockedByDialog
  <2> QED
    BY <1>1, <2>6, <2>8, <2>9 DEF AuthInv, LockoutKept
<1>6. ASSUME Succeed PROVE AuthInv'
  BY <1>1, <1>6, AuthDialogAssumption DEF Succeed, Report, Closed, Seeded, AuthInv, AuthOK,
     Lockout, OneOpen, CountedByApplication, CountedByDialog, LockedByDialog, LockoutKept,
     historyVars, IsOpen, NoDialog, Dialogs, Dialog
<1>7. ASSUME FailedAttempt PROVE AuthInv'
  <2> DEFINE d == verifying
  <2>1. d \in Dialogs /\ IsOpen(d) /\ dialogs[d].until <= now /\ dialogs[d] \in Dialog
    BY <1>1, <1>7 DEF FailedAttempt, Seeded, AuthInv, AuthOK
  <2>2. /\ Fail /\ verifying' = NoDialog /\ UNCHANGED <<now, defied, crowded>>
    BY <1>7 DEF FailedAttempt
  <2>3. CASE dialogs[d].count + 1 >= MaxAttempts
    <3>1. /\ attempt' = [count |-> 0, until |-> now + LockoutSecs]
          /\ failures' = 0 /\ banned' = now + LockoutSecs
          /\ dialogs' = [dialogs EXCEPT ![d] =
               [dialogs[d] EXCEPT !.count = dialogs[d].count + 1, !.until = now + LockoutSecs,
                                  !.handled = TRUE, !.enabled = FALSE, !.armed = TRUE]]
      BY <2>2, <2>3 DEF Fail, Report
    <3> DEFINE count == dialogs[d].count + 1
               until == now + LockoutSecs
               next == [dialogs[d] EXCEPT !.count = count, !.until = until, !.handled = TRUE,
                                          !.enabled = FALSE, !.armed = TRUE]
    <3>2. dialogs' = [dialogs EXCEPT ![d] = next] /\ dialogs \in [Dialogs -> Dialog]
      BY <1>1, <3>1 DEF AuthInv, AuthOK
    <3>3. count \in Nat /\ until \in Nat
      BY <1>1, <2>1, AuthDialogAssumption DEF AuthInv, AuthOK, Dialog
    <3>4. next \in Dialog /\ next.at = dialogs[d].at /\ next.count = count /\ next.handled /\ next.until = until
      <4> HIDE DEF count, until
      <4> QED
        BY <2>1, <3>3 DEF Dialog
    <3>5. dialogs[d].at = "open"
      BY <2>1 DEF IsOpen
    <3> HIDE DEF next
    <3>6. /\ dialogs' \in [Dialogs -> Dialog]
          /\ dialogs'[d].at = "open" /\ dialogs'[d].count = dialogs[d].count + 1 /\ dialogs'[d].handled
          /\ dialogs'[d].until = now + LockoutSecs
          /\ \A e \in Dialogs \ {d} : dialogs'[e] = dialogs[e]
      BY <2>1, <3>2, <3>4, <3>5
    <3>7. AuthOK'
      BY <1>1, <2>2, <3>1, <3>6, AuthDialogAssumption DEF AuthInv, AuthOK
    <3>8. \A e \in Dialogs : IsOpen(e)' <=> IsOpen(e)
      BY <2>1, <3>6 DEF IsOpen
    <3>9. Lockout => Lockout'
      <4>1. SUFFICES ASSUME Lockout PROVE Lockout'
        OBVIOUS
      <4>2. \A e \in Dialogs : IsOpen(e)' => e = d
        BY <2>1, <3>8, <4>1 DEF Lockout, OneOpen
      <4> QED
        BY <1>1, <2>1, <2>3, <3>1, <3>6, <3>8, <4>2, AuthDialogAssumption
           DEF Lockout, OneOpen, CountedByApplication, CountedByDialog, LockedByDialog, AuthInv, AuthOK, Dialog
    <3> QED
      BY <1>1, <2>2, <3>1, <3>7, <3>9, AuthDialogAssumption DEF AuthInv, LockoutKept
  <2>4. CASE ~(dialogs[d].count + 1 >= MaxAttempts)
    <3>1. /\ attempt' = [count |-> dialogs[d].count + 1, until |-> 0]
          /\ failures' = failures + 1 /\ banned' = banned
          /\ dialogs' = [dialogs EXCEPT ![d].count = dialogs[d].count + 1]
      BY <2>2, <2>4 DEF Fail, Report
    <3>2. /\ dialogs' \in [Dialogs -> Dialog]
          /\ dialogs'[d].at = "open" /\ dialogs'[d].count = dialogs[d].count + 1
          /\ dialogs'[d].handled = dialogs[d].handled /\ dialogs'[d].until = dialogs[d].until
          /\ \A e \in Dialogs \ {d} : dialogs'[e] = dialogs[e]
      BY <1>1, <2>1, <3>1 DEF AuthInv, AuthOK, Dialog, IsOpen
    <3>3. AuthOK'
      BY <1>1, <2>1, <2>2, <3>1, <3>2 DEF AuthInv, AuthOK, Dialog
    <3>4. \A e \in Dialogs : IsOpen(e)' <=> IsOpen(e)
      BY <2>1, <3>2 DEF IsOpen
    <3>5. Lockout => Lockout' /\ failures' < MaxAttempts
      <4>1. SUFFICES ASSUME Lockout PROVE Lockout' /\ failures' < MaxAttempts
        OBVIOUS
      <4>2. \A e \in Dialogs : IsOpen(e)' => e = d
        BY <2>1, <3>4, <4>1 DEF Lockout, OneOpen
      <4>3. ~dialogs[d].handled
        BY <1>1, <2>1, <2>4, <4>1, AuthDialogAssumption DEF Lockout, LockedByDialog, AuthInv, AuthOK, Dialog
      <4>4. dialogs[d].count = failures /\ banned <= now
        BY <2>1, <4>1, <4>3 DEF Lockout, CountedByDialog
      <4>5. failures' < MaxAttempts
        BY <1>1, <2>4, <3>1, <4>4, AuthDialogAssumption DEF AuthInv, AuthOK
      <4> QED
        BY <2>1, <2>2, <3>1, <3>2, <3>4, <4>2, <4>3, <4>4, <4>5
           DEF Lockout, OneOpen, CountedByApplication, CountedByDialog, LockedByDialog
    <3> QED
      BY <1>1, <2>2, <3>3, <3>5 DEF AuthInv, LockoutKept
  <2> QED
    BY <2>3, <2>4
<1>8. ASSUME LogoutUser PROVE AuthInv'
  BY <1>1, <1>8, AuthDialogAssumption DEF LogoutUser, AuthInv, AuthOK, Lockout, OneOpen,
     CountedByApplication, CountedByDialog, LockedByDialog, LockoutKept, historyVars, IsOpen,
     NoDialog, Dialogs, Dialog
<1>9. ASSUME PassTime PROVE AuthInv'
  BY <1>1, <1>9, AuthDialogAssumption DEF PassTime, AuthInv, AuthOK, Lockout, OneOpen,
     CountedByApplication, CountedByDialog, LockedByDialog, LockoutKept, historyVars, IsOpen,
     NoDialog, Dialogs, Dialog
<1>10. ASSUME SeedElsewhere PROVE AuthInv'
  BY <1>1, <1>10, AuthDialogAssumption DEF SeedElsewhere, AuthInv, AuthOK, Lockout,
     OneOpen, CountedByApplication, CountedByDialog, LockedByDialog, LockoutKept, historyVars,
     IsOpen, NoDialog, Dialogs, Dialog
<1>11. ASSUME SeedHere PROVE AuthInv'
  BY <1>1, <1>11, AuthDialogAssumption DEF SeedHere, AuthInv, AuthOK, Lockout, OneOpen,
     CountedByApplication, CountedByDialog, LockedByDialog, LockoutKept, historyVars, IsOpen,
     NoDialog, Dialogs, Dialog
<1>12. ASSUME UNCHANGED authVars PROVE AuthInv'
  BY <1>1, <1>12 DEF authVars, AuthInv, AuthOK, Lockout, OneOpen, CountedByApplication,
     CountedByDialog, LockedByDialog, LockoutKept, historyVars, IsOpen
<1> QED
  BY <1>1, <1>2, <1>3, <1>4, <1>5, <1>6,
     <1>7, <1>8, <1>9, <1>10, <1>11, <1>12 DEF
     AuthNext

(* Whatever processes make the default accounts at the same time, the         *)
(* password of every account is shown or about to be, and by its maker only,  *)
(* unless its maker was interrupted.                                          *)
THEOREM AccountsShown == AuthSpec => []PasswordsShown
<1>1. AuthInit => AccountsInv
  BY AccountsInvInit DEF AuthInit
<1>2. AccountsInv => PasswordsShown
  BY DEF AccountsInv
<1> QED
  BY <1>1, <1>2, AccountsInvStep, PTL DEF AuthSpec

(* At most MaxAttempts logins fail before a lockout, and none is verified      *)
(* during one, unless a dialog was opened beside a forgotten one.              *)
THEOREM AuthLockout == AuthSpec => []LockoutKept
<1>1. AuthInv => LockoutKept
  BY DEF AuthInv
<1> QED
  BY <1>1, AuthInvInit, AuthInvStep, PTL DEF AuthSpec

-----------------------------------------------------------------------------
(***************************************************************************)
(* Maintenance: the jobs, the current event and the panel.                 *)
(***************************************************************************)
Stage == {"none", "queued", "reading", "killing", "waiting", "labelling", "finishing", "ended"}
Job == [at : Stage, child : BOOLEAN, lines : 0 .. MaxLines]
Callback ==
  [do : {"set", "done", "write"}, job : Jobs \cup {NoJob}, lines : 0 .. MaxLines,
   page : 0 .. MaxTurns + 1] \cup {Remark, ForgetEvent, Display}
Panel ==
  [page : 0 .. MaxTurns + 1, job : Jobs \cup {NoJob}, lines : 0 .. MaxLines, done : SUBSET Jobs]

MaintenanceOK ==
  /\ job \in [Jobs -> Job]
  /\ cancelled \subseteq Jobs
  /\ cancelEvent \in Jobs \cup {NoJob}
  /\ callbacks \in Seq(Callback)
  /\ panel \in Panel
  /\ turns \in 0 .. MaxTurns /\ page \in 1 .. turns + 1
  /\ hurried \in BOOLEAN

(* What a handler or a thread puts in the queue comes after all the rest. *)
LEMMA QueuedLast ==
  ASSUME NEW old \in Seq(Callback), NEW more \in Seq(Callback)
  PROVE  /\ old \o more \in Seq(Callback)
         /\ \A i \in DOMAIN old : i \in DOMAIN (old \o more) /\ (old \o more)[i] = old[i]
         /\ \A i \in DOMAIN (old \o more) \ DOMAIN old :
              \E k \in DOMAIN more : (old \o more)[i] = more[k] /\ i > Len(old)
  <1>1. /\ old \o more \in Seq(Callback) /\ Len(old \o more) = Len(old) + Len(more)
        /\ Len(old) \in Nat /\ Len(more) \in Nat
        /\ DOMAIN old = 1 .. Len(old) /\ DOMAIN more = 1 .. Len(more)
        /\ DOMAIN (old \o more) = 1 .. Len(old) + Len(more)
    OBVIOUS
  <1>2. \A i \in DOMAIN (old \o more) \ DOMAIN old :
          i - Len(old) \in DOMAIN more /\ (old \o more)[i] = more[i - Len(old)] /\ i > Len(old)
    BY <1>1
  <1> QED
    BY <1>1, <1>2

(* The GUI thread takes the first callback; what it adds comes last. *)
LEMMA TakenOff ==
  ASSUME NEW old \in Seq(Callback), old # <<>>
  PROVE  /\ Tail(old) \in Seq(Callback)
         /\ Head(old) = old[1] /\ 1 \in DOMAIN old
         /\ \A i : i \in DOMAIN Tail(old) <=> i \in Nat \ {0} /\ i + 1 \in DOMAIN old
         /\ \A i \in DOMAIN Tail(old) : Tail(old)[i] = old[i + 1]
  OBVIOUS

(* A callback has these fields. *)
LEMMA CallbackFields ==
  ASSUME NEW callback \in Callback
  PROVE  /\ callback.do \in {"set", "remark", "done", "forget", "display", "write"}
         /\ callback.job \in Jobs \cup {NoJob} /\ callback.lines \in 0 .. MaxLines
         /\ callback.do = "forget" <=> callback = ForgetEvent
         /\ callback.do = "remark" => callback.job = NoJob
  BY MaintenanceAssumption DEF Callback, Remark, ForgetEvent, Display

(* What is put in the queue, and what the panel becomes, has its type. *)
LEMMA CallbackTypes ==
  ASSUME MaintenanceOK
  PROVE  /\ \A j \in Jobs, n \in 0 .. MaxLines : SetOutput(j, n) \in Callback
         /\ \A j \in Jobs : Done(j) \in Callback
         /\ Remark \in Callback /\ ForgetEvent \in Callback /\ Display \in Callback
         /\ Write \in Callback
         /\ Writes(1) \in Seq(Callback) /\ ClearTexts \in Seq(Callback)
         /\ NoPanel \in Panel /\ \A n \in 0 .. MaxTurns + 1 : Blank(n) \in Panel
<1> USE MaintenanceAssumption
<1>1. /\ \A j \in Jobs, n \in 0 .. MaxLines : SetOutput(j, n) \in Callback
      /\ \A j \in Jobs : Done(j) \in Callback
      /\ Remark \in Callback /\ ForgetEvent \in Callback /\ Display \in Callback
  BY DEF SetOutput, Done, Remark, ForgetEvent, Display, Callback
<1>2. Write \in Callback
  BY DEF MaintenanceOK, Panel, Write, Callback
<1>3. Writes(1) \in Seq(Callback)
  BY <1>2 DEF Writes
<1>4. ClearTexts \in Seq(Callback)
  BY <1>1, <1>3 DEF ClearTexts
<1>5. NoPanel \in Panel /\ \A n \in 0 .. MaxTurns + 1 : Blank(n) \in Panel
  BY DEF NoPanel, Blank, Panel
<1> QED
  BY <1>1, <1>2, <1>3, <1>4, <1>5

(* The texts that handlers write are neither output nor label nor end of a job. *)
LEMMA Neutral ==
  /\ \A i \in DOMAIN Writes(1) : Writes(1)[i] = Write
  /\ \A i \in DOMAIN ClearTexts : ClearTexts[i] \in {Remark, Write}
<1>1. \A i \in DOMAIN Writes(1) : Writes(1)[i] = Write
  BY DEF Writes
<1> QED
  BY <1>1 DEF ClearTexts

(* One page shows itself at the start, and nothing runs. *)
LEMMA MaintenanceOKInit == MaintenanceInit => MaintenanceOK
<1> SUFFICES ASSUME MaintenanceInit PROVE MaintenanceOK
  OBVIOUS
<1>1. job \in [Jobs -> Job]
  BY MaintenanceAssumption DEF MaintenanceInit, Job, Stage
<1>2. panel \in Panel
  BY MaintenanceAssumption DEF MaintenanceInit, Panel, Blank, NoPanel
<1>3. callbacks \in Seq(Callback) /\ turns \in 0 .. MaxTurns /\ page \in 1 .. turns + 1
  BY MaintenanceAssumption DEF MaintenanceInit
<1> QED
  BY <1>1, <1>2, <1>3 DEF MaintenanceInit, MaintenanceOK

(***************************************************************************)
(* What a step of the thread of job j does, as far as the panel and the    *)
(* event are concerned: it works on, reads a line, has all of the output   *)
(* shown, has the label shown, gives up with a remark, or ends.            *)
(***************************************************************************)
Moves(j, stage) == job'[j].lines = job[j].lines /\ job'[j].at = stage
Early == Stage \ {"none", "labelling", "finishing", "ended"}

Works(j) ==
  /\ job[j].at \in Early /\ \E stage \in Early : Moves(j, stage)
  /\ callbacks' = callbacks
Reads(j) ==
  /\ job[j].at = "reading" /\ job'[j].at = "reading" /\ job'[j].lines = job[j].lines + 1
  /\ callbacks' \in {callbacks, Append(callbacks, SetOutput(j, job'[j].lines))}
Flushes(j) ==
  /\ job[j].at = "waiting" /\ Moves(j, "labelling")
  /\ callbacks' = IF job[j].lines > 0 THEN Append(callbacks, SetOutput(j, job[j].lines)) ELSE callbacks
Labels(j) ==
  /\ job[j].at = "labelling" /\ Moves(j, "finishing") /\ callbacks' = Append(callbacks, Done(j))
GivesUp(j) ==
  /\ job[j].at \in Early /\ Moves(j, "finishing") /\ callbacks' = Append(callbacks, Remark)
Ends(j) ==
  /\ job[j].at = "finishing" /\ Moves(j, "ended") /\ callbacks' = Append(callbacks, ForgetEvent)

(* Every step of a thread is one of these, and leaves the other jobs alone. *)
LEMMA ThreadEffect ==
  ASSUME MaintenanceOK, NEW j \in Jobs,
         ThreadStep(j) \/ ReadLine(j) \/ EndOfOutput(j) \/ Exit(j)
  PROVE  /\ Quietly
         /\ job' \in [Jobs -> Job] /\ \A i \in Jobs \ {j} : job'[i] = job[i]
         /\ Works(j) \/ Reads(j) \/ Flushes(j) \/ Labels(j) \/ GivesUp(j) \/ Ends(j)
<1> DEFINE Goal == /\ Quietly
                   /\ job' \in [Jobs -> Job] /\ \A i \in Jobs \ {j} : job'[i] = job[i]
                   /\ Works(j) \/ Reads(j) \/ Flushes(j) \/ Labels(j) \/ GivesUp(j) \/ Ends(j)
<1>1. job \in [Jobs -> Job] /\ job[j] \in Job /\ job[j].lines \in 0 .. MaxLines /\ MaxLines \in Nat
  BY MaintenanceAssumption DEF MaintenanceOK, Job
<1>2. ASSUME NEW r \in Job, job' = [job EXCEPT ![j] = r]
      PROVE  job' \in [Jobs -> Job] /\ job'[j] = r /\ \A i \in Jobs \ {j} : job'[i] = job[i]
  BY <1>1, <1>2
<1>3. CASE Spawn(j)
  <2>1. CASE /\ job' = [job EXCEPT ![j].at = "reading", ![j].child = TRUE]
             /\ callbacks' = callbacks
    <3>1. job' = [job EXCEPT ![j] = [job[j] EXCEPT !.at = "reading", !.child = TRUE]]
      BY <1>1, <2>1
    <3>2. [job[j] EXCEPT !.at = "reading", !.child = TRUE] \in Job
      BY <1>1 DEF Job, Stage
    <3> QED
      BY <1>1, <1>2, <1>3, <2>1, <3>1, <3>2 DEF Spawn, Quietly, Works, Moves, Early, Job, Stage
  <2>2. CASE /\ job' = [job EXCEPT ![j].at = "finishing"]
             /\ callbacks' = Append(callbacks, Remark)
    BY <1>1, <1>3, <2>2 DEF Spawn, Quietly, GivesUp, Moves, Early, Job, Stage
  <2> QED
    BY <1>3, <2>1, <2>2 DEF Spawn
<1>4. CASE Kill(j)
  BY <1>1, <1>4 DEF Kill, Quietly, Step, Works, Reads, Flushes, Labels, GivesUp, Ends, Moves, Early, Job, Stage
<1>5. CASE LastFlush(j)
  BY <1>1, <1>5 DEF LastFlush, Quietly, Step, Works, Reads, Flushes, Labels, GivesUp, Ends, Moves, Early, Job, Stage
<1>6. CASE Label(j)
  BY <1>1, <1>6 DEF Label, Quietly, Step, Works, Reads, Flushes, Labels, GivesUp, Ends, Moves, Early, Job, Stage
<1>7. CASE TimeOut(j)
  BY <1>1, <1>7 DEF TimeOut, Quietly, Step, Works, Reads, Flushes, Labels, GivesUp, Ends, Moves, Early, Job, Stage
<1>8. CASE Finish(j)
  BY <1>1, <1>8 DEF Finish, Quietly, Step, Works, Reads, Flushes, Labels, GivesUp, Ends, Moves, Early, Job, Stage
<1>9. CASE ReadLine(j)
  <2>1. CASE j \in cancelled
    BY <1>1, <1>9, <2>1 DEF ReadLine, Quietly, Works, Moves, Early, Job, Stage
  <2>2. CASE j \notin cancelled
    <3>1. job' = [job EXCEPT ![j] = [job[j] EXCEPT !.lines = @ + 1]]
      BY <1>9, <2>2 DEF ReadLine
    <3>2. [job[j] EXCEPT !.lines = @ + 1] \in Job
      BY <1>1, <1>9 DEF ReadLine, Job
    <3>3. job'[j].at = "reading" /\ job'[j].lines = job[j].lines + 1
      BY <1>1, <1>9, <3>1 DEF ReadLine, Job
    <3>4. callbacks' \in {callbacks, Append(callbacks, SetOutput(j, job'[j].lines))}
      BY <1>9, <2>2, <3>3 DEF ReadLine
    <3> QED
      BY <1>2, <1>9, <3>1, <3>2, <3>3, <3>4 DEF ReadLine, Quietly, Reads
  <2> QED
    BY <2>1, <2>2
<1>10. CASE EndOfOutput(j)
  <2>1. PICK child \in BOOLEAN :
          job' = [job EXCEPT ![j].child = child,
                             ![j].at = IF j \in cancelled THEN "killing" ELSE "waiting"]
    BY <1>10 DEF EndOfOutput
  <2>2. PICK stage \in {"killing", "waiting"} :
          job' = [job EXCEPT ![j] = [job[j] EXCEPT !.child = child, !.at = stage]]
    BY <1>1, <2>1
  <2>3. /\ [job[j] EXCEPT !.child = child, !.at = stage] \in Job
        /\ [job[j] EXCEPT !.child = child, !.at = stage].lines = job[j].lines
        /\ [job[j] EXCEPT !.child = child, !.at = stage].at = stage
    BY <1>1 DEF Job, Stage
  <2> QED
    BY <1>2, <1>10, <2>2, <2>3 DEF EndOfOutput, Quietly, Works, Moves, Early, Stage
<1>11. CASE Exit(j)
  BY <1>1, <1>11 DEF Exit, Quietly, Step, Works, Reads, Flushes, Labels, GivesUp, Ends, Moves, Early, Job, Stage
<1> QED
  BY <1>3, <1>4, <1>5, <1>6, <1>7, <1>8, <1>9, <1>10, <1>11 DEF ThreadStep


(* The GUI thread runs the first callback; only one for a result of the      *)
(* agents puts another in the queue.                                         *)
LEMMA RunEffect ==
  ASSUME MaintenanceOK, RunCallback
  PROVE  /\ callbacks # <<>> /\ UNCHANGED <<job, cancelled, page, turns, hurried>>
         /\ callbacks' \in {Tail(callbacks), Tail(callbacks) \o Writes(1)}
         /\ cancelEvent' = IF callbacks[1].do = "forget" THEN NoJob ELSE cancelEvent
         /\ panel' = CASE callbacks[1].do = "set" ->
                            IF Built THEN [page |-> panel.page, job |-> callbacks[1].job,
                                           lines |-> callbacks[1].lines, done |-> {}]
                            ELSE panel
                       [] callbacks[1].do \in {"remark", "done"} ->
                            IF Built THEN [panel EXCEPT !.done = @ \cup ({callbacks[1].job} \ {NoJob})]
                            ELSE panel
                       [] callbacks[1].do = "write" ->
                            IF callbacks[1].page = panel.page THEN Blank(panel.page) ELSE panel
                       [] OTHER -> panel
<1> DEFINE callback == callbacks[1]
<1>1. /\ callbacks # <<>> /\ callbacks \in Seq(Callback) /\ Head(callbacks) = callback /\ callback \in Callback
      /\ Run(Head(callbacks)) /\ UNCHANGED <<job, cancelled, page, turns, hurried>>
  BY DEF RunCallback, MaintenanceOK
<1> HIDE DEF callback
<1>2. Run(callback) /\ callback.do \in {"set", "remark", "done", "forget", "display", "write"}
  BY <1>1, CallbackFields
<1>3. callbacks' \in {Tail(callbacks), Tail(callbacks) \o Writes(1)}
  BY <1>2 DEF Run
<1>4. cancelEvent' = IF callback.do = "forget" THEN NoJob ELSE cancelEvent
  BY <1>2 DEF Run
<1>5. panel' = CASE callback.do = "set" ->
                      IF Built THEN [page |-> panel.page, job |-> callback.job,
                                     lines |-> callback.lines, done |-> {}]
                      ELSE panel
                 [] callback.do \in {"remark", "done"} ->
                      IF Built THEN [panel EXCEPT !.done = @ \cup ({callback.job} \ {NoJob})]
                      ELSE panel
                 [] callback.do = "write" ->
                      IF callback.page = panel.page THEN Blank(panel.page) ELSE panel
                 [] OTHER -> panel
  BY <1>2 DEF Run, Blank, NoPanel
<1> QED
  BY <1>1, <1>3, <1>4, <1>5 DEF callback

(* Every step keeps the types. *)
LEMMA MaintenanceOKStep == MaintenanceOK /\ [MaintenanceNext]_maintenanceVars => MaintenanceOK'
<1>1. SUFFICES ASSUME MaintenanceOK, [MaintenanceNext]_maintenanceVars PROVE MaintenanceOK'
  OBVIOUS
<1>2. ASSUME NEW j \in Jobs, ThreadStep(j) \/ ReadLine(j) \/ EndOfOutput(j) \/ Exit(j)
      PROVE  MaintenanceOK'
  <2>1. /\ Quietly /\ job' \in [Jobs -> Job]
        /\ Works(j) \/ Reads(j) \/ Flushes(j) \/ Labels(j) \/ GivesUp(j) \/ Ends(j)
    BY <1>1, <1>2, ThreadEffect
  <2>2. job[j].lines \in 0 .. MaxLines /\ job'[j].lines \in 0 .. MaxLines
    BY <1>1, <2>1 DEF MaintenanceOK, Job
  <2>3. callbacks' = callbacks \/ \E callback \in Callback : callbacks' = Append(callbacks, callback)
    BY <1>1, <2>1, <2>2, CallbackTypes DEF Works, Reads, Flushes, Labels, GivesUp, Ends
  <2>4. callbacks' \in Seq(Callback)
    BY <1>1, <2>3 DEF MaintenanceOK
  <2> QED
    BY <1>1, <2>1, <2>4 DEF MaintenanceOK, Quietly
<1>3. ASSUME NEW j \in Jobs, ClickRun(j) PROVE MaintenanceOK'
  <2>1. job' = [job EXCEPT ![j] = [job[j] EXCEPT !.at = "queued"]] /\ job[j] \in Job
    BY <1>1, <1>3 DEF ClickRun, MaintenanceOK
  <2>2. [job[j] EXCEPT !.at = "queued"] \in Job
    BY <2>1 DEF Job, Stage
  <2>3. job' \in [Jobs -> Job]
    BY <1>1, <2>1, <2>2 DEF MaintenanceOK
  <2>4. callbacks' \in Seq(Callback)
    BY <1>1, <1>3, CallbackTypes DEF ClickRun, MaintenanceOK
  <2>5. hurried' \in BOOLEAN
    BY <1>3 DEF ClickRun
  <2> QED
    BY <1>1, <1>3, <2>3, <2>4, <2>5 DEF ClickRun, MaintenanceOK
<1>4. ASSUME ClickClear PROVE MaintenanceOK'
  BY <1>1, <1>4, CallbackTypes, MaintenanceAssumption DEF ClickClear, CancelAndClear, MaintenanceOK
<1>5. ASSUME OtherText PROVE MaintenanceOK'
  <2>1. callbacks' \in Seq(Callback)
    <3>1. PICK texts \in {Writes(1), <<Display>>} : callbacks' = callbacks \o texts
      BY <1>5 DEF OtherText
    <3>2. Writes(1) \in Seq(Callback) /\ <<Display>> \in Seq(Callback)
      BY <1>1, CallbackTypes
    <3>3. texts \in Seq(Callback)
      BY <3>1, <3>2
    <3> QED
      BY <1>1, <3>1, <3>3 DEF MaintenanceOK
  <2> QED
    BY <1>1, <1>5, <2>1, MaintenanceAssumption DEF OtherText, MaintenanceOK
<1>6. ASSUME RebuildTab PROVE MaintenanceOK'
  <2>1. /\ turns' \in 0 .. MaxTurns /\ page' \in 1 .. turns' + 1 /\ page + 1 \in 0 .. MaxTurns + 1
    BY <1>1, <1>6, MaintenanceAssumption DEF RebuildTab, MaintenanceOK
  <2>2. callbacks \in Seq(Callback) /\ <<>> \in Seq(Callback)
    BY <1>1 DEF MaintenanceOK
  <2>3. callbacks' \in Seq(Callback)
    BY <1>6, <2>2 DEF RebuildTab
  <2>4. panel' \in Panel
    BY <1>1, <1>6, <2>1, CallbackTypes DEF RebuildTab
  <2> QED
    BY <1>1, <1>6, <2>1, <2>4, <2>3 DEF RebuildTab, MaintenanceOK
<1>7. ASSUME RunCallback PROVE MaintenanceOK'
  <2> DEFINE more == Writes(1)
  <2>1. callbacks \in Seq(Callback) /\ callbacks # <<>> /\ more \in Seq(Callback)
    BY <1>1, <1>7, RunEffect, CallbackTypes DEF MaintenanceOK
  <2>2. callbacks' \in {Tail(callbacks), Tail(callbacks) \o more}
    BY <1>1, <1>7, RunEffect
  <2> HIDE DEF more
  <2>3. Tail(callbacks) \in Seq(Callback) /\ callbacks[1] \in Callback
    BY <2>1
  <2>4. Tail(callbacks) \o more \in Seq(Callback)
    BY <2>1, <2>3
  <2>5. callbacks' \in Seq(Callback) /\ callbacks[1] \in Callback
    BY <2>2, <2>3, <2>4
  <2>6. /\ panel.page \in 0 .. MaxTurns + 1 /\ panel.job \in Jobs \cup {NoJob}
        /\ panel.lines \in 0 .. MaxLines /\ panel.done \in SUBSET Jobs /\ panel \in Panel
        /\ callbacks[1].job \in Jobs \cup {NoJob} /\ callbacks[1].lines \in 0 .. MaxLines
        /\ Blank(panel.page) \in Panel
    BY <1>1, <2>5, CallbackTypes, CallbackFields DEF MaintenanceOK, Panel
  <2>7. /\ [page |-> panel.page, job |-> callbacks[1].job, lines |-> callbacks[1].lines, done |-> {}] \in Panel
        /\ [panel EXCEPT !.done = @ \cup ({callbacks[1].job} \ {NoJob})] \in Panel
    BY <2>6 DEF Panel
  <2>8. panel' \in Panel
    BY <1>1, <1>7, <2>6, <2>7, RunEffect
  <2> QED
    BY <1>1, <1>7, <2>5, <2>8, RunEffect DEF MaintenanceOK
<1>8. ASSUME UNCHANGED maintenanceVars PROVE MaintenanceOK'
  BY <1>1, <1>8 DEF maintenanceVars, MaintenanceOK
<1> QED
  BY <1>1, <1>2, <1>3, <1>4, <1>5, <1>6, <1>7, <1>8 DEF MaintenanceNext

(* A callback put in the queue comes after all the rest. *)
LEMMA AppendedLast ==
  ASSUME NEW old \in Seq(Callback), NEW callback
  PROVE  /\ \A i \in DOMAIN old :
              i \in DOMAIN Append(old, callback) /\ Append(old, callback)[i] = old[i] /\ i < Len(old) + 1
         /\ Len(old) + 1 \in DOMAIN Append(old, callback)
         /\ Append(old, callback)[Len(old) + 1] = callback
         /\ \A i \in DOMAIN Append(old, callback) \ DOMAIN old : i = Len(old) + 1
  OBVIOUS

(* CancelReaches is not inductive.  Who waits for the end of a job to be seen *)
(* has one job at a time, and none while the page has an event to forget.     *)
OneAtATime == \A i, j \in Jobs : Unfinished(i) /\ Unfinished(j) => i = j
QuietEnd == Forgetting => \A j \in Jobs : ~Unfinished(j)

CancelInv == MaintenanceOK /\ (~hurried => OneAtATime /\ QuietEnd) /\ CancelReaches

(* No job runs at the start. *)
LEMMA CancelInvInit == MaintenanceInit => CancelInv
<1> SUFFICES ASSUME MaintenanceInit PROVE CancelInv
  OBVIOUS
<1>1. \A j \in Jobs : ~Unfinished(j)
  BY DEF MaintenanceInit, Unfinished
<1> QED
  BY <1>1, MaintenanceOKInit DEF CancelInv, OneAtATime, QuietEnd, CancelReaches

(* No text that is written is the order to forget the event. *)
LEMMA OthersForgetNothing ==
  /\ Remark # ForgetEvent /\ Write # ForgetEvent /\ Display # ForgetEvent
  /\ \A j, n : SetOutput(j, n) # ForgetEvent /\ Done(j) # ForgetEvent
  BY DEF Remark, Write, Display, SetOutput, Done, ForgetEvent

(* Every step keeps the current event that of the job that runs. *)
LEMMA CancelInvStep == CancelInv /\ [MaintenanceNext]_maintenanceVars => CancelInv'
<1>1. SUFFICES ASSUME CancelInv, [MaintenanceNext]_maintenanceVars PROVE CancelInv'
  OBVIOUS
<1>2. MaintenanceOK /\ MaintenanceOK' /\ callbacks \in Seq(Callback)
  BY <1>1, MaintenanceOKStep DEF CancelInv, MaintenanceOK
<1>3. (\A i \in DOMAIN callbacks' \ DOMAIN callbacks : callbacks'[i] # ForgetEvent)
      /\ (\A i \in DOMAIN callbacks : i \in DOMAIN callbacks' => callbacks'[i] = callbacks[i])
      => (Forgetting' => Forgetting)
  BY DEF Forgetting, ForgetEvent
<1>4. ASSUME NEW j \in Jobs, ThreadStep(j) \/ ReadLine(j) \/ EndOfOutput(j) \/ Exit(j)
      PROVE  CancelInv'
  <2>1. /\ Quietly /\ \A i \in Jobs \ {j} : job'[i] = job[i]
        /\ Works(j) \/ Reads(j) \/ Flushes(j) \/ Labels(j) \/ GivesUp(j) \/ Ends(j)
    BY <1>2, <1>4, ThreadEffect
  <2>2. Unfinished(j) /\ \A i \in Jobs : Unfinished(i)' => Unfinished(i)
    BY <2>1 DEF Unfinished, Works, Reads, Flushes, Labels, GivesUp, Ends, Early, Stage
  <2>3. CASE Ends(j)
    <3>1. ~Unfinished(j)'
      BY <2>3 DEF Ends, Moves, Unfinished
    <3>2. ~hurried => \A i \in Jobs : ~Unfinished(i)'
      BY <1>1, <2>2, <3>1 DEF CancelInv, OneAtATime
    <3> QED
      BY <1>2, <2>1, <3>2 DEF CancelInv, OneAtATime, QuietEnd, CancelReaches, Quietly
  <2>4. CASE ~Ends(j)
    <3>1. callbacks' = callbacks \/ \E callback : callback # ForgetEvent /\ callbacks' = Append(callbacks, callback)
      BY <2>1, <2>4, OthersForgetNothing DEF Works, Reads, Flushes, Labels, GivesUp
    <3>2. Forgetting' => Forgetting
      BY <1>2, <1>3, <3>1, AppendedLast
    <3> QED
      BY <1>1, <1>2, <2>1, <2>2, <3>2 DEF CancelInv, OneAtATime, QuietEnd, CancelReaches, Quietly
  <2> QED
    BY <2>3, <2>4
<1>5. ASSUME NEW more \in Seq(Callback), callbacks' = callbacks \o more,
             \A k \in DOMAIN more : more[k] # ForgetEvent
      PROVE  Forgetting' => Forgetting
  BY <1>2, <1>3, <1>5, QueuedLast
<1>6. ASSUME callbacks' = callbacks \o ClearTexts PROVE Forgetting' => Forgetting
  <2>1. ClearTexts \in Seq(Callback) /\ \A k \in DOMAIN ClearTexts : ClearTexts[k] # ForgetEvent
    BY <1>2, CallbackTypes, Neutral, OthersForgetNothing
  <2> QED
    BY <1>5, <1>6, <2>1
<1>7. ASSUME NEW j \in Jobs, ClickRun(j) PROVE CancelInv'
  <2>1. /\ hurried' = (hurried \/ Forgetting \/ \E i \in Jobs : Unfinished(i))
        /\ cancelEvent' = j /\ \A i \in Jobs \ {j} : job'[i] = job[i]
        /\ callbacks' = callbacks \o ClearTexts \o Writes(1)
    BY <1>2, <1>7 DEF ClickRun, MaintenanceOK
  <2>2. CASE ~hurried'
    <3>1. \A i \in Jobs \ {j} : ~Unfinished(i)'
      BY <2>1, <2>2 DEF Unfinished
    <3>2. ClearTexts \o Writes(1) \in Seq(Callback)
          /\ \A k \in DOMAIN (ClearTexts \o Writes(1)) : (ClearTexts \o Writes(1))[k] # ForgetEvent
      <4> DEFINE first == ClearTexts
                 second == Writes(1)
      <4>1. /\ first \in Seq(Callback) /\ second \in Seq(Callback)
            /\ \A k \in DOMAIN first : first[k] # ForgetEvent
            /\ \A k \in DOMAIN second : second[k] # ForgetEvent
        BY <1>2, CallbackTypes, Neutral, OthersForgetNothing
      <4> HIDE DEF first, second
      <4>2. /\ first \o second \in Seq(Callback)
            /\ \A k \in DOMAIN (first \o second) : (first \o second)[k] # ForgetEvent
        BY <4>1, QueuedLast
      <4> QED
        BY <4>2 DEF first, second
    <3>3. callbacks' = callbacks \o (ClearTexts \o Writes(1))
      <4> DEFINE first == ClearTexts
                 second == Writes(1)
      <4>1. first \in Seq(Callback) /\ second \in Seq(Callback) /\ callbacks' = callbacks \o first \o second
        BY <1>2, <2>1, CallbackTypes
      <4> HIDE DEF first, second
      <4>2. callbacks' = callbacks \o (first \o second)
        BY <1>2, <4>1
      <4> QED
        BY <4>2 DEF first, second
    <3>4. ~Forgetting'
      BY <1>5, <2>1, <2>2, <3>2, <3>3
    <3> QED
      BY <1>2, <2>1, <3>1, <3>4 DEF CancelInv, OneAtATime, QuietEnd, CancelReaches
  <2> QED
    BY <1>2, <2>2 DEF CancelInv, CancelReaches
<1>8. ASSUME ClickClear PROVE CancelInv'
  <2>1. Forgetting' => Forgetting
    BY <1>6, <1>8 DEF ClickClear
  <2>2. \A i \in Jobs : Unfinished(i)' <=> Unfinished(i)
    BY <1>8 DEF ClickClear, Unfinished
  <2>3. /\ hurried' = hurried
        /\ \A i \in Jobs : i \in cancelled \/ cancelEvent = i => i \in cancelled'
    BY <1>8 DEF ClickClear, CancelAndClear, Jobs, NoJob
  <2> QED
    BY <1>1, <1>2, <2>1, <2>2, <2>3 DEF CancelInv, OneAtATime, QuietEnd, CancelReaches
<1>9. ASSUME OtherText PROVE CancelInv'
  <2>1. PICK texts \in {Writes(1), <<Display>>} : callbacks' = callbacks \o texts
    BY <1>9 DEF OtherText
  <2>2. texts \in Seq(Callback) /\ \A k \in DOMAIN texts : texts[k] # ForgetEvent
    <3>1. CASE texts = Writes(1)
      BY <1>2, <3>1, CallbackTypes, Neutral, OthersForgetNothing
    <3>2. CASE texts = <<Display>>
      BY <1>2, <3>2, CallbackTypes, OthersForgetNothing
    <3> QED
      BY <3>1, <3>2
  <2>3. Forgetting' => Forgetting
    BY <1>5, <2>1, <2>2
  <2> QED
    BY <1>1, <1>2, <1>9, <2>3 DEF OtherText, CancelInv, OneAtATime, QuietEnd, CancelReaches, Unfinished
<1>10. ASSUME RebuildTab PROVE CancelInv'
  <2>1. Forgetting' => Forgetting
    BY <1>10 DEF RebuildTab, Forgetting
  <2> QED
    BY <1>1, <1>2, <1>10, <2>1 DEF RebuildTab, CancelInv, OneAtATime, QuietEnd, CancelReaches, Unfinished
<1>11. ASSUME RunCallback PROVE CancelInv'
  <2>1. /\ callbacks # <<>> /\ UNCHANGED <<job, cancelled, hurried>>
        /\ callbacks' \in {Tail(callbacks), Tail(callbacks) \o Writes(1)}
        /\ cancelEvent' = IF callbacks[1].do = "forget" THEN NoJob ELSE cancelEvent
    BY <1>2, <1>11, RunEffect
  <2>2. Forgetting' => Forgetting
    <3>1. \A i \in DOMAIN Tail(callbacks) : Tail(callbacks)[i] = ForgetEvent => Forgetting
      BY <1>2, <2>1, TakenOff DEF Forgetting
    <3>2. CASE callbacks' = Tail(callbacks)
      BY <3>1, <3>2 DEF Forgetting, ForgetEvent
    <3>3. CASE callbacks' = Tail(callbacks) \o Writes(1)
      <4>1. /\ Tail(callbacks) \in Seq(Callback) /\ Writes(1) \in Seq(Callback)
            /\ \A k \in DOMAIN Writes(1) : Writes(1)[k] # ForgetEvent
        BY <1>2, <2>1, TakenOff, CallbackTypes, Neutral, OthersForgetNothing
      <4>2. ASSUME NEW i \in DOMAIN callbacks', callbacks'[i] = ForgetEvent PROVE Forgetting
        BY <3>1, <3>3, <4>1, <4>2, QueuedLast
      <4> QED
        BY <4>2 DEF Forgetting, ForgetEvent
    <3> QED
      BY <2>1, <3>2, <3>3
  <2>3. callbacks[1].do = "forget" => Forgetting
    <3>1. callbacks[1] \in Callback /\ 1 \in DOMAIN callbacks
      BY <1>2, <2>1
    <3> QED
      BY <3>1, CallbackFields DEF Forgetting
  <2> QED
    BY <1>1, <1>2, <2>1, <2>2, <2>3 DEF CancelInv, OneAtATime, QuietEnd, CancelReaches, Unfinished
<1>12. ASSUME UNCHANGED maintenanceVars PROVE CancelInv'
  BY <1>1, <1>2, <1>12 DEF maintenanceVars, CancelInv, OneAtATime, QuietEnd, CancelReaches, Unfinished, Forgetting, ForgetEvent
<1> QED
  BY <1>1, <1>4, <1>7, <1>8, <1>9, <1>10, <1>11, <1>12 DEF MaintenanceNext

(* PanelComplete is not inductive.  What is shown and still to be shown of a  *)
(* job are lines it has read; the label comes after the last of its lines;    *)
(* and a job whose output was flushed has all of it shown last.               *)
IsSet(callback, j) == callback.do = "set" /\ callback.job = j
IsDone(callback, j) == callback.do = "done" /\ callback.job = j
SetAt(i, j) == i \in DOMAIN callbacks /\ IsSet(callbacks[i], j)
DoneAt(i, j) == i \in DOMAIN callbacks /\ IsDone(callbacks[i], j)

LinesRead ==
  /\ \A j \in Jobs, i \in Nat : SetAt(i, j) => callbacks[i].lines \in 1 .. job[j].lines
  /\ panel.job # NoJob => panel.lines \in 1 .. job[panel.job].lines
  /\ ~Built => panel.job = NoJob

Labelled(j) == j \in panel.done \/ \E m \in Nat : DoneAt(m, j)
LabelledLate == \A j \in Jobs : Labelled(j) => job[j].at \in {"finishing", "ended"}

LabelLast ==
  \A j \in Jobs, i \in Nat : SetAt(i, j) =>
    j \notin panel.done /\ \A m \in Nat : DoneAt(m, j) => i < m

AllShown ==
  \A j \in Jobs : Labelled(j) \/ job[j].at = "labelling" =>
    /\ \A i \in Nat : SetAt(i, j) =>
         callbacks[i].lines = job[j].lines \/ \E k \in Nat : i < k /\ SetAt(k, j)
    /\ (\A i \in Nat : ~SetAt(i, j)) /\ panel.job = j => panel.lines = job[j].lines

PanelOK == LinesRead /\ LabelledLate /\ LabelLast /\ AllShown
PanelInv == MaintenanceOK /\ PanelOK

(* Nothing is shown at the start. *)
LEMMA PanelInvInit == MaintenanceInit => PanelInv
<1> SUFFICES ASSUME MaintenanceInit PROVE PanelInv
  OBVIOUS
<1>1. /\ \A i, j : ~SetAt(i, j) /\ ~DoneAt(i, j)
      /\ panel.job = NoJob /\ panel.done = {} /\ \A j \in Jobs : job[j].at = "none"
  BY DEF MaintenanceInit, Blank, NoPanel, SetAt, DoneAt
<1> QED
  BY <1>1, MaintenanceOKInit DEF PanelInv, PanelOK, LinesRead, Labelled, LabelledLate, LabelLast, AllShown

(* The label under the output: it comes with all of the lines. *)
LEMMA PanelInvComplete == PanelInv => PanelComplete
  BY DEF PanelInv, PanelOK, LabelLast, AllShown, Labelled, PanelComplete

(* A step that adds no output and no label, and lets no job be flushed, keeps *)
(* all that.                                                                  *)
LEMMA PanelKept ==
  ASSUME PanelInv, UNCHANGED panel,
         \A i \in DOMAIN callbacks : i \in DOMAIN callbacks' /\ callbacks'[i] = callbacks[i],
         \A i \in DOMAIN callbacks' \ DOMAIN callbacks : callbacks'[i].do \notin {"set", "done"},
         \A j \in Jobs :
           /\ \/ job'[j].lines = job[j].lines
              \/ /\ job[j].at = "reading" /\ job'[j].at = "reading"
                 /\ job'[j].lines \in Nat /\ job[j].lines < job'[j].lines
           /\ job'[j].at = "labelling" => job[j].at = "labelling"
           /\ job[j].at \in {"finishing", "ended"} => job'[j].at \in {"finishing", "ended"}
  PROVE  PanelOK'
<1>1. \A i \in Nat, j \in Jobs :
        /\ SetAt(i, j)' <=> SetAt(i, j)
        /\ DoneAt(i, j)' <=> DoneAt(i, j)
        /\ SetAt(i, j) => callbacks'[i].lines = callbacks[i].lines
  BY DEF SetAt, DoneAt, IsSet, IsDone
<1>2. \A j \in Jobs : Labelled(j)' <=> Labelled(j)
  BY <1>1 DEF Labelled
<1>3. \A j \in Jobs : job[j].lines \in Nat /\ job[j].lines <= job'[j].lines /\ job'[j].lines \in Nat
  BY MaintenanceAssumption DEF PanelInv, MaintenanceOK, Job
<1>4. panel.job \in Jobs \cup {NoJob}
  BY DEF PanelInv, MaintenanceOK, Panel
<1>5. LinesRead'
  BY <1>1, <1>3, <1>4 DEF PanelInv, PanelOK, LinesRead, Built
<1>6. LabelledLate'
  BY <1>2 DEF PanelInv, PanelOK, LabelledLate
<1>7. LabelLast'
  BY <1>1 DEF PanelInv, PanelOK, LabelLast
<1>8. AllShown'
  <2>1. ASSUME NEW j \in Jobs, Labelled(j) \/ job'[j].at = "labelling"
        PROVE  (Labelled(j) \/ job[j].at = "labelling") /\ job'[j].lines = job[j].lines
    BY <2>1 DEF PanelInv, PanelOK, LabelledLate
  <2> QED
    BY <1>1, <1>2, <2>1 DEF PanelInv, PanelOK, AllShown
<1> QED
  BY <1>5, <1>6, <1>7, <1>8 DEF PanelOK

(* Every step of a thread keeps all that. *)
LEMMA PanelInvThread ==
  ASSUME PanelInv, NEW j \in Jobs, ThreadStep(j) \/ ReadLine(j) \/ EndOfOutput(j) \/ Exit(j)
  PROVE  PanelOK'
<1>1. /\ Quietly /\ \A i \in Jobs \ {j} : job'[i] = job[i]
      /\ Works(j) \/ Reads(j) \/ Flushes(j) \/ Labels(j) \/ GivesUp(j) \/ Ends(j)
      /\ UNCHANGED panel
  BY ThreadEffect DEF PanelInv, Quietly
<1>2. /\ callbacks \in Seq(Callback) /\ job[j].lines \in Nat /\ panel.job \in Jobs \cup {NoJob}
      /\ panel.lines \in Nat /\ \A i \in Jobs : job[i].lines \in Nat
      /\ MaxLines \in Nat
  BY MaintenanceAssumption DEF PanelInv, MaintenanceOK, Job, Panel
<1>3. ASSUME \/ callbacks' = callbacks
             \/ \E callback : callback.do \notin {"set", "done"} /\ callbacks' = Append(callbacks, callback)
      PROVE  /\ \A i \in DOMAIN callbacks : i \in DOMAIN callbacks' /\ callbacks'[i] = callbacks[i]
             /\ \A i \in DOMAIN callbacks' \ DOMAIN callbacks : callbacks'[i].do \notin {"set", "done"}
  BY <1>2, <1>3, AppendedLast
<1>4. CASE Works(j) \/ GivesUp(j) \/ Ends(j)
  <2>1. \/ callbacks' = callbacks
        \/ \E callback : callback.do \notin {"set", "done"} /\ callbacks' = Append(callbacks, callback)
    BY <1>4 DEF Works, GivesUp, Ends, Remark, ForgetEvent
  <2>2. /\ job'[j].lines = job[j].lines /\ job'[j].at # "labelling"
        /\ job[j].at \in {"finishing", "ended"} => job'[j].at \in {"finishing", "ended"}
    BY <1>4 DEF Works, GivesUp, Ends, Moves, Early, Stage
  <2> QED
    BY <1>1, <1>3, <2>1, <2>2, PanelKept
<1>5. CASE Reads(j) /\ callbacks' = callbacks
  <2>1. /\ job[j].at = "reading" /\ job'[j].at = "reading" /\ job'[j].lines = job[j].lines + 1
    BY <1>5 DEF Reads
  <2>2. job'[j].lines \in Nat /\ job[j].lines < job'[j].lines
    BY <1>2, <2>1
  <2> QED
    BY <1>1, <1>3, <1>5, <2>1, <2>2, PanelKept
(* A batch of lines, or all of them: no label of the job is there yet. *)
<1>6. ASSUME NEW n \in Nat, callbacks' = Append(callbacks, SetOutput(j, n)), n = job'[j].lines, 0 < n,
             job[j].at \in {"reading", "waiting"}, job'[j].at \in {"reading", "labelling"},
             job[j].lines <= n, job'[j].at = "labelling" => n = job[j].lines
      PROVE  PanelOK'
  <2> DEFINE last == Len(callbacks) + 1
  <2>1. last \in Nat /\ \A i \in DOMAIN callbacks : i \in Nat /\ i < last
    BY <1>2
  <2>2. \A i \in Nat, k \in Jobs :
          /\ SetAt(i, k)' <=> SetAt(i, k) \/ (i = last /\ k = j)
          /\ DoneAt(i, k)' <=> DoneAt(i, k)
          /\ SetAt(i, k) => callbacks'[i].lines = callbacks[i].lines /\ i < last
    BY <1>2, <1>6, <2>1, AppendedLast DEF SetAt, DoneAt, IsSet, IsDone, SetOutput
  <2>3. callbacks'[last].lines = n
    BY <1>2, <1>6, AppendedLast DEF SetOutput
  <2> HIDE DEF last
  <2>4. ~Labelled(j) /\ \A k \in Jobs : Labelled(k)' <=> Labelled(k)
    BY <1>1, <1>6, <2>2 DEF Labelled, PanelInv, PanelOK, LabelledLate
  <2>5. LinesRead'
    <3>1. \A k \in Jobs : job[k].lines \in Nat /\ job'[k].lines \in Nat /\ job[k].lines <= job'[k].lines
      BY <1>1, <1>2, <1>6
    <3>2. ASSUME NEW k \in Jobs, NEW i \in Nat, SetAt(i, k)' PROVE callbacks'[i].lines \in 1 .. job'[k].lines
      <4>1. CASE i = last /\ k = j
        <5>1. callbacks'[i].lines = n /\ job'[k].lines = n
          BY <1>6, <2>3, <4>1
        <5>2. n \in 1 .. n
          BY <1>6
        <5> QED
          BY <5>1, <5>2
      <4>2. CASE SetAt(i, k)
        <5>1. callbacks[i].lines \in 1 .. job[k].lines
          BY <4>2 DEF PanelInv, PanelOK, LinesRead
        <5> QED
          BY <2>2, <3>1, <4>2, <5>1
      <4> QED
        BY <2>2, <3>2, <4>1, <4>2
    <3>3. panel.job # NoJob => panel.lines \in 1 .. job'[panel.job].lines
      BY <1>2, <3>1 DEF PanelInv, PanelOK, LinesRead
    <3>4. ~Built => panel.job = NoJob
      BY DEF PanelInv, PanelOK, LinesRead
    <3> QED
      BY <1>1, <3>2, <3>3, <3>4 DEF LinesRead, Built
  <2>6. LabelledLate'
    BY <1>1, <2>4 DEF PanelInv, PanelOK, LabelledLate
  <2>7. LabelLast'
    BY <1>1, <2>2, <2>4 DEF PanelInv, PanelOK, LabelLast, Labelled
  <2>8. AllShown'
    <3> SUFFICES ASSUME NEW k \in Jobs, Labelled(k)' \/ job'[k].at = "labelling"
                 PROVE  /\ \A i \in Nat : SetAt(i, k)' =>
                             callbacks'[i].lines = job'[k].lines \/ \E l \in Nat : i < l /\ SetAt(l, k)'
                        /\ (\A i \in Nat : ~SetAt(i, k)') /\ panel'.job = k => panel'.lines = job'[k].lines
      BY DEF AllShown
    <3>1. CASE k = j
      BY <1>6, <2>1, <2>2, <2>3, <3>1
    <3>2. CASE k # j
      <4>1. job'[k] = job[k] /\ (Labelled(k) \/ job[k].at = "labelling") /\ panel' = panel
        BY <1>1, <2>4, <3>2
      <4>2. \A i \in Nat : SetAt(i, k)' <=> SetAt(i, k)
        BY <2>2, <3>2
      <4> QED
        BY <2>2, <4>1, <4>2 DEF PanelInv, PanelOK, AllShown
    <3> QED
      BY <3>1, <3>2
  <2> QED
    BY <2>5, <2>6, <2>7, <2>8 DEF PanelOK
<1>7. CASE Reads(j) /\ callbacks' # callbacks
  <2>1. /\ callbacks' = Append(callbacks, SetOutput(j, job'[j].lines))
        /\ job'[j].lines = job[j].lines + 1 /\ job[j].at = "reading" /\ job'[j].at = "reading"
    BY <1>7 DEF Reads
  <2> QED
    BY <1>2, <1>6, <2>1
<1>8. CASE Flushes(j) /\ job[j].lines > 0
  <2>1. /\ callbacks' = Append(callbacks, SetOutput(j, job'[j].lines))
        /\ job'[j].lines = job[j].lines /\ job[j].at = "waiting" /\ job'[j].at = "labelling"
    BY <1>8 DEF Flushes, Moves
  <2> QED
    BY <1>2, <1>6, <1>8, <2>1
(* A job without lines has none shown. *)
<1>9. CASE Flushes(j) /\ ~(job[j].lines > 0)
  <2>1. /\ callbacks' = callbacks /\ job[j].lines = 0 /\ job'[j].lines = job[j].lines
        /\ job[j].at = "waiting" /\ job'[j].at = "labelling" /\ panel' = panel
    BY <1>1, <1>2, <1>9 DEF Flushes, Moves
  <2>2. /\ \A i \in Nat : ~SetAt(i, j)
        /\ panel.job # j
    BY <2>1 DEF PanelInv, PanelOK, LinesRead, Jobs, NoJob
  <2>3. \A i, k : (SetAt(i, k)' <=> SetAt(i, k)) /\ (DoneAt(i, k)' <=> DoneAt(i, k))
    BY <2>1 DEF SetAt, DoneAt
  <2>4. \A k \in Jobs : (Labelled(k)' <=> Labelled(k)) /\ job'[k].lines = job[k].lines
    BY <1>1, <2>1, <2>3 DEF Labelled
  <2>5. ~Labelled(j)
    BY <2>1 DEF PanelInv, PanelOK, LabelledLate
  <2>6. LinesRead'
    BY <1>2, <2>1, <2>3, <2>4 DEF PanelInv, PanelOK, LinesRead, Built
  <2>7. LabelledLate' /\ LabelLast'
    BY <1>1, <2>1, <2>3, <2>4, <2>5 DEF PanelInv, PanelOK, LabelledLate, LabelLast
  <2>8. AllShown'
    BY <1>1, <2>1, <2>2, <2>3, <2>4 DEF PanelInv, PanelOK, AllShown
  <2> QED
    BY <2>6, <2>7, <2>8 DEF PanelOK
(* The label comes last. *)
<1>10. CASE Labels(j)
  <2> DEFINE last == Len(callbacks) + 1
  <2>1. last \in Nat /\ \A i \in DOMAIN callbacks : i \in Nat /\ i < last
    BY <1>2
  <2>2. /\ job[j].at = "labelling" /\ job'[j].at = "finishing" /\ job'[j].lines = job[j].lines
        /\ callbacks' = Append(callbacks, Done(j)) /\ panel' = panel
    BY <1>1, <1>10 DEF Labels, Moves
  <2>3. \A i \in Nat, k \in Jobs :
          /\ SetAt(i, k)' <=> SetAt(i, k)
          /\ DoneAt(i, k)' <=> DoneAt(i, k) \/ (i = last /\ k = j)
          /\ SetAt(i, k) => callbacks'[i].lines = callbacks[i].lines /\ i < last
    BY <1>2, <2>1, <2>2, AppendedLast DEF SetAt, DoneAt, IsSet, IsDone, Done
  <2> HIDE DEF last
  <2>4. \A k \in Jobs : /\ Labelled(k)' <=> Labelled(k) \/ k = j
                        /\ job'[k].lines = job[k].lines
    BY <1>1, <2>1, <2>2, <2>3 DEF Labelled
  <2>5. LinesRead'
    BY <1>2, <2>2, <2>3, <2>4 DEF PanelInv, PanelOK, LinesRead, Built
  <2>6. LabelledLate'
    BY <1>1, <2>2, <2>4 DEF PanelInv, PanelOK, LabelledLate
  <2>7. LabelLast'
    <3> SUFFICES ASSUME NEW k \in Jobs, NEW i \in Nat, SetAt(i, k)
                 PROVE  k \notin panel.done /\ \A m \in Nat : DoneAt(m, k)' => i < m
      BY <2>2, <2>3 DEF LabelLast
    <3> QED
      BY <2>1, <2>3 DEF PanelInv, PanelOK, LabelLast
  <2>8. AllShown'
    <3> SUFFICES ASSUME NEW k \in Jobs, Labelled(k)' \/ job'[k].at = "labelling"
                 PROVE  /\ \A i \in Nat : SetAt(i, k)' =>
                             callbacks'[i].lines = job'[k].lines \/ \E l \in Nat : i < l /\ SetAt(l, k)'
                        /\ (\A i \in Nat : ~SetAt(i, k)') /\ panel'.job = k => panel'.lines = job'[k].lines
      BY DEF AllShown
    <3>1. Labelled(k) \/ job[k].at = "labelling"
      BY <1>1, <2>2, <2>4
    <3>2. /\ \A i \in Nat : SetAt(i, k) =>
               callbacks[i].lines = job[k].lines \/ \E l \in Nat : i < l /\ SetAt(l, k)
          /\ (\A i \in Nat : ~SetAt(i, k)) /\ panel.job = k => panel.lines = job[k].lines
      BY <3>1 DEF PanelInv, PanelOK, AllShown
    <3> QED
      BY <2>2, <2>3, <2>4, <3>2
  <2> QED
    BY <2>5, <2>6, <2>7, <2>8 DEF PanelOK
<1> QED
  BY <1>1, <1>4, <1>5, <1>7, <1>8, <1>9, <1>10

(* The GUI thread runs a callback: what comes after it moves up. *)
LEMMA PanelInvRun == ASSUME PanelInv, RunCallback PROVE PanelOK'
<1>1. /\ callbacks # <<>> /\ callbacks \in Seq(Callback) /\ job' = job
      /\ callbacks' \in {Tail(callbacks), Tail(callbacks) \o Writes(1)}
      /\ callbacks[1] \in Callback
      /\ panel.job \in Jobs \cup {NoJob} /\ panel.done \subseteq Jobs
      /\ \A j \in Jobs : job[j].lines \in Nat
  <2>1. /\ callbacks # <<>> /\ callbacks \in Seq(Callback) /\ job' = job
        /\ callbacks' \in {Tail(callbacks), Tail(callbacks) \o Writes(1)}
    BY RunEffect DEF PanelInv, MaintenanceOK
  <2>2. callbacks[1] \in Callback
    BY <2>1
  <2> QED
    BY <2>1, <2>2, MaintenanceAssumption DEF PanelInv, MaintenanceOK, Panel, Job
<1> DEFINE callback == callbacks[1]
<1>2. /\ \A i \in DOMAIN callbacks' :
           \/ i \in Nat /\ i + 1 \in DOMAIN callbacks /\ callbacks'[i] = callbacks[i + 1]
           \/ callbacks'[i].do = "write"
      /\ \A i \in Nat \ {0} : i + 1 \in DOMAIN callbacks =>
           i \in DOMAIN callbacks' /\ callbacks'[i] = callbacks[i + 1]
      /\ 1 \in DOMAIN callbacks
      /\ 0 \notin DOMAIN callbacks'
  <2> DEFINE rest == Tail(callbacks)
             more == Writes(1)
  <2>1. /\ rest \in Seq(Callback) /\ more \in Seq(Callback) /\ 1 \in DOMAIN callbacks
        /\ \A i : i \in DOMAIN rest <=> i \in Nat \ {0} /\ i + 1 \in DOMAIN callbacks
        /\ \A i \in DOMAIN rest : rest[i] = callbacks[i + 1]
        /\ \A i \in DOMAIN more : more[i].do = "write"
    BY <1>1, TakenOff, CallbackTypes, Neutral DEF PanelInv, Write
  <2>2. callbacks' = rest \/ callbacks' = rest \o more
    BY <1>1
  <2> HIDE DEF rest, more
  <2>3. CASE callbacks' = rest
    BY <2>1, <2>3
  <2>4. CASE callbacks' = rest \o more
    <3>1. /\ \A i \in DOMAIN rest : i \in DOMAIN callbacks' /\ callbacks'[i] = rest[i]
          /\ \A i \in DOMAIN callbacks' \ DOMAIN rest : callbacks'[i].do = "write"
          /\ 0 \notin DOMAIN callbacks'
      BY <2>1, <2>4, QueuedLast
    <3> QED
      BY <2>1, <3>1
  <2> QED
    BY <2>2, <2>3, <2>4
<1>3. \A i \in Nat, j \in Jobs :
        /\ SetAt(i, j)' <=> i > 0 /\ SetAt(i + 1, j)
        /\ DoneAt(i, j)' <=> i > 0 /\ DoneAt(i + 1, j)
        /\ SetAt(i, j)' => callbacks'[i].lines = callbacks[i + 1].lines
  BY <1>2 DEF SetAt, DoneAt, IsSet, IsDone
<1>4. \A j \in Jobs : /\ SetAt(1, j) <=> IsSet(callback, j)
                      /\ DoneAt(1, j) <=> IsDone(callback, j)
                      /\ ~SetAt(0, j) /\ ~DoneAt(0, j)
  BY <1>1, <1>2 DEF SetAt, DoneAt
<1>5. /\ callback \in Callback
      /\ panel' = CASE callback.do = "set" ->
                         IF Built THEN [page |-> panel.page, job |-> callback.job,
                                        lines |-> callback.lines, done |-> {}]
                         ELSE panel
                    [] callback.do \in {"remark", "done"} ->
                         IF Built THEN [panel EXCEPT !.done = @ \cup ({callback.job} \ {NoJob})]
                         ELSE panel
                    [] callback.do = "write" ->
                         IF callback.page = panel.page THEN Blank(panel.page) ELSE panel
                    [] OTHER -> panel
  BY <1>1, RunEffect DEF PanelInv
<1> HIDE DEF callback
<1>6. panel \in Panel /\ (~Built => panel.job = NoJob)
  BY DEF PanelInv, PanelOK, LinesRead, MaintenanceOK
(* The panel keeps what it shows or shows the lines of the callback, and is   *)
(* only said to be done what the callback says is.                            *)
<1>7. /\ \/ panel'.job = panel.job /\ panel'.lines = panel.lines
         \/ callback.do = "set" /\ panel'.job = callback.job /\ panel'.lines = callback.lines
         \/ panel'.job = NoJob
      /\ callback.do = "set" => panel'.job \in {callback.job, NoJob}
      /\ panel'.done \subseteq panel.done \cup {j \in Jobs : IsDone(callback, j)}
      /\ panel'.page = panel.page
  <2>1. /\ panel \in Panel /\ callback.do \in {"set", "remark", "done", "forget", "display", "write"}
        /\ callback.job \in Jobs \cup {NoJob} /\ (callback.do = "remark" => callback.job = NoJob)
    BY <1>5, CallbackFields DEF PanelInv, MaintenanceOK
  <2>2. CASE callback.do = "set"
    BY <1>5, <1>6, <2>2
  <2>3. CASE callback.do \in {"remark", "done"}
    BY <1>5, <2>1, <2>3 DEF Panel, IsDone
  <2>4. CASE callback.do = "write"
    BY <1>5, <2>1, <2>4 DEF Panel, Blank, NoPanel
  <2>5. CASE callback.do \in {"forget", "display"}
    BY <1>5, <2>5
  <2> QED
    BY <2>1, <2>2, <2>3, <2>4, <2>5
<1>8. \A j \in Jobs : Labelled(j)' => Labelled(j)
  BY <1>3, <1>4, <1>7 DEF Labelled
<1>9. LinesRead'
  <2>1. \A j \in Jobs, i \in Nat : SetAt(i, j)' => callbacks'[i].lines \in 1 .. job[j].lines
    BY <1>3 DEF PanelInv, PanelOK, LinesRead
  <2>2. panel'.job # NoJob => panel'.lines \in 1 .. job[panel'.job].lines
    <3>1. callback.do = "set" /\ callback.job # NoJob =>
            callback.job \in Jobs /\ SetAt(1, callback.job) /\ callback.lines = callbacks[1].lines
      BY <1>4, <1>5, CallbackFields DEF IsSet, callback
    <3>2. callback.do = "set" /\ callback.job # NoJob => callback.lines \in 1 .. job[callback.job].lines
      BY <3>1 DEF PanelInv, PanelOK, LinesRead
    <3> QED
      BY <1>7, <3>2 DEF PanelInv, PanelOK, LinesRead
  <2>3. ~Built' => panel'.job = NoJob
    <3>1. CASE callback.do = "set"
      BY <1>5, <1>6, <1>7, <3>1 DEF Built
    <3>2. CASE callback.do # "set"
      BY <1>6, <1>7, <3>2 DEF Built
    <3> QED
      BY <3>1, <3>2
  <2> QED
    BY <1>1, <2>1, <2>2, <2>3 DEF LinesRead
<1>10. LabelledLate'
  BY <1>1, <1>8 DEF PanelInv, PanelOK, LabelledLate
<1>11. LabelLast'
  <2> SUFFICES ASSUME NEW j \in Jobs, NEW i \in Nat, SetAt(i, j)'
               PROVE  j \notin panel'.done /\ \A m \in Nat : DoneAt(m, j)' => i < m
    BY DEF LabelLast
  <2>1. SetAt(i + 1, j) /\ i + 1 \in Nat
    BY <1>3
  <2>2. j \notin panel.done /\ \A m \in Nat : DoneAt(m, j) => i + 1 < m
    BY <2>1 DEF PanelInv, PanelOK, LabelLast
  <2>3. ~IsDone(callback, j)
    BY <1>4, <2>2
  <2>4. \A m \in Nat : DoneAt(m, j)' => DoneAt(m + 1, j) /\ m + 1 \in Nat
    BY <1>3
  <2> QED
    BY <1>7, <2>2, <2>3, <2>4
<1>12. AllShown'
  <2> SUFFICES ASSUME NEW j \in Jobs, Labelled(j) \/ job[j].at = "labelling"
               PROVE  /\ \A i \in Nat : SetAt(i, j)' =>
                           callbacks'[i].lines = job[j].lines \/ \E k \in Nat : i < k /\ SetAt(k, j)'
                      /\ (\A i \in Nat : ~SetAt(i, j)') /\ panel'.job = j => panel'.lines = job[j].lines
    BY <1>1, <1>8 DEF AllShown
  <2>1. /\ \A i \in Nat : SetAt(i, j) =>
             callbacks[i].lines = job[j].lines \/ \E k \in Nat : i < k /\ SetAt(k, j)
        /\ (\A i \in Nat : ~SetAt(i, j)) /\ panel.job = j => panel.lines = job[j].lines
    BY DEF PanelInv, PanelOK, AllShown
  <2>2. ASSUME NEW i \in Nat, SetAt(i, j)'
        PROVE  callbacks'[i].lines = job[j].lines \/ \E k \in Nat : i < k /\ SetAt(k, j)'
    <3>1. SetAt(i + 1, j) /\ i + 1 \in Nat /\ callbacks'[i].lines = callbacks[i + 1].lines /\ i > 0
      BY <1>3, <2>2
    <3>2. CASE callbacks[i + 1].lines = job[j].lines
      BY <3>1, <3>2
    <3>3. CASE callbacks[i + 1].lines # job[j].lines
      <4>1. PICK k \in Nat : i + 1 < k /\ SetAt(k, j)
        BY <2>1, <3>1, <3>3
      <4>2. k - 1 \in Nat /\ i < k - 1 /\ (k - 1) + 1 = k
        BY <4>1
      <4> QED
        BY <1>3, <3>1, <4>1, <4>2
    <3> QED
      BY <3>2, <3>3
  <2>3. ASSUME \A i \in Nat : ~SetAt(i, j)', panel'.job = j PROVE panel'.lines = job[j].lines
    <3>1. \A i \in Nat : i > 1 => ~SetAt(i, j)
      <4>1. \A i \in Nat : i > 1 => i - 1 \in Nat /\ i - 1 > 0 /\ (i - 1) + 1 = i
        OBVIOUS
      <4> QED
        BY <1>3, <2>3, <4>1
    <3>2. j # NoJob
      BY DEF Jobs, NoJob
    <3>3. CASE SetAt(1, j)
      <4>1. callback.do = "set" /\ callback.lines = job[j].lines
        BY <1>4, <2>1, <3>1, <3>3 DEF callback, IsSet
      <4>2. Built
        BY <1>5, <1>6, <2>3, <3>2, <4>1
      <4> QED
        BY <1>5, <4>1, <4>2
    <3>4. CASE ~SetAt(1, j)
      <4>1. \A i \in Nat : ~SetAt(i, j)
        BY <1>4, <3>1, <3>4
      <4>2. callback.do # "set" \/ callback.job # j
        BY <1>4, <3>4 DEF IsSet
      <4>3. panel'.job = panel.job /\ panel'.lines = panel.lines
        BY <1>7, <2>3, <3>2, <4>2
      <4> QED
        BY <2>1, <2>3, <4>1, <4>3
    <3> QED
      BY <3>3, <3>4
  <2> QED
    BY <2>2, <2>3
<1> QED
  BY <1>9, <1>10, <1>11, <1>12 DEF PanelOK

(* Every other step leaves what is shown, or takes it all away. *)
LEMMA PanelInvStep == PanelInv /\ [MaintenanceNext]_maintenanceVars => PanelInv'
<1>1. SUFFICES ASSUME PanelInv, [MaintenanceNext]_maintenanceVars PROVE PanelInv'
  OBVIOUS
<1>2. MaintenanceOK /\ MaintenanceOK' /\ callbacks \in Seq(Callback)
  BY <1>1, MaintenanceOKStep DEF PanelInv, MaintenanceOK
<1>3. ASSUME NEW more \in Seq(Callback), callbacks' = callbacks \o more,
             \A k \in DOMAIN more : more[k].do \notin {"set", "done"}
      PROVE  /\ \A i \in DOMAIN callbacks : i \in DOMAIN callbacks' /\ callbacks'[i] = callbacks[i]
             /\ \A i \in DOMAIN callbacks' \ DOMAIN callbacks : callbacks'[i].do \notin {"set", "done"}
  BY <1>2, <1>3, QueuedLast
<1>4. /\ Writes(1) \in Seq(Callback) /\ \A k \in DOMAIN Writes(1) : Writes(1)[k].do \notin {"set", "done"}
      /\ ClearTexts \in Seq(Callback) /\ \A k \in DOMAIN ClearTexts : ClearTexts[k].do \notin {"set", "done"}
      /\ <<Display>> \in Seq(Callback) /\ \A k \in DOMAIN <<Display>> : <<Display>>[k].do \notin {"set", "done"}
  <2>1. /\ Writes(1) \in Seq(Callback) /\ ClearTexts \in Seq(Callback) /\ <<Display>> \in Seq(Callback)
    BY <1>2, CallbackTypes
  <2>2. Remark.do \notin {"set", "done"} /\ Write.do \notin {"set", "done"} /\ Display.do \notin {"set", "done"}
    BY DEF Remark, Write, Display
  <2>3. \A k \in DOMAIN <<Display>> : <<Display>>[k] = Display
    OBVIOUS
  <2> QED
    BY <2>1, <2>2, <2>3, Neutral
<1>5. ASSUME UNCHANGED panel,
             \/ job' = job
             \/ \E j \in Jobs : job[j].at = "none" /\ job' = [job EXCEPT ![j].at = "queued"],
             \/ callbacks' = callbacks
             \/ \E more \in Seq(Callback) : /\ callbacks' = callbacks \o more
                                            /\ \A k \in DOMAIN more : more[k].do \notin {"set", "done"}
      PROVE  PanelInv'
  <2>1. /\ \A i \in DOMAIN callbacks : i \in DOMAIN callbacks' /\ callbacks'[i] = callbacks[i]
        /\ \A i \in DOMAIN callbacks' \ DOMAIN callbacks : callbacks'[i].do \notin {"set", "done"}
    BY <1>3, <1>5
  <2>2. \A j \in Jobs :
          /\ job'[j].lines = job[j].lines
          /\ job'[j].at = "labelling" => job[j].at = "labelling"
          /\ job[j].at \in {"finishing", "ended"} => job'[j].at \in {"finishing", "ended"}
    BY <1>2, <1>5 DEF MaintenanceOK, Job
  <2> QED
    BY <1>1, <1>2, <1>5, <2>1, <2>2, PanelKept DEF PanelInv
<1>6. ASSUME NEW j \in Jobs, ThreadStep(j) \/ ReadLine(j) \/ EndOfOutput(j) \/ Exit(j)
      PROVE  PanelInv'
  BY <1>1, <1>2, <1>6, PanelInvThread DEF PanelInv
<1>7. ASSUME NEW j \in Jobs, ClickRun(j) PROVE PanelInv'
  <2> DEFINE first == ClearTexts
             second == Writes(1)
  <2>1. /\ job[j].at = "none" /\ job' = [job EXCEPT ![j].at = "queued"] /\ panel' = panel
        /\ callbacks' = callbacks \o first \o second
    BY <1>7 DEF ClickRun
  <2>2. /\ first \in Seq(Callback) /\ \A k \in DOMAIN first : first[k].do \notin {"set", "done"}
        /\ second \in Seq(Callback) /\ \A k \in DOMAIN second : second[k].do \notin {"set", "done"}
    BY <1>4
  <2> HIDE DEF first, second
  <2>3. first \o second \in Seq(Callback) /\ callbacks' = callbacks \o (first \o second)
    BY <1>2, <2>1, <2>2
  <2>4. \A k \in DOMAIN (first \o second) : (first \o second)[k].do \notin {"set", "done"}
    BY <2>2, QueuedLast
  <2> QED
    BY <1>5, <2>1, <2>3, <2>4
<1>8. ASSUME ClickClear PROVE PanelInv'
  BY <1>4, <1>5, <1>8 DEF ClickClear
<1>9. ASSUME OtherText PROVE PanelInv'
  <2>1. PICK texts \in {Writes(1), <<Display>>} : callbacks' = callbacks \o texts
    BY <1>9 DEF OtherText
  <2>2. texts \in Seq(Callback) /\ \A k \in DOMAIN texts : texts[k].do \notin {"set", "done"}
    BY <1>4, <2>1
  <2> QED
    BY <1>5, <1>9, <2>1, <2>2 DEF OtherText
(* A new page shows nothing, and neither does none. *)
<1>10. ASSUME RebuildTab PROVE PanelInv'
  <2>1. /\ job' = job /\ panel'.job = NoJob /\ panel'.done = {}
        /\ callbacks' = callbacks \/ callbacks' = <<>>
    BY <1>10 DEF RebuildTab, Blank, NoPanel
  <2>2. \A i, j : /\ SetAt(i, j)' => SetAt(i, j) /\ callbacks' = callbacks
                  /\ DoneAt(i, j)' => DoneAt(i, j)
    BY <2>1 DEF SetAt, DoneAt
  <2>3. \A j \in Jobs : Labelled(j)' => Labelled(j)
    BY <2>1, <2>2 DEF Labelled
  <2>4. LinesRead' /\ LabelledLate' /\ LabelLast'
    BY <1>1, <2>1, <2>2, <2>3 DEF PanelInv, PanelOK, LinesRead, LabelledLate, LabelLast
  <2>5. AllShown'
    <3> SUFFICES ASSUME NEW j \in Jobs, Labelled(j) \/ job[j].at = "labelling"
                 PROVE  /\ \A i \in Nat : SetAt(i, j)' =>
                             callbacks'[i].lines = job[j].lines \/ \E k \in Nat : i < k /\ SetAt(k, j)'
                        /\ panel'.job # j
      BY <2>1, <2>3 DEF AllShown
    <3>1. panel'.job # j
      BY <2>1 DEF Jobs, NoJob
    <3>2. ASSUME NEW i \in Nat, SetAt(i, j)'
          PROVE  callbacks'[i].lines = job[j].lines \/ \E k \in Nat : i < k /\ SetAt(k, j)'
      <4>1. callbacks' = callbacks /\ \A k \in Nat : SetAt(k, j)' <=> SetAt(k, j)
        BY <2>2, <3>2 DEF SetAt
      <4> QED
        BY <1>1, <3>2, <4>1 DEF PanelInv, PanelOK, AllShown
    <3> QED
      BY <3>1, <3>2
  <2> QED
    BY <1>2, <2>4, <2>5 DEF PanelInv, PanelOK
<1>11. ASSUME RunCallback PROVE PanelInv'
  BY <1>1, <1>2, <1>11, PanelInvRun DEF PanelInv
<1>12. ASSUME UNCHANGED maintenanceVars PROVE PanelInv'
  BY <1>5, <1>12 DEF maintenanceVars
<1> QED
  BY <1>1, <1>6, <1>7, <1>8, <1>9, <1>10, <1>11, <1>12 DEF MaintenanceNext

(* The jobs, the current event and the panel have their types in every state. *)
THEOREM MaintenanceTypeCorrect == MaintenanceSpec => []MaintenanceTypeOK
<1>1. MaintenanceOK => MaintenanceTypeOK
  BY MaintenanceAssumption DEF MaintenanceOK, MaintenanceTypeOK, Job, Stage, Panel
<1> QED
  BY <1>1, MaintenanceOKInit, MaintenanceOKStep, PTL DEF MaintenanceSpec

(* Who lets one process end before starting the next can cancel what runs,   *)
(* however the clicks, the threads and the callbacks mix.                    *)
THEOREM CurrentCancels == MaintenanceSpec => []CancelReaches
<1>1. CancelInv => CancelReaches
  BY DEF CancelInv
<1> QED
  BY <1>1, CancelInvInit, CancelInvStep, PTL DEF MaintenanceSpec

(* A "concluido" under the output of its process comes with all of its lines, *)
(* however many lines and jobs there are and however the panel is rebuilt.    *)
THEOREM OutputComplete == MaintenanceSpec => []PanelComplete
  BY PanelInvInit, PanelInvStep, PanelInvComplete, PTL DEF MaintenanceSpec

-----------------------------------------------------------------------------
(***************************************************************************)
(* ServicesPage: what the calls make of the page.                          *)
(***************************************************************************)
IsTab(t) ==
  t = [built |-> t.built, pending |-> t.pending, category |-> t.category, offered |-> t.offered,
       services |-> t.services, current |-> t.current, panel |-> t.panel, fields |-> t.fields]

(* The panel shows a service of the list with its fields. *)
PanelFits(t) ==
  /\ t.panel # NoService => t.panel \in ToSet(t.services)
  /\ t.fields = IF t.panel # NoService /\ ParseParams(t.panel) > 0 THEN t.panel ELSE NoService

(* A page that is not built holds nothing, and one that is, a fitting panel. *)
TabOK(t) ==
  /\ IsTab(t) /\ PanelFits(t)
  /\ ~t.built => t.services = <<>> /\ t.panel = NoService

(* A panel that is cleared shows nothing and has no fields. *)
LEMMA Cleared ==
  ASSUME NEW t, IsTab(t)
  PROVE  LET u == ClearDetailPanel(t)
         IN /\ IsTab(u) /\ PanelFits(u)
            /\ u.built = t.built /\ u.category = t.category /\ u.services = t.services
            /\ u.panel = NoService
<1>1. ASSUME NEW u, u = [t EXCEPT !.current = NoService, !.panel = NoService, !.fields = NoService]
      PROVE  /\ IsTab(u) /\ u.panel = NoService /\ u.fields = NoService
             /\ u.built = t.built /\ u.category = t.category /\ u.services = t.services
  BY <1>1 DEF IsTab
<1> QED
  BY <1>1 DEF ClearDetailPanel, PanelFits

(* Whatever row is chosen, the panel fits the list. *)
LEMMA Selected ==
  ASSUME NEW t, IsTab(t), NEW row
  PROVE  LET u == OnServiceSelect(t, row)
         IN /\ IsTab(u) /\ PanelFits(u)
            /\ u.built = t.built /\ u.category = t.category /\ u.services = t.services
<1>1. CASE row \notin DOMAIN t.services
  BY <1>1, Cleared DEF OnServiceSelect
<1>2. CASE row \in DOMAIN t.services
  <2> DEFINE n == t.services[row]
             s == [t EXCEPT !.current = n]
             c == ClearDetailPanel(s)
             f == IF ParseParams(n) > 0 THEN n ELSE NoService
             u == [c EXCEPT !.panel = n, !.fields = f]
  <2>1. n \in ToSet(t.services)
    BY <1>2 DEF ToSet
  <2>2. OnServiceSelect(t, row) = u
    BY <1>2 DEF OnServiceSelect, ShowServiceDetail
  <2> HIDE DEF n
  <2>3. IsTab(s) /\ s.built = t.built /\ s.category = t.category /\ s.services = t.services
    BY DEF IsTab
  <2> HIDE DEF s
  <2>4. IsTab(c) /\ c.built = t.built /\ c.category = t.category /\ c.services = t.services
    BY <2>3, Cleared
  <2>5. f = IF n # NoService /\ ParseParams(n) > 0 THEN n ELSE NoService
    OBVIOUS
  <2> HIDE DEF c, f
  <2>6. ASSUME NEW v, v = [c EXCEPT !.panel = n, !.fields = f]
        PROVE  /\ IsTab(v) /\ v.panel = n /\ v.fields = f
               /\ v.built = c.built /\ v.category = c.category /\ v.services = c.services
    BY <2>4, <2>6 DEF IsTab
  <2> QED
    BY <2>1, <2>2, <2>4, <2>5, <2>6 DEF PanelFits
<1> QED
  BY <1>1, <1>2

(* What the page shows fits a device of this type. *)
ListFits(t, type) ==
  t.services # <<>> => t.category \in Offered[type] /\ t.services = Listed[type][t.category]

(* refresh_service_list leaves a page that fits the device, *)
LEMMA Refreshes ==
  ASSUME NEW t, TabOK(t), NEW type \in DeviceTypes
  PROVE  TabOK(RefreshFor(t, type)) /\ ListFits(RefreshFor(t, type), type)
<1> DEFINE category == KeptCategory(t, type)
           offered == Offered[type]
           services == Listed[type][category]
           c == ClearDetailPanel(t)
           filled == [c EXCEPT !.category = category, !.offered = offered, !.services = services]
<1>1. CASE ~t.built
  BY <1>1 DEF RefreshFor, TabOK, ListFits
<1>2. CASE t.built
  <2>1. category \in Offered[type] /\ services = Listed[type][category]
    BY DEF KeptCategory, Offered
  <2>2. RefreshFor(t, type) = OnServiceSelect(filled, 1)
    BY <1>2 DEF RefreshFor
  <2>3. IsTab(c) /\ c.built
    BY <1>2, Cleared DEF TabOK
  <2> HIDE DEF category, offered, services, c
  <2>4. ASSUME NEW v, v = [c EXCEPT !.category = category, !.offered = offered, !.services = services]
        PROVE  IsTab(v) /\ v.built /\ v.category = category /\ v.services = services
    BY <2>3, <2>4 DEF IsTab
  <2>5. IsTab(filled) /\ filled.built /\ filled.category = category /\ filled.services = services
    BY <2>4
  <2> HIDE DEF filled
  <2>6. LET u == OnServiceSelect(filled, 1)
        IN /\ IsTab(u) /\ PanelFits(u)
           /\ u.built = filled.built /\ u.category = filled.category /\ u.services = filled.services
    BY <2>5, Selected
  <2> QED
    BY <2>1, <2>2, <2>5, <2>6 DEF TabOK, ListFits
<1> QED
  BY <1>1, <1>2

(* and without a device, an empty list. *)
LEMMA RefreshesEmpty ==
  ASSUME NEW t, TabOK(t)
  PROVE  TabOK(RefreshWithout(t)) /\ RefreshWithout(t).services = <<>>
<1>1. CASE ~t.built
  BY <1>1 DEF RefreshWithout, TabOK
<1>2. CASE t.built
  <2> DEFINE c == ClearDetailPanel(t)
             u == [c EXCEPT !.offered = {AllCategories}, !.services = <<>>]
  <2>1. /\ IsTab(c) /\ c.panel = NoService /\ c.fields = NoService /\ c.built = t.built
    BY Cleared DEF TabOK, PanelFits
  <2>2. RefreshWithout(t) = u
    BY <1>2 DEF RefreshWithout
  <2> HIDE DEF c
  <2>3. ASSUME NEW v, v = [c EXCEPT !.offered = {AllCategories}, !.services = <<>>]
        PROVE  /\ IsTab(v) /\ v.panel = NoService /\ v.fields = NoService
               /\ v.services = <<>> /\ v.built = c.built
    BY <2>1, <2>3 DEF IsTab
  <2> QED
    BY <1>2, <2>1, <2>2, <2>3 DEF TabOK, PanelFits
<1> QED
  BY <1>1, <1>2

(***************************************************************************)
(* Target: the device in hand.                                             *)
(***************************************************************************)
(* ServicesFit is not inductive: which device is in hand depends on canvas    *)
(* and application, which agree, or the canvas has forgotten it; and a page   *)
(* that is not built must hold nothing when it is.                            *)
InHandOK ==
  /\ inventory \in [Devices -> Types \cup {Gone}]
  /\ known \in [Devices -> Types \cup {Gone}]
  /\ target = Nothing \/ (target.id \in Devices /\ target.type \in Types)
  /\ selected = Nothing \/ selected = target

ServicesInv ==
  /\ InHandOK /\ TabOK(tab)
  /\ tab.services # <<>> => target # Nothing /\ ListFits(tab, target.type)

(* The application's target is the device in hand. *)
LEMMA TargetInHand == InHandOK => GetSelectedDevice = target
  BY DEF InHandOK, GetSelectedDevice, InHand

(* What the page shows then fits the device in hand. *)
LEMMA ServicesInvFits == ServicesInv => ServicesFit
  BY TargetInHand DEF ServicesInv, ServicesFit, TabOK, PanelFits, ListFits

(* No device is in hand at the start and no page is built. *)
LEMMA ServicesInvInit == TargetInit => ServicesInv
<1> SUFFICES ASSUME TargetInit PROVE ServicesInv
  OBVIOUS
<1>1. TabOK(tab) /\ tab.services = <<>>
  BY DEF TargetInit, NoTab, TabOK, IsTab, PanelFits
<1>2. InHandOK
  <2>1. inventory \in [Devices -> Types] /\ known = inventory /\ target = Nothing /\ selected = Nothing
    BY DEF TargetInit
  <2>2. inventory \in [Devices -> Types \cup {Gone}]
    BY <2>1
  <2>3. known \in [Devices -> Types \cup {Gone}]
    BY <2>1, <2>2
  <2> QED
    BY <2>1, <2>2, <2>3 DEF InHandOK
<1> QED
  BY <1>1, <1>2 DEF ServicesInv

(* A refresh makes the page fit the target, whatever it listed. *)
LEMMA RefreshFits ==
  ASSUME NEW t, TabOK(t), NEW device,
         device = Nothing \/ device.type \in Types
  PROVE  LET u == IF device = Nothing THEN RefreshWithout(t) ELSE RefreshFor(t, device.type)
         IN TabOK(u) /\ (u.services # <<>> => device # Nothing /\ ListFits(u, device.type))
<1>1. CASE device = Nothing
  BY <1>1, RefreshesEmpty
<1>2. CASE device # Nothing
  <2>1. device.type \in DeviceTypes
    BY <1>2, TargetAssumption
  <2> QED
    BY <1>2, <2>1, Refreshes
<1> QED
  BY <1>1, <1>2

(* Every handler keeps the page and the device in hand together. *)
LEMMA ServicesInvStep == ServicesInv /\ [TargetNext]_targetVars => ServicesInv'
<1>1. SUFFICES ASSUME ServicesInv, [TargetNext]_targetVars PROVE ServicesInv'
  OBVIOUS
<1>2. /\ InHandOK /\ TabOK(tab) /\ GetSelectedDevice = target
      /\ tab.services # <<>> => target # Nothing /\ ListFits(tab, target.type)
      /\ target = Nothing \/ target.type \in Types
  BY <1>1, TargetInHand DEF ServicesInv, InHandOK
<1>3. ASSUME UNCHANGED <<inventory, known, target, tab>>, selected' \in {selected, Nothing}
      PROVE  ServicesInv'
  BY <1>2, <1>3 DEF ServicesInv, InHandOK
<1>4. ASSUME NEW d \in Devices, OnDeviceSelected(d) PROVE ServicesInv'
  <2>1. /\ target' = Object(d) /\ selected' = target' /\ known[d] # Gone
        /\ tab' = RefreshServiceList(Object(d)) /\ UNCHANGED <<inventory, known>>
    BY <1>4 DEF OnDeviceSelected
  <2>2. Object(d).id = d /\ Object(d).type \in Types /\ Object(d) # Nothing
    BY <1>2, <2>1, TargetAssumption DEF Object, Nothing, InHandOK
  <2>3. TabOK(tab') /\ (tab'.services # <<>> => Object(d) # Nothing /\ ListFits(tab', Object(d).type))
    BY <1>2, <2>1, <2>2, RefreshFits DEF RefreshServiceList
  <2> QED
    BY <1>2, <2>1, <2>2, <2>3 DEF ServicesInv, InHandOK
<1>5. ASSUME ClearDeviceTarget, known' = known, inventory' \in [Devices -> Types \cup {Gone}] PROVE ServicesInv'
  <2>1. TabOK(tab') /\ tab'.services = <<>>
    BY <1>2, <1>5, RefreshesEmpty DEF ClearDeviceTarget, RefreshServiceList
  <2> QED
    <3>1. target' = Nothing /\ selected' = Nothing
      BY <1>5 DEF ClearDeviceTarget
    <3>2. InHandOK'
      BY <1>2, <1>5, <3>1 DEF InHandOK, Nothing
    <3> QED
      BY <2>1, <3>2 DEF ServicesInv
<1>6. ASSUME ClickBack PROVE ServicesInv'
  BY <1>2, <1>5, <1>6 DEF ClickBack, InHandOK
<1>7. ASSUME NEW d \in Devices, EditDevice(d) PROVE ServicesInv'
  <2>1. inventory' \in [Devices -> Types \cup {Gone}]
    BY <1>2, <1>7 DEF EditDevice, InHandOK
  <2> QED
    BY <1>2, <1>7, <2>1 DEF EditDevice, ServicesInv, InHandOK
<1>8. ASSUME NEW d \in Devices, DeleteDevice(d) PROVE ServicesInv'
  <2>1. inventory' \in [Devices -> Types \cup {Gone}] /\ known' = known
    BY <1>2, <1>8 DEF DeleteDevice, InHandOK
  <2>2. CASE ClearDeviceTarget
    BY <1>5, <2>1, <2>2
  <2>3. CASE UNCHANGED <<target, selected, tab>>
    BY <1>2, <2>1, <2>3 DEF ServicesInv, InHandOK
  <2> QED
    BY <1>8, <2>2, <2>3 DEF DeleteDevice
<1>9. ASSUME UpdateDevicesUi PROVE ServicesInv'
  BY <1>2, <1>9 DEF UpdateDevicesUi, ServicesInv, InHandOK
<1>10. ASSUME RebuildTopology \/ SessionTimeout PROVE ServicesInv'
  BY <1>3, <1>10 DEF RebuildTopology, SessionTimeout
<1>11. ASSUME NEW t, Page(t), TabOK(t), t.services # <<>> => target # Nothing /\ ListFits(t, target.type)
       PROVE  ServicesInv'
  BY <1>2, <1>11 DEF Page, ServicesInv, InHandOK
<1>12. ASSUME Build \/ Dispose PROVE ServicesInv'
  <2>1. PICK t : Page(t) /\ t \in {NewTab, [NoTab EXCEPT !.pending = tab.pending]}
    BY <1>12 DEF Build, Dispose
  <2>2. IsTab(NoTab) /\ NoTab.services = <<>> /\ NoTab.panel = NoService /\ NoTab.fields = NoService
    BY DEF NoTab, IsTab
  <2>3. ASSUME NEW s, s = [NoTab EXCEPT !.built = TRUE, !.pending = TRUE, !.offered = {AllCategories}]
        PROVE  IsTab(s) /\ s.services = <<>> /\ s.panel = NoService /\ s.fields = NoService
    BY <2>2, <2>3 DEF IsTab
  <2>4. ASSUME NEW pending, NEW s, s = [NoTab EXCEPT !.pending = pending]
        PROVE  IsTab(s) /\ s.services = <<>> /\ s.panel = NoService /\ s.fields = NoService
    BY <2>2, <2>4 DEF IsTab
  <2>5. IsTab(t) /\ t.services = <<>> /\ t.panel = NoService /\ t.fields = NoService
    BY <2>1, <2>3, <2>4 DEF NewTab
  <2> QED
    BY <1>11, <2>1, <2>5 DEF TabOK, PanelFits
<1>13. TabOK(Refreshed) /\ (Refreshed.services # <<>> => target # Nothing /\ ListFits(Refreshed, target.type))
  BY <1>2, RefreshFits DEF Refreshed, RefreshServiceList
<1>14. ASSUME FirstRefresh PROVE ServicesInv'
  <2> DEFINE t == [Refreshed EXCEPT !.pending = FALSE]
  <2>1. ASSUME NEW r, TabOK(r), NEW s, s = [r EXCEPT !.pending = FALSE]
        PROVE  TabOK(s) /\ s.services = r.services /\ s.category = r.category
    BY <2>1 DEF TabOK, IsTab, PanelFits
  <2>2. TabOK(t) /\ t.services = Refreshed.services /\ t.category = Refreshed.category
    BY <1>13, <2>1
  <2>3. Page(t)
    BY <1>14 DEF FirstRefresh
  <2> QED
    BY <1>11, <1>13, <2>2, <2>3 DEF ListFits
<1>15. ASSUME OnF5 PROVE ServicesInv'
  BY <1>11, <1>13, <1>15 DEF OnF5
<1>16. ASSUME NEW category \in tab.offered, OnSvcCatChanged(category) PROVE ServicesInv'
  <2> DEFINE t == [tab EXCEPT !.category = category]
             u == IF target = Nothing THEN RefreshWithout(t) ELSE RefreshFor(t, target.type)
  <2>1. Page(u) /\ tab.built
    BY <1>2, <1>16 DEF OnSvcCatChanged, Pick
  <2>2. ASSUME NEW s, s = [tab EXCEPT !.category = category] PROVE TabOK(s)
    BY <1>2, <2>1, <2>2 DEF TabOK, IsTab, PanelFits
  <2>3. TabOK(u) /\ (u.services # <<>> => target # Nothing /\ ListFits(u, target.type))
    BY <1>2, <2>2, RefreshFits
  <2> QED
    BY <1>11, <2>1, <2>3
<1>17. ASSUME NEW row \in DOMAIN tab.services, PickService(row) PROVE ServicesInv'
  <2>1. Page(OnServiceSelect(tab, row)) /\ tab.built
    BY <1>17 DEF PickService, Pick
  <2>2. LET u == OnServiceSelect(tab, row)
        IN /\ IsTab(u) /\ PanelFits(u)
           /\ u.built = tab.built /\ u.category = tab.category /\ u.services = tab.services
    BY <1>2, Selected DEF TabOK
  <2> QED
    BY <1>2, <1>11, <2>1, <2>2 DEF TabOK, ListFits
<1>18. ASSUME ConnectionSteps PROVE ServicesInv'
  <2>1. UNCHANGED <<inventory, known, target, tab, selected>>
    BY <1>18 DEF ConnectionSteps, Disconnect, ToggleConnect, Validate, ReadHost, ReadCredential, DialSucceeds,
          DialFails, Dialling, FileHostKey, SendCommand, CollectBackup, Sending, WriteBackup
  <2> QED
    BY <1>3, <2>1
<1>19. ASSUME UNCHANGED targetVars PROVE ServicesInv'
  BY <1>3, <1>19 DEF targetVars
<1> QED
  BY <1>1, <1>4, <1>6, <1>7, <1>8, <1>9, <1>10, <1>12, <1>14, <1>15, <1>16, <1>17, <1>18, <1>19
     DEF TargetNext, Handlers, ServicesSteps

(* AimedUnlessMoved is not inductive.  Unless the target changed: the fields  *)
(* are those of the target while a thread reads them, what it has read was    *)
(* read from them, and a configuration not yet written down came from the     *)
(* host in the fields.                                                        *)
Devs == Devices \cup {NoDevice}
Dial == [at : {"none", "starting", "host", "cred", "dialling", "key"}, host : Devs, cred : Devs]
FieldsOK ==
  /\ overHost \in Devs /\ overCred \in Devs /\ dial \in Dial
  /\ collected \in Devs /\ (link # NoLink => link.host \in Devs)

Aimed ==
  /\ link # NoLink => link.host = target.id /\ link.cred = link.host /\ overHost = link.host
  /\ dial # NoDial => overHost = target.id /\ overCred = Credential(target.id)
  /\ dial.at \in {"cred", "dialling", "key"} => dial.host = target.id
  /\ dial.at \in {"dialling", "key"} => dial.cred = Credential(target.id)
  /\ collected # NoDevice => collected = overHost
  /\ entry.host = entry.over

AimInv == ServicesInv /\ FieldsOK /\ (moved \/ Aimed)

(* Nothing is connected at the start. *)
LEMMA AimInvInit == TargetInit => AimInv
<1> SUFFICES ASSUME TargetInit PROVE AimInv
  OBVIOUS
<1>1. dial \in Dial /\ dial.at = "none"
  BY DEF TargetInit, NoDial, Dial, Devs
<1>2. FieldsOK
  BY <1>1 DEF TargetInit, FieldsOK, Devs
<1>3. Aimed
  BY <1>1 DEF TargetInit, Aimed, NoEntry
<1> QED
  BY <1>2, <1>3, ServicesInvInit DEF AimInv

(* So a connection is to the device in hand, and entries name its host. *)
LEMMA AimInvAimed == AimInv => AimedUnlessMoved
  BY TargetInHand DEF AimInv, ServicesInv, Aimed, AimedUnlessMoved

(* The threads, the handlers and the clicks keep the connection aimed. *)
LEMMA AimInvStep == AimInv /\ [TargetNext]_targetVars => AimInv'
<1>1. SUFFICES ASSUME AimInv, [TargetNext]_targetVars PROVE AimInv'
  OBVIOUS
<1>2. /\ ServicesInv' /\ GetSelectedDevice = target
      /\ FieldsOK /\ (moved \/ Aimed) /\ target.id \in Devs
      /\ NoDevice \notin Devices
  BY <1>1, ServicesInvStep, TargetInHand, TargetAssumption DEF AimInv, ServicesInv, InHandOK, Nothing, Devs
<1>3. \A d \in Devs : Credential(d) \in {d, NoDevice}
  BY DEF Credential
<1>4. NoDial.at = "none" /\ NoEntry.host = NoEntry.over /\ NoDevice = NoEntry.host
  BY DEF NoDial, NoEntry
(* Whoever changes the device in hand while something is under way has moved. *)
<1>5. ASSUME NEW d \in Devices, OnDeviceSelected(d) PROVE AimInv'
  <2>1. /\ moved' = (moved \/ Pending \/ link # NoLink) /\ UNCHANGED <<dial, collected, link>>
        /\ entry' = NoEntry /\ overHost' = d
        /\ overCred' = IF Credential(d) # NoDevice THEN Credential(d) ELSE overCred
    BY <1>5 DEF OnDeviceSelected
  <2>2. FieldsOK'
    BY <1>2, <1>3, <2>1 DEF FieldsOK, Devs
  <2>3. moved' \/ Aimed'
    BY <1>2, <1>4, <2>1 DEF Aimed, Pending
  <2> QED
    BY <1>2, <2>2, <2>3 DEF AimInv
<1>6. ASSUME ClearDeviceTarget, UNCHANGED <<dial, collected>>, entry' = NoEntry PROVE AimInv'
  <2>1. /\ moved' = (moved \/ Pending) /\ link' = NoLink /\ overHost' = NoDevice /\ overCred' = NoDevice
    BY <1>6 DEF ClearDeviceTarget
  <2>2. FieldsOK'
    BY <1>2, <1>6, <2>1 DEF FieldsOK, Devs
  <2>3. moved' \/ Aimed'
    BY <1>2, <1>6, <1>4, <2>1 DEF Aimed, Pending
  <2> QED
    BY <1>2, <2>2, <2>3 DEF AimInv
(* The other handlers leave the target and the fields alone. *)
<1>7. ASSUME UNCHANGED <<target, overHost, overCred, dial, collected, moved>>,
             link' \in {link, NoLink}, entry' = NoEntry
      PROVE  AimInv'
  BY <1>2, <1>7 DEF AimInv, FieldsOK, Aimed, NoEntry
<1>8. ASSUME ClickBack PROVE AimInv'
  BY <1>6, <1>8 DEF ClickBack
<1>9. ASSUME NEW d \in Devices, EditDevice(d) PROVE AimInv'
  BY <1>7, <1>9 DEF EditDevice
<1>10. ASSUME NEW d \in Devices, DeleteDevice(d) PROVE AimInv'
  BY <1>6, <1>7, <1>10 DEF DeleteDevice
<1>11. ASSUME UpdateDevicesUi \/ RebuildTopology \/ SessionTimeout PROVE AimInv'
  BY <1>7, <1>11 DEF UpdateDevicesUi, RebuildTopology, SessionTimeout
<1>12. ASSUME ServicesSteps PROVE AimInv'
  BY <1>7, <1>12 DEF ServicesSteps, Build, Dispose, FirstRefresh, OnF5, OnSvcCatChanged, PickService, Page
<1>13. ASSUME Disconnect PROVE AimInv'
  BY <1>7, <1>13 DEF Disconnect
(* A new connection: the fields are those of the device in hand. *)
<1>14. ASSUME ToggleConnect PROVE AimInv'
  <2>1. /\ link = NoLink /\ moved' = (collected # NoDevice) /\ entry' = NoEntry
        /\ overHost' = target.id /\ overCred' = Credential(target.id)
        /\ dial' = [NoDial EXCEPT !.at = "starting"] /\ UNCHANGED <<target, link, collected>>
    BY <1>2, <1>14 DEF ToggleConnect, ConnectWithDevice
  <2>2. dial' \in Dial /\ dial'.at = "starting"
    BY <2>1 DEF NoDial, Dial, Devs
  <2>3. FieldsOK'
    BY <1>2, <1>3, <2>1, <2>2 DEF FieldsOK, Devs
  <2>4. moved' \/ Aimed'
    BY <2>1, <2>2 DEF Aimed, NoEntry
  <2> QED
    BY <1>2, <2>3, <2>4 DEF AimInv
(* The thread reads what the fields say, and they are those of the target. *)
<1>15. ASSUME NEW from \in {"starting", "host", "cred", "dialling"}, NEW to, Dialling(from, to)
       PROVE  /\ dial.at = from /\ dial # NoDial /\ dial' = to /\ entry' = NoEntry
              /\ UNCHANGED <<target, overHost, overCred, collected, moved>>
  BY <1>15 DEF Dialling, NoDial
<1>16. ASSUME NEW to \in Dial, dial' = to, UNCHANGED <<target, overHost, overCred, collected, moved>>,
              entry' = NoEntry, link' # NoLink => link'.host \in Devs,
              Aimed => /\ to # NoDial => overHost = target.id /\ overCred = Credential(target.id)
                       /\ to.at \in {"cred", "dialling", "key"} => to.host = target.id
                       /\ to.at \in {"dialling", "key"} => to.cred = Credential(target.id)
                       /\ link' # NoLink => link'.host = target.id /\ link'.cred = link'.host /\ overHost = link'.host
       PROVE  AimInv'
  BY <1>2, <1>16, <1>4 DEF AimInv, FieldsOK, Aimed
<1>17. NoDial \in Dial /\ NoDial.at = "none"
  BY DEF NoDial, Dial, Devs
<1>18. ASSUME Validate PROVE AimInv'
  <2> DEFINE to == IF NoDevice \in {overHost, overCred} THEN NoDial ELSE [NoDial EXCEPT !.at = "host"]
  <2>1. /\ dial # NoDial /\ dial' = to /\ entry' = NoEntry
        /\ UNCHANGED <<target, overHost, overCred, collected, moved, link>>
    BY <1>15, <1>18 DEF Validate
  <2>2. to \in Dial /\ to.at \in {"none", "host"}
    BY DEF NoDial, Dial, Devs
  <2> QED
    BY <1>2, <1>16, <2>1, <2>2 DEF Aimed, FieldsOK
<1>19. ASSUME ReadHost PROVE AimInv'
  <2> DEFINE to == [dial EXCEPT !.at = "cred", !.host = overHost]
  <2>1. /\ dial # NoDial /\ dial' = to /\ entry' = NoEntry
        /\ UNCHANGED <<target, overHost, overCred, collected, moved, link>>
    BY <1>15, <1>19 DEF ReadHost
  <2>2. to \in Dial /\ to.at = "cred" /\ to.host = overHost
    BY <1>2 DEF FieldsOK, Dial
  <2> QED
    BY <1>2, <1>16, <2>1, <2>2 DEF Aimed, FieldsOK
<1>20. ASSUME ReadCredential PROVE AimInv'
  <2> DEFINE to == [dial EXCEPT !.at = "dialling", !.cred = overCred]
  <2>1. /\ dial # NoDial /\ dial.at = "cred" /\ dial' = to /\ entry' = NoEntry
        /\ UNCHANGED <<target, overHost, overCred, collected, moved, link>>
    BY <1>15, <1>20 DEF ReadCredential
  <2>2. to \in Dial /\ to.at = "dialling" /\ to.cred = overCred /\ to.host = dial.host
    BY <1>2 DEF FieldsOK, Dial
  <2> QED
    BY <1>2, <1>16, <2>1, <2>2 DEF Aimed, FieldsOK
<1>21. ASSUME DialSucceeds PROVE AimInv'
  <2> DEFINE to == [dial EXCEPT !.at = "key"]
  <2>1. /\ dial # NoDial /\ dial.at = "dialling" /\ dial' = to /\ entry' = NoEntry
        /\ UNCHANGED <<target, overHost, overCred, collected, moved>>
        /\ NoDevice \notin {dial.host, dial.cred} /\ link' = [host |-> dial.host, cred |-> dial.cred]
    BY <1>15, <1>21 DEF DialSucceeds
  <2>2. to \in Dial /\ to.at = "key" /\ to.cred = dial.cred /\ to.host = dial.host
    BY <1>2 DEF FieldsOK, Dial
  <2>3. Aimed => /\ overHost = target.id /\ overCred = Credential(target.id)
                 /\ dial.host = target.id /\ dial.cred = target.id
    BY <1>2, <1>3, <2>1 DEF Aimed
  <2>4. link'.host = dial.host /\ link'.cred = dial.cred /\ link'.host \in Devs
    BY <1>2, <2>1 DEF FieldsOK, Dial
  <2> QED
    BY <1>16, <2>1, <2>2, <2>3, <2>4 DEF Aimed
<1>22. ASSUME DialFails PROVE AimInv'
  <2>1. /\ dial # NoDial /\ dial' = NoDial /\ entry' = NoEntry
        /\ UNCHANGED <<target, overHost, overCred, collected, moved, link>>
    BY <1>15, <1>22 DEF DialFails
  <2> QED
    BY <1>2, <1>16, <1>17, <2>1 DEF Aimed, FieldsOK
<1>23. ASSUME FileHostKey PROVE AimInv'
  <2>1. /\ dial.at = "key" /\ dial' = NoDial /\ link' \in {link, NoLink}
        /\ entry' = [host |-> overHost, over |-> dial.host]
        /\ UNCHANGED <<target, overHost, overCred, collected, moved>>
    BY <1>23 DEF FileHostKey
  <2>2. dial # NoDial /\ entry'.host = overHost /\ entry'.over = dial.host
    BY <1>17, <2>1
  <2> QED
    BY <1>2, <1>17, <2>1, <2>2 DEF AimInv, FieldsOK, Aimed
(* What goes over the connection or comes from it is entered under its host. *)
<1>24. ASSUME SendCommand \/ CollectBackup PROVE AimInv'
  <2>1. /\ link # NoLink /\ entry' = [host |-> overHost, over |-> link.host]
        /\ UNCHANGED <<target, overHost, overCred, dial, link, moved>>
        /\ collected' = collected \/ collected' = link.host
    BY <1>24 DEF SendCommand, CollectBackup, Sending
  <2>2. CASE moved
    BY <1>2, <1>24, <2>1, <2>2 DEF AimInv, FieldsOK
  <2>3. CASE ~moved
    BY <1>2, <2>1, <2>3 DEF AimInv, FieldsOK, Aimed
  <2> QED
    BY <2>2, <2>3
<1>25. ASSUME WriteBackup PROVE AimInv'
  <2>1. /\ collected # NoDevice /\ collected' = NoDevice
        /\ entry' \in {[host |-> overHost, over |-> collected], NoEntry}
        /\ UNCHANGED <<target, overHost, overCred, dial, link, moved>>
    BY <1>25 DEF WriteBackup
  <2>2. (entry'.host = overHost /\ entry'.over = collected) \/ entry'.host = entry'.over
    BY <2>1 DEF NoEntry
  <2> QED
    BY <1>2, <2>1, <2>2 DEF AimInv, FieldsOK, Aimed, Devs
<1>26. ASSUME UNCHANGED targetVars PROVE AimInv'
  BY <1>2, <1>26 DEF targetVars, AimInv, FieldsOK, Aimed
<1> QED
  BY <1>1, <1>5, <1>8, <1>9, <1>10, <1>11, <1>12, <1>13, <1>14, <1>18, <1>19, <1>20, <1>21, <1>22, <1>23,
     <1>24, <1>25, <1>26 DEF TargetNext, Handlers, ConnectionSteps

(* Whatever is selected, edited, deleted and picked, the services page shows  *)
(* what fits the device in hand.                                              *)
THEOREM ServicesShown == TargetSpec => []ServicesFit
  BY ServicesInvInit, ServicesInvStep, ServicesInvFits, PTL DEF TargetSpec

(* Unless the target changes meanwhile, a connection is to the device in hand *)
(* with its own credential, and all it brings is entered under its host.      *)
THEOREM ConnectionAimed == TargetSpec => []AimedUnlessMoved
  BY AimInvInit, AimInvStep, AimInvAimed, PTL DEF TargetSpec

(* A handler changes the stored type of the device in hand only with its      *)
(* entry in outdated, and another device gets in hand with the type that is   *)
(* stored or with such an entry.                                              *)
LEMMA TargetTrueStep ==
  ASSUME InHandOK, InHandOK', TargetTrue, [TargetNext]_targetVars
  PROVE  TargetTrue'
<1>1. GetSelectedDevice = target /\ GetSelectedDevice' = target'
  BY TargetInHand DEF InHandOK, GetSelectedDevice, InHand
<1>2. /\ inventory \in [Devices -> Types \cup {Gone}]
      /\ target # Nothing => target.id \in Devices
      /\ target # Nothing => inventory[target.id] = target.type \/ target.id \in outdated
  BY <1>1 DEF InHandOK, TargetTrue
<1>3. SUFFICES ASSUME target' # Nothing
               PROVE  inventory'[target'.id] = target'.type \/ target'.id \in outdated'
  BY <1>1 DEF TargetTrue
<1>4. CASE UNCHANGED <<inventory, target, outdated>>
  BY <1>2, <1>3, <1>4
<1>5. ASSUME NEW d \in Devices, OnDeviceSelected(d)
      PROVE  inventory'[target'.id] = target'.type \/ target'.id \in outdated'
  <2>1. target'.id = d /\ target'.type = known[d] /\ inventory' = inventory
    BY <1>5 DEF OnDeviceSelected, Object
  <2>2. known[d] = inventory[d] \/ d \in outdated'
    BY <1>5 DEF OnDeviceSelected
  <2> QED
    BY <2>1, <2>2
<1>6. ASSUME NEW d \in Devices, EditDevice(d)
      PROVE  inventory'[target'.id] = target'.type \/ target'.id \in outdated'
  <2>1. target' = target /\ outdated' = outdated \cup {d}
    BY <1>6 DEF EditDevice
  <2>2. CASE target.id = d
    BY <2>1, <2>2
  <2>3. CASE target.id # d
    BY <1>2, <1>3, <1>6, <2>1, <2>3 DEF EditDevice
  <2> QED
    BY <2>2, <2>3
<1>7. ASSUME NEW d \in Devices, DeleteDevice(d)
      PROVE  inventory'[target'.id] = target'.type \/ target'.id \in outdated'
  <2>1. target' = target /\ ~(inventory[d] # Gone /\ target.id = d)
    BY <1>3, <1>7 DEF DeleteDevice, ClearDeviceTarget
  <2>2. inventory' = [inventory EXCEPT ![d] = Gone] /\ outdated' = outdated
    BY <1>7 DEF DeleteDevice
  <2>3. inventory'[target.id] = inventory[target.id]
    BY <1>2, <1>3, <2>1, <2>2
  <2> QED
    BY <1>2, <1>3, <2>1, <2>2, <2>3
<1>8. ASSUME ClickBack
      PROVE  inventory'[target'.id] = target'.type \/ target'.id \in outdated'
  BY <1>3, <1>8 DEF ClickBack, ClearDeviceTarget
<1>9. CASE UpdateDevicesUi \/ RebuildTopology \/ SessionTimeout \/ UNCHANGED targetVars
  BY <1>4, <1>9 DEF UpdateDevicesUi, RebuildTopology, SessionTimeout, targetVars
<1>10. CASE ServicesSteps
  <2>1. UNCHANGED <<inventory, target, outdated>>
    BY <1>10 DEF ServicesSteps, Build, Dispose, FirstRefresh, OnF5, OnSvcCatChanged, PickService, Page
  <2> QED
    BY <1>4, <2>1
<1>11. CASE ConnectionSteps
  <2>1. UNCHANGED <<inventory, target, outdated>>
    BY <1>11 DEF ConnectionSteps, Disconnect, ToggleConnect, Validate, ReadHost, ReadCredential, DialSucceeds,
          DialFails, Dialling, FileHostKey, SendCommand, CollectBackup, Sending, WriteBackup
  <2> QED
    BY <1>4, <2>1
<1> QED
  BY <1>5, <1>6, <1>7, <1>8, <1>9, <1>10, <1>11 DEF TargetNext, Handlers

(* The device in hand is one of the inventory, of the type stored there,      *)
(* unless it was edited since it was selected or selected from a list that    *)
(* was out of date.                                                           *)
THEOREM TargetStaysTrue == TargetSpec => []TargetTrue
<1>1. TargetInit => TargetTrue
  BY DEF TargetInit, TargetTrue, GetSelectedDevice, InHand
<1>2. ServicesInv => InHandOK
  BY DEF ServicesInv
<1> QED
  BY <1>1, <1>2, ServicesInvInit, ServicesInvStep, TargetTrueStep, PTL DEF TargetSpec

-----------------------------------------------------------------------------
(***************************************************************************)
(* Shell: what the calls make of the pages and the sidebar.                *)
(***************************************************************************)
IsUi(u) ==
  u = [stack |-> u.stack, shown |-> u.shown, loose |-> u.loose, container |-> u.container,
       current |-> u.current, active |-> u.active, old |-> u.old, dead |-> u.dead,
       lit |-> u.lit, raised |-> u.raised]

UiOK(u) ==
  /\ IsUi(u)
  /\ u.stack \in Seq(Keys)
  /\ u.container \in BOOLEAN /\ u.old \in BOOLEAN /\ u.dead \in BOOLEAN /\ u.raised \in BOOLEAN

(* The current page is shown in the container, under the only lit button, and *)
(* nothing is left of a razed user interface.                                 *)
Intact(u) ==
  /\ u.container /\ u.loose = {}
  /\ u.shown = u.current /\ u.current \in ToSet(u.stack)
  /\ u.lit = {u.current} /\ u.active = u.current
  /\ ~u.old /\ ~u.dead /\ ~u.raised

(* Taking out one element leaves the others. *)
LEMMA OthersStay ==
  ASSUME NEW S, NEW s \in Seq(S), NEW i \in DOMAIN s
  PROVE  /\ RemoveAt(s, i) \in Seq(S)
         /\ \A j \in DOMAIN s : j # i => s[j] \in ToSet(RemoveAt(s, i))
<1> DEFINE front == SubSeq(s, 1, i - 1)
           back == SubSeq(s, i + 1, Len(s))
           m == i - 1
           n == Len(s) - i
<1>1. i \in 1 .. Len(s) /\ Len(s) \in Nat /\ DOMAIN s = 1 .. Len(s)
  OBVIOUS
<1>2. front \in Seq(S) /\ Len(front) = i - 1 /\ \A j \in 1 .. i - 1 : front[j] = s[j]
  BY <1>1
<1>3. /\ back \in Seq(S) /\ Len(back) = Len(s) - i
      /\ \A j \in 1 .. Len(s) - i : back[j] = s[j + i]
  BY <1>1
<1>4. RemoveAt(s, i) = front \o back
  BY DEF RemoveAt
<1>5. m \in Nat /\ n \in Nat
  BY <1>1
<1> HIDE DEF front, back
<1>6. Len(front) = m /\ Len(back) = n
  BY <1>2, <1>3
<1> HIDE DEF m, n
<1>7. /\ front \o back \in Seq(S) /\ DOMAIN (front \o back) = 1 .. m + n
      /\ \A j \in 1 .. m : (front \o back)[j] = front[j]
      /\ \A j \in 1 .. n : (front \o back)[j + m] = back[j]
  <2>1. front \in Seq(S) /\ back \in Seq(S)
    BY <1>2, <1>3
  <2>2. PICK f \in Seq(S), b \in Seq(S), p \in Nat, q \in Nat :
          f = front /\ b = back /\ p = m /\ q = n /\ Len(f) = p /\ Len(b) = q
    BY <1>5, <1>6, <2>1
  <2>3. Len(f) = p /\ Len(b) = q
    BY <2>2
  <2>4. /\ f \o b \in Seq(S) /\ DOMAIN (f \o b) = 1 .. p + q
        /\ \A j \in 1 .. p : (f \o b)[j] = f[j]
        /\ \A j \in 1 .. q : (f \o b)[j + p] = b[j]
    BY <2>3
  <2> QED
    BY <2>2, <2>4
<1>8. ASSUME NEW j \in DOMAIN s, j # i
      PROVE  \E k \in DOMAIN (front \o back) : (front \o back)[k] = s[j]
  <2>1. CASE j < i
    <3>1. j \in 1 .. m /\ j \in 1 .. m + n /\ j \in 1 .. i - 1
      BY <1>1, <2>1 DEF m, n
    <3> QED
      BY <1>2, <1>7, <3>1
  <2>2. CASE j > i
    <3>1. PICK k \in 1 .. n : k + m \in 1 .. m + n /\ k + i = j /\ k \in 1 .. Len(s) - i
      <4>1. /\ j - i \in 1 .. n /\ (j - i) + m \in 1 .. m + n /\ (j - i) + i = j
            /\ j - i \in 1 .. Len(s) - i
        BY <1>1, <2>2 DEF m, n
      <4> QED
        BY <4>1
    <3>2. (front \o back)[k + m] = s[j]
      BY <1>3, <1>7, <3>1
    <3> QED
      BY <1>7, <3>1, <3>2
  <2> QED
    BY <1>1, <1>8, <2>1, <2>2
<1> QED
  BY <1>4, <1>7, <1>8 DEF ToSet

(* A page that is built is in the container that there is. *)
LEMMA Builds ==
  ASSUME NEW u, UiOK(u), NEW k \in Keys, NEW v, v = BuildTab(u, k)
  PROVE  /\ UiOK(v) /\ v.container = u.container
         /\ v.current = u.current /\ v.active = u.active /\ v.lit = u.lit
         /\ v.old = u.old /\ v.dead = u.dead /\ v.raised = u.raised
         /\ u.container => k \in ToSet(v.stack) /\ v.loose = u.loose
<1>1. CASE u.container
  <2> DEFINE stack == Append(u.stack, k)
             shown == IF u.stack = <<>> THEN k ELSE u.shown
  <2>1. v = [u EXCEPT !.stack = stack, !.shown = shown]
    BY <1>1 DEF BuildTab
  <2>2. stack \in Seq(Keys) /\ k \in ToSet(stack)
    <3>1. u.stack \in Seq(Keys)
      BY DEF UiOK
    <3>2. stack \in Seq(Keys) /\ Len(stack) \in DOMAIN stack /\ stack[Len(stack)] = k
      BY <3>1
    <3> QED
      BY <3>2 DEF ToSet
  <2> HIDE DEF stack, shown
  <2>3. /\ IsUi(v) /\ v.stack = stack /\ v.loose = u.loose /\ v.container = u.container
        /\ v.current = u.current /\ v.active = u.active /\ v.lit = u.lit
        /\ v.old = u.old /\ v.dead = u.dead /\ v.raised = u.raised
    BY <2>1 DEF UiOK, IsUi
  <2> QED
    BY <2>2, <2>3 DEF UiOK
<1>2. CASE ~u.container
  <2>1. v = [u EXCEPT !.loose = @ \cup {k}]
    BY <1>2 DEF BuildTab
  <2>2. /\ IsUi(v) /\ v.stack = u.stack /\ v.container = u.container
        /\ v.current = u.current /\ v.active = u.active /\ v.lit = u.lit
        /\ v.old = u.old /\ v.dead = u.dead /\ v.raised = u.raised
    BY <2>1 DEF UiOK, IsUi
  <2> QED
    BY <1>2, <2>2 DEF UiOK
<1> QED
  BY <1>1, <1>2

(* A page that is shown is the current one, under its own button; with what a *)
(* change of theme has left the button that was lit is another's.             *)
LEMMA ShowsPage ==
  ASSUME NEW u, UiOK(u), NEW k \in Keys, NEW w, w = ShowPage(u, k)
  PROVE  /\ UiOK(w) /\ w.current \in {k, u.current}
         /\ u.container /\ ~u.dead /\ ~u.raised /\ u.loose = {} /\ ~u.old /\ u.lit \subseteq {u.active} =>
              Intact(w) /\ w.current = k
<1>1. CASE u.dead
  <2>1. w = [u EXCEPT !.raised = TRUE]
    BY <1>1 DEF ShowPage
  <2>2. /\ IsUi(w) /\ w.stack = u.stack /\ w.container = u.container
        /\ w.current = u.current /\ w.old = u.old /\ w.dead = u.dead /\ w.raised = TRUE
    BY <2>1 DEF UiOK, IsUi
  <2> QED
    BY <1>1, <2>2 DEF UiOK
<1>2. CASE ~u.dead
  <2> DEFINE v == IF k \in Cached(u) THEN u ELSE BuildTab(u, k)
             shown == IF v.container /\ k \in ToSet(v.stack) THEN k ELSE v.shown
             lit == (v.lit \ (IF v.old /\ v.container THEN {} ELSE {v.active})) \cup {k}
             old == ~v.container
  <2>1. w = [v EXCEPT !.shown = shown, !.lit = lit, !.active = k, !.old = old, !.current = k]
    BY <1>2 DEF ShowPage
  <2>2. /\ UiOK(v) /\ v.container = u.container
        /\ v.current = u.current /\ v.active = u.active /\ v.lit = u.lit
        /\ v.old = u.old /\ v.dead = u.dead /\ v.raised = u.raised
        /\ u.container /\ u.loose = {} => k \in ToSet(v.stack) /\ v.loose = {}
    <3>1. CASE k \in Cached(u)
      BY <3>1 DEF Cached
    <3>2. CASE k \notin Cached(u)
      BY <3>2, Builds
    <3> QED
      BY <3>1, <3>2
  <2> HIDE DEF v
  <2>3. /\ v.container /\ k \in ToSet(v.stack) => shown = k
        /\ ~v.old /\ v.lit \subseteq {v.active} => lit = {k}
        /\ old \in BOOLEAN /\ (old <=> ~v.container)
    OBVIOUS
  <2> HIDE DEF shown, lit, old
  <2>4. /\ IsUi(w) /\ w.stack = v.stack /\ w.loose = v.loose /\ w.container = v.container
        /\ w.current = k /\ w.active = k /\ w.lit = lit /\ w.shown = shown
        /\ w.old = old /\ w.dead = v.dead /\ w.raised = v.raised
    BY <2>1, <2>2 DEF UiOK, IsUi
  <2>5. UiOK(w)
    BY <2>2, <2>3, <2>4 DEF UiOK
  <2> QED
    BY <1>2, <2>2, <2>3, <2>4, <2>5 DEF Intact
<1> QED
  BY <1>1, <1>2

(* A page that is removed leaves the others, and what is shown if it was not  *)
(* the page shown.                                                            *)
LEMMA Removes ==
  ASSUME NEW u, UiOK(u), NEW k, NEW v, v = RemovePage(u, k)
  PROVE  /\ UiOK(v) /\ v.container = u.container
         /\ v.current = u.current /\ v.active = u.active /\ v.lit = u.lit
         /\ v.old = u.old /\ v.dead = u.dead /\ v.raised = u.raised
         /\ v.loose \subseteq u.loose
         /\ u.shown # k => v.shown = u.shown
         /\ \A l \in ToSet(u.stack) : l # k => l \in ToSet(v.stack)
<1>1. CASE k \in ToSet(u.stack)
  <2> DEFINE i == CHOOSE i \in DOMAIN u.stack : u.stack[i] = k
             stack == RemoveAt(u.stack, i)
             shown == IF u.shown = k THEN Neighbour(u.stack, i) ELSE u.shown
  <2>1. v = [u EXCEPT !.stack = stack, !.shown = shown]
    BY <1>1 DEF RemovePage
  <2>2. i \in DOMAIN u.stack /\ u.stack[i] = k
    BY <1>1 DEF ToSet
  <2>3. /\ u.stack \in Seq(Keys) /\ stack \in Seq(Keys)
        /\ \A j \in DOMAIN u.stack : j # i => u.stack[j] \in ToSet(stack)
    <3> HIDE DEF i
    <3> QED
      BY <2>2, OthersStay DEF UiOK
  <2>4. \A l \in ToSet(u.stack) : l # k => l \in ToSet(stack)
    BY <2>2, <2>3 DEF ToSet
  <2>5. u.shown # k => shown = u.shown
    OBVIOUS
  <2> HIDE DEF i, stack, shown
  <2>6. /\ IsUi(v) /\ v.stack = stack /\ v.loose = u.loose /\ v.container = u.container
        /\ v.current = u.current /\ v.active = u.active /\ v.lit = u.lit /\ v.shown = shown
        /\ v.old = u.old /\ v.dead = u.dead /\ v.raised = u.raised
    BY <2>1 DEF UiOK, IsUi
  <2> QED
    BY <2>3, <2>4, <2>5, <2>6 DEF UiOK
<1>2. CASE k \notin ToSet(u.stack)
  <2> DEFINE loose == u.loose \ {k}
  <2>1. v = [u EXCEPT !.loose = loose]
    BY <1>2 DEF RemovePage
  <2>2. loose \subseteq u.loose
    OBVIOUS
  <2> HIDE DEF loose
  <2>3. /\ IsUi(v) /\ v.stack = u.stack /\ v.loose = loose /\ v.container = u.container
        /\ v.current = u.current /\ v.active = u.active /\ v.lit = u.lit /\ v.shown = u.shown
        /\ v.old = u.old /\ v.dead = u.dead /\ v.raised = u.raised
    BY <2>1 DEF UiOK, IsUi
  <2> QED
    BY <2>2, <2>3 DEF UiOK
<1> QED
  BY <1>1, <1>2

(* A page is rebuilt, at once if it is the current one. *)
LEMMA Rebuilds ==
  ASSUME NEW u, UiOK(u), u.current \in Keys, NEW k
  PROVE  /\ UiOK(RebuildPage(u, k)) /\ RebuildPage(u, k).current = u.current
         /\ Intact(u) => Intact(RebuildPage(u, k))
<1>1. PICK v : v = RemovePage(u, k)
  OBVIOUS
<1>2. /\ UiOK(v) /\ v.container = u.container
      /\ v.current = u.current /\ v.active = u.active /\ v.lit = u.lit
      /\ v.old = u.old /\ v.dead = u.dead /\ v.raised = u.raised
      /\ v.loose \subseteq u.loose
      /\ u.shown # k => v.shown = u.shown
      /\ \A l \in ToSet(u.stack) : l # k => l \in ToSet(v.stack)
  BY <1>1, Removes
<1>3. RebuildPage(u, k) = IF v.current = k THEN ShowPage(v, k) ELSE v
  BY <1>1 DEF RebuildPage
<1>4. CASE v.current = k
  <2>1. k \in Keys
    BY <1>2, <1>4
  <2>2. PICK w : w = ShowPage(v, k)
    OBVIOUS
  <2>3. /\ UiOK(w) /\ w.current \in {k, v.current}
        /\ v.container /\ ~v.dead /\ ~v.raised /\ v.loose = {} /\ ~v.old /\ v.lit \subseteq {v.active} =>
             Intact(w) /\ w.current = k
    BY <1>2, <2>1, <2>2, ShowsPage
  <2>4. Intact(u) => Intact(w)
    <3>1. Intact(u) => /\ v.container /\ ~v.dead /\ ~v.raised /\ v.loose = {} /\ ~v.old
                       /\ v.lit \subseteq {v.active}
      BY <1>2 DEF Intact
    <3> QED
      BY <2>3, <3>1
  <2>5. w.current = u.current
    BY <1>2, <1>4, <2>3
  <2> QED
    BY <1>3, <1>4, <2>2, <2>3, <2>4, <2>5
<1>5. CASE v.current # k
  <2>1. Intact(u) => Intact(v)
    BY <1>2, <1>5 DEF Intact
  <2> QED
    BY <1>2, <1>3, <1>5, <2>1
<1> QED
  BY <1>4, <1>5

(* Another level: the current page and the topology are rebuilt. *)
LEMMA RebuildsForAccess ==
  ASSUME NEW u, UiOK(u), u.current \in Keys
  PROVE  /\ UiOK(RebuildForAccess(u)) /\ RebuildForAccess(u).current = u.current
         /\ Intact(u) => Intact(RebuildForAccess(u))
<1> DEFINE v == RebuildPage(u, u.current)
<1>1. UiOK(v) /\ v.current = u.current /\ (Intact(u) => Intact(v))
  BY Rebuilds
<1>2. RebuildForAccess(u) = IF v.raised \/ u.current = "topology" THEN v ELSE RebuildPage(v, "topology")
  BY DEF RebuildForAccess
<1> HIDE DEF v
<1>3. /\ UiOK(RebuildPage(v, "topology")) /\ RebuildPage(v, "topology").current = v.current
      /\ (Intact(v) => Intact(RebuildPage(v, "topology")))
  BY <1>1, Rebuilds
<1> QED
  BY <1>1, <1>2, <1>3

(* A handler starts without an exception. *)
LEMMA Calms ==
  ASSUME NEW u, UiOK(u)
  PROVE  /\ UiOK(Calm(u)) /\ Calm(u).current = u.current /\ Calm(u).dead = u.dead
         /\ Calm(u).active = u.active /\ Calm(u).old = u.old /\ ~Calm(u).raised
         /\ Intact(u) => Intact(Calm(u))
<1>1. ASSUME NEW v, v = [u EXCEPT !.raised = FALSE]
      PROVE  /\ IsUi(v) /\ v.stack = u.stack /\ v.loose = u.loose /\ v.container = u.container
             /\ v.current = u.current /\ v.active = u.active /\ v.lit = u.lit /\ v.shown = u.shown
             /\ v.old = u.old /\ v.dead = u.dead /\ v.raised = FALSE
  BY <1>1 DEF UiOK, IsUi
<1> QED
  BY <1>1 DEF Calm, UiOK, Intact

(* A new layout is empty. *)
LEMMA LaysOut ==
  ASSUME NEW u, UiOK(u), NEW v, v = BuildLayout(u)
  PROVE  /\ UiOK(v) /\ v.stack = <<>> /\ v.loose = {} /\ v.container /\ v.lit = {}
         /\ v.current = u.current /\ v.active = u.active
         /\ v.old = u.old /\ v.dead = u.dead /\ v.raised = u.raised
<1>1. v = [u EXCEPT !.container = TRUE, !.stack = <<>>, !.loose = {}, !.shown = NoPage, !.lit = {}]
  BY DEF BuildLayout
<1>2. /\ IsUi(v) /\ v.stack = <<>> /\ v.loose = {} /\ v.container = TRUE /\ v.lit = {}
      /\ v.current = u.current /\ v.active = u.active
      /\ v.old = u.old /\ v.dead = u.dead /\ v.raised = u.raised
  BY <1>1 DEF UiOK, IsUi
<1>3. <<>> \in Seq(Keys)
  OBVIOUS
<1> QED
  BY <1>2, <1>3 DEF UiOK


ShellOK ==
  /\ UiOK(ui) /\ ui.current \in Keys
  /\ theme = [stage |-> theme.stage, page |-> theme.page,
              rebuilt |-> theme.rebuilt, watched |-> theme.watched]
  /\ theme.stage \in {"none", "styled", "razed"} /\ theme.watched \in BOOLEAN
  /\ ticking \in BOOLEAN /\ watching \in BOOLEAN /\ ended \in BOOLEAN

(* A second change of theme waits for the first, and its page is one. *)
OneTheme == theme.stage # "none" => toggling /\ theme.page \in Keys

(* The user interface is whole between two changes of theme, and a change of  *)
(* theme starts from a whole one unless the last left it broken.              *)
Whole ==
  (theme.stage = "none" /\ intruded # "now") \/ (theme.stage = "styled" /\ intruded = "never") =>
    Intact(ui)

(* A razed one has no trace of the pages, and waits for its rebuilding. *)
RazedClean ==
  theme.stage = "razed" /\ intruded # "now" =>
    /\ ui.active = NoPage /\ ~ui.old /\ ~ui.dead
    /\ ui.current = theme.rebuilt

(* What runs, and what is remembered to run again. *)
Steady ==
  /\ theme.stage = "razed" => ~ticking
  /\ intruded = "never" =>
       /\ theme.stage # "none" => ~ended
       /\ theme.stage # "razed" => /\ ticking <=> ~ended
                                   /\ watching <=> access = "tecnico" /\ ~ended
       /\ theme.stage = "razed" => ~watching /\ (theme.watched <=> access = "tecnico")

ShellInv == ShellOK /\ OneTheme /\ Whole /\ RazedClean /\ Steady

(* The user interface starts with the first page. *)
LEMMA ShellInvInit ==
  ShellInit => ShellInv
<1> SUFFICES ASSUME ShellInit PROVE ShellInv
  OBVIOUS
<1> DEFINE k == Pages[1]
<1>1. k \in Keys
  BY PagesAssumption DEF Keys, ToSet
<1> HIDE DEF k
<1>2. ui = ShowPage(EmptyUi, k)
  BY DEF ShellInit, k
<1>3. Cached(EmptyUi) = {}
  BY DEF Cached, EmptyUi, ToSet
<1>4. PICK v : v = BuildTab(EmptyUi, k)
  OBVIOUS
<1>5. v = [stack |-> <<k>>, shown |-> k, loose |-> {}, container |-> TRUE,
           current |-> NoPage, active |-> NoPage, old |-> FALSE, dead |-> FALSE,
           lit |-> {}, raised |-> FALSE]
  <2>1. EmptyUi.container /\ EmptyUi.stack = <<>>
    BY DEF EmptyUi
  <2>2. v = [EmptyUi EXCEPT !.stack = Append(@, k), !.shown = k]
    BY <1>4, <2>1 DEF BuildTab
  <2>3. Append(<<>>, k) = <<k>>
    BY <1>1
  <2> QED
    BY <2>1, <2>2, <2>3 DEF EmptyUi
<1>6. <<k>> \in Seq(Keys) /\ ToSet(<<k>>) = {k}
  <2>1. <<k>> \in Seq(Keys) /\ DOMAIN <<k>> = {1} /\ <<k>>[1] = k
    BY <1>1
  <2> QED
    BY <2>1 DEF ToSet
<1>7. ui = [v EXCEPT !.shown = IF v.container /\ k \in ToSet(v.stack) THEN k ELSE @,
                     !.lit = (@ \ (IF v.old /\ v.container THEN {} ELSE {v.active})) \cup {k},
                     !.active = k, !.old = ~v.container, !.current = k]
  <2>1. ~EmptyUi.dead
    BY DEF EmptyUi
  <2> QED
    BY <1>2, <1>3, <1>4, <2>1 DEF ShowPage
<1>8. ui = [stack |-> <<k>>, shown |-> k, loose |-> {}, container |-> TRUE,
            current |-> k, active |-> k, old |-> FALSE, dead |-> FALSE,
            lit |-> {k}, raised |-> FALSE]
  BY <1>5, <1>6, <1>7
<1>9. UiOK(ui) /\ ui.current \in Keys /\ Intact(ui)
  BY <1>1, <1>6, <1>8 DEF UiOK, IsUi, Intact
<1>10. /\ theme = [stage |-> "none", page |-> NoPage, rebuilt |-> NoPage, watched |-> FALSE]
       /\ ticking = TRUE /\ access = "user" /\ watching = FALSE /\ ended = FALSE
  BY DEF ShellInit, NoTheme
<1>11. ShellOK
  BY <1>9, <1>10 DEF ShellOK
<1> QED
  BY <1>9, <1>10, <1>11 DEF ShellInv, OneTheme, Whole, RazedClean, Steady

(* What a handler does to the pages, it does to a whole user interface or to  *)
(* one that no longer counts as whole.                                        *)
LEMMA HandledUi ==
  ASSUME ShellInv, theme' = theme, toggling' = toggling,
         UiOK(ui'), ui'.current \in Keys, Intact(ui) => Intact(ui'),
         Intrude \/ (~Razed /\ intruded' = intruded),
         ticking' \in BOOLEAN, watching' \in BOOLEAN, ended' \in BOOLEAN
  PROVE  ShellOK' /\ OneTheme' /\ Whole' /\ RazedClean' /\ (intruded' = "never" => intruded = "never" /\ ~Razed)
<1>1. ShellOK /\ OneTheme /\ Whole /\ RazedClean
  BY DEF ShellInv
<1>2. ShellOK'
  BY <1>1 DEF ShellOK
<1>3. OneTheme'
  BY <1>1 DEF OneTheme
<1>4. CASE Razed
  BY <1>2, <1>3, <1>4 DEF Razed, Intrude, Whole, RazedClean
<1>5. CASE ~Razed
  <2>1. intruded' = intruded /\ theme.stage # "razed"
    BY <1>5 DEF Razed, Intrude
  <2>2. Whole' /\ RazedClean'
    BY <1>1, <2>1 DEF Whole, RazedClean
  <2> QED
    BY <1>2, <1>3, <1>5, <2>1, <2>2
<1> QED
  BY <1>4, <1>5

(* A visit, from the sidebar, by a shortcut or by the palette *)
LEMMA VisitKeeps ==
  ASSUME ShellInv, NEW k \in Keys, Visit(k),
         UNCHANGED <<theme, toggling, ticking, access, watching, ended>>
  PROVE  ShellInv'
<1>1. ShellOK /\ Steady
  BY DEF ShellInv
<1>2. PICK u : u = Calm(ui)
  OBVIOUS
<1>3. /\ UiOK(u) /\ u.current = ui.current /\ ~u.raised
      /\ Intact(ui) => Intact(u)
  BY <1>1, <1>2, Calms DEF ShellOK
<1>4. ui' = ShowPage(u, k) /\ Intrude
  BY <1>2 DEF Visit
<1>5. /\ UiOK(ui') /\ ui'.current \in {k, u.current}
      /\ u.container /\ ~u.dead /\ ~u.raised /\ u.loose = {} /\ ~u.old /\ u.lit \subseteq {u.active} =>
           Intact(ui') /\ ui'.current = k
  BY <1>3, <1>4, ShowsPage
<1>6. Intact(ui) => Intact(ui')
  BY <1>3, <1>5 DEF Intact
<1>7. ui'.current \in Keys
  BY <1>1, <1>3, <1>5 DEF ShellOK
<1>8. ShellOK' /\ OneTheme' /\ Whole' /\ RazedClean' /\ (intruded' = "never" => intruded = "never" /\ ~Razed)
  <2>1. ticking' \in BOOLEAN /\ watching' \in BOOLEAN /\ ended' \in BOOLEAN
    BY <1>1 DEF ShellOK
  <2> QED
    BY <1>4, <1>5, <1>6, <1>7, <2>1, HandledUi
<1>9. Steady'
  BY <1>1, <1>8 DEF Steady, Razed
<1> QED
  BY <1>8, <1>9 DEF ShellInv

(* A login dialog, or a logout *)
LEMMA AuthDialogKeeps ==
  ASSUME ShellInv, ShowAuthDialog, UNCHANGED <<theme, toggling, ticking, ended>>
  PROVE  ShellInv'
<1>1. ShellOK /\ Steady
  BY DEF ShellInv
<1>2. CASE access = "user"
  <2>1. UNCHANGED <<ui, access, watching>> /\ Intrude
    BY <1>2 DEF ShowAuthDialog
  <2>2. ShellOK' /\ OneTheme' /\ Whole' /\ RazedClean' /\ (intruded' = "never" => intruded = "never" /\ ~Razed)
    BY <1>1, <2>1, HandledUi DEF ShellOK
  <2>3. Steady'
    BY <1>1, <2>1, <2>2 DEF Steady, Razed
  <2> QED
    BY <2>2, <2>3 DEF ShellInv
<1>3. CASE access # "user"
  <2>1. PICK u : u = Calm(ui)
    OBVIOUS
  <2>2. /\ UiOK(u) /\ u.current = ui.current /\ u.current \in Keys
        /\ Intact(ui) => Intact(u)
    BY <1>1, <2>1, Calms DEF ShellOK
  <2>3. access' = "user" /\ watching' = FALSE /\ ui' = RebuildForAccess(u) /\ Intrude
    BY <1>3, <2>1 DEF ShowAuthDialog
  <2>4. UiOK(ui') /\ ui'.current \in Keys /\ (Intact(ui) => Intact(ui'))
    BY <2>2, <2>3, RebuildsForAccess
  <2>5. ticking' \in BOOLEAN /\ watching' \in BOOLEAN /\ ended' \in BOOLEAN
    BY <1>1, <2>3 DEF ShellOK
  <2>6. ShellOK' /\ OneTheme' /\ Whole' /\ RazedClean' /\ (intruded' = "never" => intruded = "never" /\ ~Razed)
    BY <2>3, <2>4, <2>5, HandledUi
  <2>7. Steady'
    BY <1>1, <2>3, <2>6 DEF Steady, Razed
  <2> QED
    BY <2>6, <2>7 DEF ShellInv
<1> QED
  BY <1>2, <1>3

(* A change of theme starts while the window is open, from what is shown then. *)
LEMMA ToggleKeeps ==
  ASSUME ShellInv, Handles, ToggleTheme, UNCHANGED <<ui, ticking, access, watching, ended>>
  PROVE  ShellInv'
<1>1. ShellOK /\ OneTheme /\ Whole /\ Steady
  BY DEF ShellInv
<1>2. theme.stage = "none" /\ ~ended
  BY <1>1 DEF ToggleTheme, OneTheme, Handles
<1>3. /\ theme' = [stage |-> "styled", page |-> ui.current, rebuilt |-> NoPage, watched |-> FALSE]
      /\ toggling' = TRUE
      /\ intruded' = IF intruded = "now" THEN "before" ELSE intruded
  BY DEF ToggleTheme, NoTheme
<1>4. ShellOK' /\ OneTheme'
  BY <1>1, <1>3 DEF ShellOK, OneTheme
<1>5. Whole' /\ RazedClean'
  BY <1>1, <1>2, <1>3 DEF Whole, RazedClean
<1>6. Steady'
  BY <1>1, <1>2, <1>3 DEF Steady
<1> QED
  BY <1>4, <1>5, <1>6 DEF ShellInv

(* Nothing of the shell but the palette, the dialog or the counter changes. *)
LEMMA ShellFrame ==
  ASSUME ShellInv, UNCHANGED <<ui, theme, toggling, ticking, access, watching, ended, intruded>>
  PROVE  ShellInv'
BY DEF ShellInv, ShellOK, OneTheme, Whole, RazedClean, Steady

(* The neighbour of a page is a page. *)
LEMMA CycleStays ==
  ASSUME NEW i \in DOMAIN Pages, NEW step \in {1, Len(Pages) - 1}
  PROVE  Pages[((i - 1 + step) % Len(Pages)) + 1] \in Keys
<1> DEFINE j == ((i - 1 + step) % Len(Pages)) + 1
<1>1. DOMAIN Pages = 1 .. Len(Pages) /\ Len(Pages) \in Nat /\ Len(Pages) # 0
  BY PagesAssumption
<1>2. j \in DOMAIN Pages
  <2>1. PICK n \in Nat \ {0} : n = Len(Pages)
    BY <1>1
  <2>2. i \in 1 .. n /\ step \in {1, n - 1}
    BY <1>1, <2>1
  <2>3. PICK x \in Int : x = i - 1 + step
    BY <2>2
  <2>4. x % n \in 0 .. n - 1
    BY <2>1
  <2>5. (x % n) + 1 \in 1 .. n
    BY <2>1, <2>4
  <2> QED
    BY <1>1, <2>1, <2>3, <2>5
<1> HIDE DEF j
<1> QED
  BY <1>2 DEF Keys, ToSet, j

(* A command of the palette that shows a page shows one there is. *)
LEMMA CommandsShowPages ==
  ASSUME NEW c \in Range(DefaultCommands), c.do = "show"
  PROVE  c.page \in Keys
<1> DEFINE pages == [i \in DOMAIN Pages |-> Command("show", Pages[i], TRUE)]
           others == << Command("theme", NoPage, TRUE), Command("other", NoPage, TRUE),
                        Command("logout", NoPage, TRUE), Command("copy_ip", NoPage, FALSE) >>
           Kinds == {"show", "theme", "other", "logout", "copy_ip"}
           All == {d \in [do : Kinds, page : Keys \cup {NoPage}, enabled : BOOLEAN] :
                     d.do = "show" => d.page \in Keys}
<1> HIDE DEF pages, others
<1>1. pages \in Seq(All)
  <2>1. DOMAIN Pages = 1 .. Len(Pages) /\ Len(Pages) \in Nat
    BY PagesAssumption
  <2>2. \A i \in DOMAIN Pages : Pages[i] \in Keys
    BY DEF Keys, ToSet
  <2>3. ASSUME NEW k \in Keys, NEW r, r = [do |-> "show", page |-> k, enabled |-> TRUE]
        PROVE  r \in All
    <3>1. ASSUME NEW do \in Kinds, NEW b \in BOOLEAN, do = "show", b = TRUE
          PROVE  r \in [do : Kinds, page : Keys \cup {NoPage}, enabled : BOOLEAN]
      <4>1. r = [do |-> do, page |-> k, enabled |-> b]
        BY <2>3, <3>1
      <4> HIDE DEF Kinds
      <4> QED
        BY <4>1
    <3>2. r.page = k
      BY <2>3
    <3> QED
      BY <3>1, <3>2
  <2> HIDE DEF All
  <2>4. \A i \in DOMAIN Pages : [do |-> "show", page |-> Pages[i], enabled |-> TRUE] \in All
    BY <2>2, <2>3
  <2>5. pages \in [1 .. Len(Pages) -> All]
    BY <2>1, <2>4 DEF pages, Command
  <2> QED
    BY <2>1, <2>5
<1>2. others \in Seq(All)
  <2>1. ASSUME NEW do \in {"theme", "other", "logout", "copy_ip"}, NEW b \in BOOLEAN,
               NEW r, r = [do |-> do, page |-> NoPage, enabled |-> b]
        PROVE  r \in All
    <3>1. do \in Kinds
      OBVIOUS
    <3>2. r \in [do : Kinds, page : Keys \cup {NoPage}, enabled : BOOLEAN]
      <4> HIDE DEF Kinds
      <4> QED
        BY <2>1, <3>1
    <3>3. r.do # "show"
      BY <2>1
    <3> QED
      BY <3>2, <3>3
  <2> HIDE DEF All
  <2>2. PICK c1 \in All, c2 \in All, c3 \in All, c4 \in All :
          /\ c1 = Command("theme", NoPage, TRUE) /\ c2 = Command("other", NoPage, TRUE)
          /\ c3 = Command("logout", NoPage, TRUE) /\ c4 = Command("copy_ip", NoPage, FALSE)
    BY <2>1 DEF Command
  <2>3. <<c1, c2, c3, c4>> \in Seq(All)
    OBVIOUS
  <2> QED
    BY <2>2, <2>3 DEF others
<1>3. DefaultCommands \in Seq(All)
  <2>1. DefaultCommands = pages \o others
    BY DEF DefaultCommands, pages, others
  <2> HIDE DEF All
  <2> QED
    BY <1>1, <1>2, <2>1
<1>4. c \in All
  <2> HIDE DEF All
  <2> QED
    BY <1>3 DEF Range
<1> QED
  BY <1>4

(* One step for every handler *)
LEMMA ShellInvStep ==
  ShellInv /\ [ShellNext]_shellVars => ShellInv'
<1> SUFFICES ASSUME ShellInv, [ShellNext]_shellVars PROVE ShellInv'
  OBVIOUS
<1>1. ShellOK /\ OneTheme /\ Whole /\ RazedClean /\ Steady
  BY DEF ShellInv
<1>2. CASE Navigate
  BY <1>2, VisitKeeps DEF Navigate
<1>3. CASE CycleTab
  <2>1. PICK i \in DOMAIN Pages, step \in {1, Len(Pages) - 1} :
          Visit(Pages[((i - 1 + step) % Len(Pages)) + 1])
    BY <1>3 DEF CycleTab
  <2>2. PICK k \in Keys : k = Pages[((i - 1 + step) % Len(Pages)) + 1]
    BY CycleStays
  <2>3. Visit(k)
    BY <2>1, <2>2
  <2>4. UNCHANGED <<theme, toggling, ticking, access, watching, ended>>
    BY <1>3 DEF CycleTab
  <2> QED
    BY <2>3, <2>4, VisitKeeps
<1>4. CASE OpenDialog
  <2>1. ShowAuthDialog /\ UNCHANGED <<theme, toggling, ticking, ended>>
    BY <1>4 DEF OpenDialog
  <2> QED
    BY <2>1, AuthDialogKeeps
<1>5. CASE FailOrClose
  BY <1>5, ShellFrame DEF FailOrClose
<1>6. CASE Login
  <2>1. PICK u : u = Calm(ui)
    OBVIOUS
  <2>2. /\ UiOK(u) /\ u.current = ui.current /\ u.current \in Keys
        /\ Intact(ui) => Intact(u)
    BY <1>1, <2>1, Calms DEF ShellOK
  <2>3. /\ ui' = RebuildForAccess(u) /\ Intrude
        /\ access' \in {"tecnico", "admin"}
        /\ watching' = IF ui'.raised THEN watching ELSE access' = "tecnico"
        /\ UNCHANGED <<theme, toggling, ticking, ended>>
    BY <1>6, <2>1 DEF Login
  <2>4. UiOK(ui') /\ ui'.current \in Keys /\ (Intact(ui) => Intact(ui'))
    BY <2>2, <2>3, RebuildsForAccess
  <2>5. ticking' \in BOOLEAN /\ watching' \in BOOLEAN /\ ended' \in BOOLEAN
    BY <1>1, <2>3 DEF ShellOK
  <2>6. ShellOK' /\ OneTheme' /\ Whole' /\ RazedClean' /\ (intruded' = "never" => intruded = "never" /\ ~Razed)
    BY <2>3, <2>4, <2>5, HandledUi
  <2>7. intruded' = "never" => ~ended /\ (watching' <=> access' = "tecnico")
    <3> SUFFICES ASSUME intruded' = "never" PROVE ~ended /\ (watching' <=> access' = "tecnico")
      OBVIOUS
    <3>1. intruded = "never" /\ theme.stage \in {"none", "styled"}
      BY <1>1, <2>6 DEF Razed, ShellOK
    <3>2. Intact(ui)
      BY <1>1, <3>1 DEF Whole
    <3>3. ~ui'.raised
      BY <2>4, <3>2 DEF Intact
    <3>4. ~ended
      BY <1>1, <3>1, <1>6 DEF Steady, Login, Handles
    <3> QED
      BY <2>3, <3>3, <3>4
  <2>8. Steady'
    BY <1>1, <2>3, <2>6, <2>7 DEF Steady, Razed
  <2> QED
    BY <2>6, <2>8 DEF ShellInv
<1>7. CASE Expire
  <2>1. PICK u : u = Calm(ui)
    OBVIOUS
  <2>2. /\ UiOK(u) /\ u.current = ui.current /\ u.current \in Keys
        /\ Intact(ui) => Intact(u)
    BY <1>1, <2>1, Calms DEF ShellOK
  <2>3. /\ ui' = RebuildPage(u, "topology") /\ ticking
        /\ access' = "user" /\ watching' = FALSE
        /\ UNCHANGED <<theme, toggling, ticking, ended, intruded>>
    BY <1>7, <2>1 DEF Expire
  <2>4. UiOK(ui') /\ ui'.current \in Keys /\ (Intact(ui) => Intact(ui'))
    BY <2>2, <2>3, Rebuilds
  <2>5. ~Razed /\ ticking' \in BOOLEAN /\ watching' \in BOOLEAN /\ ended' \in BOOLEAN
    BY <1>1, <2>3 DEF ShellOK, Steady, Razed
  <2>6. ShellOK' /\ OneTheme' /\ Whole' /\ RazedClean' /\ (intruded' = "never" => intruded = "never" /\ ~Razed)
    BY <2>3, <2>4, <2>5, HandledUi
  <2>7. Steady'
    BY <1>1, <2>3, <2>5 DEF Steady, Razed
  <2> QED
    BY <2>6, <2>7 DEF ShellInv
<1>8. CASE ShowResults
  <2>1. PICK u : u = Calm(ui)
    OBVIOUS
  <2>2. /\ UiOK(u) /\ u.current = ui.current /\ u.current \in Keys
        /\ Intact(ui) => Intact(u)
    BY <1>1, <2>1, Calms DEF ShellOK
  <2>3. /\ ui' = RebuildPage(u, "manutencao") /\ ticking
        /\ UNCHANGED <<theme, toggling, ticking, access, watching, ended, intruded>>
    BY <1>8, <2>1 DEF ShowResults
  <2>4. UiOK(ui') /\ ui'.current \in Keys /\ (Intact(ui) => Intact(ui'))
    BY <2>2, <2>3, Rebuilds
  <2>5. ~Razed /\ ticking' \in BOOLEAN /\ watching' \in BOOLEAN /\ ended' \in BOOLEAN
    BY <1>1, <2>3 DEF ShellOK, Steady, Razed
  <2>6. ShellOK' /\ OneTheme' /\ Whole' /\ RazedClean' /\ (intruded' = "never" => intruded = "never" /\ ~Razed)
    BY <2>3, <2>4, <2>5, HandledUi
  <2>7. Steady'
    BY <1>1, <2>3 DEF Steady
  <2> QED
    BY <2>6, <2>7 DEF ShellInv
<1>9. CASE CloseWindow
  <2>1. /\ ended' = TRUE /\ ticking' = FALSE /\ watching' = FALSE
        /\ intruded' = IF theme.stage = "none" THEN intruded ELSE "now"
        /\ UNCHANGED <<ui, theme, toggling, access>>
    BY <1>9 DEF CloseWindow
  <2>2. ShellOK' /\ OneTheme'
    BY <1>1, <2>1 DEF ShellOK, OneTheme
  <2>3. Whole' /\ RazedClean'
    BY <1>1, <2>1 DEF Whole, RazedClean
  <2>4. Steady'
    BY <1>1, <2>1 DEF Steady
  <2> QED
    BY <2>2, <2>3, <2>4 DEF ShellInv
<1>10. CASE ClickTheme
  <2>1. Handles /\ ToggleTheme /\ UNCHANGED <<ui, ticking, access, watching, ended>>
    BY <1>10 DEF ClickTheme
  <2> QED
    BY <2>1, ToggleKeeps
<1>11. CASE Raze
  <2>1. PICK u : u = BuildLayout(ui)
    OBVIOUS
  <2>2. /\ UiOK(u) /\ u.stack = <<>> /\ u.loose = {} /\ u.container /\ u.lit = {}
        /\ u.current = ui.current
    BY <1>1, <2>1, LaysOut DEF ShellOK
  <2> DEFINE lit == ui.lit
  <2>3. ui' = [u EXCEPT !.container = FALSE, !.lit = lit,
                        !.active = NoPage, !.old = FALSE, !.dead = FALSE]
    BY <1>11, <2>1 DEF Raze
  <2> HIDE DEF lit
  <2>4. /\ IsUi(ui') /\ ui'.stack = u.stack /\ ui'.container = FALSE
        /\ ui'.current = u.current /\ ui'.active = NoPage /\ ui'.old = FALSE
        /\ ui'.dead = FALSE /\ ui'.raised = u.raised
    BY <2>2, <2>3 DEF UiOK, IsUi
  <2>5. /\ theme.stage = "styled" /\ ticking' = FALSE /\ watching' = FALSE
        /\ UNCHANGED <<toggling, access, ended, intruded>>
    BY <1>11 DEF Raze
  <2>6. theme' = [stage |-> "razed", page |-> theme.page,
                  rebuilt |-> ui.current, watched |-> watching]
    <3> DEFINE current == ui.current
               w == watching
    <3>1. theme' = [theme EXCEPT !.stage = "razed", !.rebuilt = current, !.watched = w]
      BY <1>11 DEF Raze
    <3>2. theme = [stage |-> theme.stage, page |-> theme.page,
                   rebuilt |-> theme.rebuilt, watched |-> theme.watched]
      BY <1>1 DEF ShellOK
    <3> HIDE DEF current, w
    <3>3. theme' = [stage |-> "razed", page |-> theme.page, rebuilt |-> current, watched |-> w]
      BY <3>1, <3>2
    <3> QED
      BY <3>3 DEF current, w
  <2>7. UiOK(ui') /\ ui'.current \in Keys
    BY <1>1, <2>2, <2>4 DEF UiOK, ShellOK
  <2>8. ShellOK' /\ OneTheme'
    BY <1>1, <2>5, <2>6, <2>7 DEF ShellOK, OneTheme
  <2>9. Whole' /\ RazedClean'
    BY <1>1, <2>2, <2>4, <2>5, <2>6 DEF Whole, RazedClean
  <2>10. Steady'
    BY <1>1, <2>5, <2>6 DEF Steady
  <2> QED
    BY <2>8, <2>9, <2>10 DEF ShellInv
<1>12. CASE Rebuild
  <2>1. PICK c : c = Calm(ui)
    OBVIOUS
  <2>2. /\ UiOK(c) /\ c.current = ui.current /\ c.current \in Keys /\ c.dead = ui.dead
        /\ c.active = ui.active /\ c.old = ui.old /\ ~c.raised
    BY <1>1, <2>1, Calms DEF ShellOK
  <2>3. PICK b : b = BuildLayout(c)
    OBVIOUS
  <2>4. /\ UiOK(b) /\ b.loose = {} /\ b.container /\ b.lit = {} /\ b.stack = <<>>
        /\ b.current = c.current /\ b.active = c.active
        /\ b.old = c.old /\ b.dead = c.dead /\ b.raised = c.raised
    BY <2>2, <2>3, LaysOut
  <2>5. PICK u : u = RebuildPage(b, theme.rebuilt)
    OBVIOUS
  <2>6. UiOK(u) /\ u.current = b.current
    BY <2>2, <2>4, <2>5, Rebuilds
  <2>7. intruded # "now" => Intact(u)
    <3> SUFFICES ASSUME intruded # "now" PROVE Intact(u)
      OBVIOUS
    <3>1. theme.stage = "razed"
      BY <1>12 DEF Rebuild
    <3>2. ui.active = NoPage /\ ~ui.old /\ ~ui.dead /\ ui.current = theme.rebuilt
      BY <1>1, <3>1 DEF RazedClean
    <3>3. PICK r : r = RemovePage(b, theme.rebuilt)
      OBVIOUS
    <3>4. /\ UiOK(r) /\ r.container = b.container
          /\ r.current = b.current /\ r.active = b.active /\ r.lit = b.lit
          /\ r.old = b.old /\ r.dead = b.dead /\ r.raised = b.raised
          /\ r.loose \subseteq b.loose
      BY <2>4, <3>3, Removes
    <3>5. r.current = theme.rebuilt /\ theme.rebuilt \in Keys
      BY <2>2, <2>4, <3>2, <3>4
    <3>6. u = ShowPage(r, theme.rebuilt)
      BY <2>5, <3>3, <3>5 DEF RebuildPage
    <3>7. /\ r.container /\ ~r.dead /\ ~r.raised /\ r.loose = {} /\ ~r.old
          /\ r.lit \subseteq {r.active}
      BY <2>2, <2>4, <3>2, <3>4
    <3> QED
      BY <3>4, <3>5, <3>6, <3>7, ShowsPage
  <2>8. PICK v : v = IF theme.page \in Cached(u) THEN ShowPage(u, theme.page) ELSE u
    OBVIOUS
  <2>9. UiOK(v) /\ v.current \in Keys /\ (Intact(u) => Intact(v))
    <3>1. theme.page \in Keys
      BY <1>1, <1>12 DEF OneTheme, Rebuild
    <3>2. CASE theme.page \in Cached(u)
      <4>1. v = ShowPage(u, theme.page)
        BY <2>8, <3>2
      <4>2. /\ UiOK(v) /\ v.current \in {theme.page, u.current}
            /\ u.container /\ ~u.dead /\ ~u.raised /\ u.loose = {} /\ ~u.old /\ u.lit \subseteq {u.active} =>
                 Intact(v) /\ v.current = theme.page
        BY <2>6, <3>1, <4>1, ShowsPage
      <4>3. Intact(u) => Intact(v)
        BY <4>2 DEF Intact
      <4> QED
        BY <2>2, <2>4, <2>6, <3>1, <4>2, <4>3
    <3>3. CASE theme.page \notin Cached(u)
      BY <2>2, <2>4, <2>6, <2>8, <3>3
    <3> QED
      BY <3>2, <3>3
  <2>10. ui' = [v EXCEPT !.dead = v.old]
    BY <1>12, <2>1, <2>3, <2>5, <2>8 DEF Rebuild
  <2>11. /\ IsUi(ui') /\ ui'.stack = v.stack /\ ui'.loose = v.loose /\ ui'.container = v.container
         /\ ui'.current = v.current /\ ui'.active = v.active /\ ui'.lit = v.lit /\ ui'.shown = v.shown
         /\ ui'.old = v.old /\ ui'.dead = v.old /\ ui'.raised = v.raised
    <3> DEFINE old == v.old
    <3>1. ui' = [v EXCEPT !.dead = old]
      BY <2>10
    <3>2. IsUi(v)
      BY <2>9 DEF UiOK
    <3> HIDE DEF old
    <3>3. /\ IsUi(ui') /\ ui'.stack = v.stack /\ ui'.loose = v.loose /\ ui'.container = v.container
          /\ ui'.current = v.current /\ ui'.active = v.active /\ ui'.lit = v.lit /\ ui'.shown = v.shown
          /\ ui'.old = v.old /\ ui'.dead = old /\ ui'.raised = v.raised
      BY <3>1, <3>2 DEF IsUi
    <3> QED
      BY <3>3 DEF old
  <2>12. UiOK(ui') /\ ui'.current \in Keys
    BY <2>9, <2>11 DEF UiOK
  <2>13. intruded # "now" => Intact(ui')
    BY <2>7, <2>9, <2>11 DEF Intact
  <2>14. /\ theme.stage = "razed" /\ ticking' = TRUE /\ watching' = (watching \/ theme.watched)
         /\ theme' = [stage |-> "none", page |-> NoPage, rebuilt |-> NoPage, watched |-> FALSE]
         /\ UNCHANGED <<toggling, access, ended, intruded>>
    BY <1>12 DEF Rebuild, NoTheme
  <2>15. watching' \in BOOLEAN /\ ended' \in BOOLEAN
    BY <1>1, <2>14 DEF ShellOK
  <2>16. ShellOK' /\ OneTheme'
    BY <2>12, <2>14, <2>15 DEF ShellOK, OneTheme
  <2>17. Whole' /\ RazedClean'
    BY <2>13, <2>14 DEF Whole, RazedClean
  <2>18. Steady'
    BY <1>1, <2>14 DEF Steady
  <2> QED
    BY <2>16, <2>17, <2>18 DEF ShellInv
<1>13. CASE UnlockTheme
  <2>1. theme.stage = "none" /\ UNCHANGED <<ui, theme, ticking, access, watching, ended, intruded>>
    BY <1>13 DEF UnlockTheme
  <2> QED
    BY <1>1, <2>1 DEF ShellInv, ShellOK, OneTheme, Whole, RazedClean, Steady
<1>14. CASE UsePalette
  BY <1>14, ShellFrame DEF UsePalette
<1>15. CASE RunCommand
  <2>1. UNCHANGED <<ticking, ended>> /\ Handles
    BY <1>15 DEF RunCommand
  <2>2. PICK c \in Range(DefaultCommands) :
          \/ c.do = "show" /\ Visit(c.page)
             /\ UNCHANGED <<theme, toggling, themes, access, watching, dialog>>
          \/ c.do = "theme" /\ ToggleTheme
             /\ UNCHANGED <<ui, access, watching, dialog>>
          \/ c.do = "logout" /\ ~(access = "user" /\ dialog = "known") /\ ShowAuthDialog
             /\ UNCHANGED <<theme, toggling, themes>>
          \/ c.do = "other"
             /\ UNCHANGED <<ui, theme, toggling, themes, access, watching, dialog, intruded>>
    BY <1>15 DEF RunCommand
  <2>3. CASE c.do = "show" /\ Visit(c.page) /\ UNCHANGED <<theme, toggling, access, watching>>
    <3>1. c.page \in Keys
      BY <2>3, CommandsShowPages
    <3>2. PICK k \in Keys : k = c.page
      BY <3>1
    <3> QED
      BY <2>1, <2>3, <3>2, VisitKeeps
  <2>4. CASE ToggleTheme /\ UNCHANGED <<ui, access, watching>>
    BY <2>1, <2>4, ToggleKeeps
  <2>5. CASE ShowAuthDialog /\ UNCHANGED <<theme, toggling>>
    BY <2>1, <2>5, AuthDialogKeeps
  <2>6. CASE UNCHANGED <<ui, theme, toggling, access, watching, intruded>>
    BY <2>1, <2>6, ShellFrame
  <2> QED
    BY <2>2, <2>3, <2>4, <2>5, <2>6
<1>16. CASE UNCHANGED shellVars
  BY <1>16, ShellFrame DEF shellVars
<1> QED
  BY <1>2, <1>3, <1>4, <1>5, <1>6, <1>7, <1>8, <1>9, <1>10, <1>11, <1>12, <1>13, <1>14,
     <1>15, <1>16 DEF ShellNext

(* Whatever handlers run, of the sidebar, the shortcuts, the dialogs, the     *)
(* timers and the palette, before, during and after changes of theme, with    *)
(* any pages: the user interface shows its current page, under the only lit   *)
(* button, unless something was handled while it was razed.                   *)
THEOREM PageAlwaysShown == ShellSpec => []PageShown
<1>1. ShellInv => PageShown
  BY DEF ShellInv, Whole, Intact, PageShown
<1> QED
  BY <1>1, ShellInvInit, ShellInvStep, PTL DEF ShellSpec

(* What a change of theme stopped, the timers and the watcher, it starts      *)
(* again as it was, for the level that was logged in or out meanwhile.        *)
THEOREM ThemeResumes == ShellSpec => []Resumed
<1>1. ShellInv => Resumed
  BY DEF ShellInv, Steady, Resumed
<1> QED
  BY <1>1, ShellInvInit, ShellInvStep, PTL DEF ShellSpec
=============================================================================
