------------------------------ MODULE Accounts ------------------------------
(***************************************************************************)
(* The table of accounts: its default accounts and their passwords, made   *)
(* by db.py for the installer and by user_repository.py for the login      *)
(* dialog.  Passwords are random; whoever makes an account is told its     *)
(* password when all are made, and nobody ever again.  The installer and   *)
(* several instances of the application share the table; each account is   *)
(* committed on its own.                                                   *)
(***************************************************************************)
EXTENDS Naturals, Sequences

CONSTANTS
  Apps,         \* instances of the application
  Installers    \* runs of setup/install.sh

ASSUME AccountsAssumption == Apps \cap Installers = {}

VARIABLES
  users,        \* the default accounts in the table
  told,         \* those whose password was shown
  seed,         \* [at, made] of each process: the account it makes next, or 0,
                \* and those it has made
  forfeited     \* history: accounts whose maker was interrupted

accountsVars == <<users, told, seed, forfeited>>

-----------------------------------------------------------------------------
Defaults == << "user_admin", "user_tecnico", "user_user" >>
RoleOf == [user_admin |-> "admin", user_tecnico |-> "tecnico", user_user |-> "user"]

Makers == Apps \cup Installers
Idle == [at |-> 0, made |-> {}]

(* The installer makes the first account only. *)
LastOf(p) == IF p \in Apps THEN Len(Defaults) ELSE 1

AccountsInit ==
  /\ users = {}
  /\ told = {}
  /\ seed = [p \in Makers |-> Idle]
  /\ forfeited = {}

(* seed_default_users and ensure_default_admin do nothing if there is an *)
(* account, the one that was deleted and the one of a user included.     *)
StartSeed(p) ==
  /\ seed[p].at = 0 /\ users = {}
  /\ seed' = [seed EXCEPT ![p].at = 1]
  /\ UNCHANGED <<users, told, forfeited>>

(* What a process has made is shown by nobody else. *)
Interrupt(p) ==
  /\ seed' = [seed EXCEPT ![p] = Idle]
  /\ forfeited' = forfeited \cup seed[p].made
  /\ UNCHANGED <<users, told>>

(* Slip: an account that another process made is taken for one's own. *)
MakeAccount_Claiming(p) ==
  LET name == Defaults[seed[p].at]
  IN /\ users' = users \cup {name}
     /\ seed' = [seed EXCEPT ![p] = [at |-> @.at + 1, made |-> @.made \cup {name}]]
     /\ UNCHANGED <<told, forfeited>>

(* create_user: the name is unique, and one that exists is passed over. *)
MakeAccount(p) ==
  LET name == Defaults[seed[p].at]
  IN /\ users' = users \cup {name}
     /\ seed' = [seed EXCEPT ![p] = [at |-> @.at + 1, made |-> @.made \cup ({name} \ users)]]
     /\ UNCHANGED <<told, forfeited>>

Making(p) == seed[p].at \in 1 .. LastOf(p)

(* The passwords are returned and shown, in a dialog or on the terminal. *)
TellPasswords(p) ==
  /\ seed[p].at = LastOf(p) + 1
  /\ told' = told \cup seed[p].made
  /\ seed' = [seed EXCEPT ![p] = Idle]
  /\ UNCHANGED <<users, forfeited>>

(* A process is killed, or the table refuses a write: the error leaves the   *)
(* accounts that were committed before.                                      *)
SeedStep(p) ==
  \/ Making(p) /\ MakeAccount(p)
  \/ TellPasswords(p)
  \/ seed[p].at # 0 /\ Interrupt(p)

-----------------------------------------------------------------------------
(* However many processes find the table empty at the same time: the password *)
(* of an account is shown, or about to be, unless its maker was interrupted,   *)
(* and only its maker shows one.                                               *)
PasswordsShown ==
  /\ \A name \in users :
       name \in told \cup forfeited \cup UNION {seed[p].made : p \in Makers}
  /\ \A p \in Makers : seed[p].made \cap (told \cup forfeited) = {}
  /\ \A p, q \in Makers : p # q => seed[p].made \cap seed[q].made = {}
=============================================================================
