----------------------------- MODULE MCDesktop -----------------------------
(***************************************************************************)
(* The parts of the user interface whose models share no state, for TLC:   *)
(* the device in hand with the services page, the shell with its palette,  *)
(* the login dialog with the accounts, and the maintenance tab.  A         *)
(* behaviour is one of the part in focus, and the others stay in one       *)
(* initial state.  The inventory starts with devices of every type in use. *)
(***************************************************************************)
EXTENDS Target, Shell, AuthDialog, Maintenance

VARIABLE focus

(* Some of the ten pages. *)
PagesDef == <<"home", "topology", "manutencao">>

Init ==
  /\ focus \in {"target", "shell", "auth", "maintenance"}
  /\ TargetInit /\ ShellInit /\ AuthInit /\ MaintenanceInit
  /\ IF focus = "target" THEN \A type \in Types : \E d \in Devices : inventory[d] = type
     ELSE \A d \in Devices : inventory[d] = "SWITCH"

Next ==
  \/ focus = "target" /\ TargetNext /\ UNCHANGED <<focus, shellVars, authVars, maintenanceVars>>
  \/ focus = "shell" /\ ShellNext /\ UNCHANGED <<focus, targetVars, authVars, maintenanceVars>>
  \/ focus = "auth" /\ AuthNext /\ UNCHANGED <<focus, targetVars, shellVars, maintenanceVars>>
  \/ focus = "maintenance" /\ MaintenanceNext /\ UNCHANGED <<focus, targetVars, shellVars, authVars>>

Spec == Init /\ [][Next]_<<focus, targetVars, shellVars, authVars, maintenanceVars>>
=============================================================================
