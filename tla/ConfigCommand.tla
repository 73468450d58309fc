--------------------------- MODULE ConfigCommand ---------------------------
(***************************************************************************)
(* Changes of configuration and their rollback: command.py, the editor     *)
(* (tabs/cmd/handlers.py), the services (tabs/services/handlers.py) with   *)
(* the Netmiko or the NAPALM backend, and the question a worker asks the   *)
(* user (services/ui_bridge.py).                                           *)
(*                                                                         *)
(* A configuration is a set of lines; the lines of a command add some and  *)
(* undo others.  The device may refuse any of them without the transport   *)
(* failing.  Reads and writes are serialised by the session's lock, one    *)
(* call at a time: between two calls other workers run, and the user may   *)
(* disconnect and connect to another device.                               *)
(***************************************************************************)
EXTENDS Naturals, FiniteSets

CONSTANTS
  Devices,
  Workers,
  Lines,
  MaxCommands,  \* bound: commands issued
  MaxLinks      \* bound: connections made

ASSUME ConfigCommandAssumption == MaxCommands \in Nat /\ MaxLinks \in Nat

VARIABLES
  running,    \* the running configuration of each device
  link,       \* the session's connection: its number and device, or NoLink
  links,      \* connections made so far
  connected,  \* SSHSouthbound._connected
  napalm,     \* HW_BACKEND, read from the environment
  slot,       \* _last_config_command: the number of a command, or None
  made,       \* commands issued so far
  edit,       \* the lines of each command
  service,    \* is the command a service's?
  snapshot,   \* the snapshot of each command, or NoConfig
  pc,         \* where each worker is
  work,       \* the command each worker is applying or rolling back
  rolling,    \* workers that run a rollback
  todo,       \* lines each worker has still to send
  refused,    \* did apply_fn return (False, message)?
  handle      \* the raw connection a NAPALM worker holds

(* History, read by the properties only. *)
VARIABLES
  origin,     \* the device each snapshot was read from
  before,     \* that device's configuration when the command was issued
  disturbed,  \* commands during whose life others changed something
  overlapped, \* commands stored while a rollback ran
  restored,   \* commands whose rollback reported ok
  changed,    \* devices the worker's latest operation changed
  status      \* the status it was audited with

network == <<running, link, links, connected, napalm>>
commands == <<made, edit, service, snapshot, before>>
vars == <<network, slot, commands, pc, work, rolling, todo, refused, handle,
          origin, disturbed, overlapped, restored, changed, status>>

-----------------------------------------------------------------------------
None == 0
NoLink == <<>>
NoConfig == {"no config"}
Numbers == 1 .. MaxCommands
Edits == {e \in [add : SUBSET Lines, del : SUBSET Lines] : e.add \cap e.del = {}}
NoEdit == [add |-> {}, del |-> {}]
Link == [no : 1 .. MaxLinks, dev : Devices]

Parts(e) == [add : SUBSET e.add, del : SUBSET e.del]
OneLine(e) == {p \in Parts(e) : Cardinality(p.add) + Cardinality(p.del) = 1}
Without(e, p) == [add |-> e.add \ p.add, del |-> e.del \ p.del]
Applied(config, p) == (config \ p.del) \cup p.add

Init ==
  /\ running \in [Devices -> SUBSET Lines]
  /\ link = NoLink /\ links = 0 /\ connected = FALSE
  /\ napalm \in BOOLEAN
  /\ slot = None /\ made = 0
  /\ edit = [k \in Numbers |-> NoEdit]
  /\ service = [k \in Numbers |-> FALSE]
  /\ snapshot = [k \in Numbers |-> NoConfig]
  /\ pc = [w \in Workers |-> "idle"]
  /\ work = [w \in Workers |-> None]
  /\ rolling = {}
  /\ todo = [w \in Workers |-> NoEdit]
  /\ refused = [w \in Workers |-> FALSE]
  /\ handle = [w \in Workers |-> NoLink]
  /\ origin = [k \in Numbers |-> {}]
  /\ before = [k \in Numbers |-> NoConfig]
  /\ disturbed = {} /\ overlapped = {} /\ restored = {}
  /\ changed = [w \in Workers |-> {}]
  /\ status = [w \in Workers |-> "none"]

Goto(w, label) == pc' = [pc EXCEPT ![w] = label]
Alive == link # NoLink

(* A call of the southbound that may reach the device. *)
Reaches == connected /\ Alive

-----------------------------------------------------------------------------
(* The user connects, disconnects or loses the connection; a retarget is a   *)
(* disconnection and a connection.                                           *)
Relinked == disturbed' = disturbed \cup 1 .. made

Connect(d) ==
  /\ links < MaxLinks
  /\ links' = links + 1
  /\ link' = [no |-> links + 1, dev |-> d]
  /\ connected' = TRUE
  /\ Relinked
  /\ UNCHANGED <<running, napalm, slot, commands, pc, work, rolling, todo, refused, handle,
                 origin, overlapped, restored, changed, status>>

Disconnect ==
  /\ Alive
  /\ link' = NoLink
  /\ connected' \in {FALSE, connected}    \* closed by the user, or by the peer
  /\ Relinked
  /\ UNCHANGED <<running, links, napalm, slot, commands, pc, work, rolling, todo, refused,
                 handle, origin, overlapped, restored, changed, status>>

-----------------------------------------------------------------------------
(* A worker's operation begins in the GUI thread, with is_alive().           *)
Begin(w, label) ==
  /\ pc[w] = "idle"
  /\ Alive
  /\ connected' = TRUE
  /\ Goto(w, label)
  /\ refused' = [refused EXCEPT ![w] = FALSE]
  /\ changed' = [changed EXCEPT ![w] = {}]
  /\ status' = [status EXCEPT ![w] = "none"]
  /\ UNCHANGED <<running, link, links, napalm, slot, snapshot, handle, origin, disturbed,
                 overlapped, restored>>

Issue(w, e, ofService) ==
  /\ made < MaxCommands
  /\ made' = made + 1
  /\ work' = [work EXCEPT ![w] = made']
  /\ edit' = [edit EXCEPT ![made'] = e]
  /\ service' = [service EXCEPT ![made'] = ofService]
  /\ before' = [before EXCEPT ![made'] = running[link.dev]]
  /\ todo' = [todo EXCEPT ![w] = e]
  /\ UNCHANGED rolling

ExecConfig(w, e) == Begin(w, "preview") /\ Issue(w, e, FALSE)
RunService(w, e) == Begin(w, "starting") /\ Issue(w, e, TRUE)

RollbackLastConfig(w) ==
  /\ slot # None
  /\ Begin(w, "reading")
  /\ work' = [work EXCEPT ![w] = slot]
  /\ rolling' = rolling \cup {w}
  /\ todo' = [todo EXCEPT ![w] = NoEdit]
  /\ UNCHANGED <<made, edit, service, before>>

(* The end of an operation, and the status it leaves in the audit log. *)
End(w, outcome) ==
  /\ Goto(w, "idle")
  /\ status' = [status EXCEPT ![w] = outcome]
  /\ rolling' = rolling \ {w}

Invalidate == connected' = FALSE

-----------------------------------------------------------------------------
(* exec_config: the preview goes around the southbound, and is left out if   *)
(* the session is not connected; the diff is empty only if the whole         *)
(* configuration equals the text of the command.                             *)
PreviewGoesOn(w) ==
  /\ pc[w] = "preview"
  /\ Alive => \/ edit[work[w]].del # {}
              \/ running[link.dev] # edit[work[w]].add
  /\ Goto(w, "snapshot")
  /\ UNCHANGED <<network, slot, commands, work, rolling, todo, refused, handle, origin,
                 disturbed, overlapped, restored, changed, status>>

(* No difference, or the read raised: nothing is applied, nothing audited. *)
PreviewStops(w) ==
  /\ pc[w] = "preview"
  /\ Alive
  /\ End(w, "none")
  /\ UNCHANGED <<network, slot, commands, work, todo, refused, handle, origin, disturbed,
                 overlapped, restored, changed>>

(* _do: is_alive() once more, then the backend. *)
ServiceStarts(w) ==
  /\ pc[w] = "starting"
  /\ Alive
  /\ connected' = TRUE
  /\ IF napalm
     THEN Goto(w, "loading") /\ handle' = [handle EXCEPT ![w] = link]
     ELSE Goto(w, "snapshot") /\ UNCHANGED handle
  /\ UNCHANGED <<running, link, links, napalm, slot, commands, work, rolling, todo, refused,
                 origin, disturbed, overlapped, restored, changed, status>>

ServiceStops(w) ==
  /\ pc[w] = "starting"
  /\ ~Alive
  /\ connected' = FALSE
  /\ End(w, "none")
  /\ UNCHANGED <<running, link, links, napalm, slot, commands, work, todo, refused, handle,
                 origin, disturbed, overlapped, restored, changed>>

-----------------------------------------------------------------------------
(* DeviceCommand.execute: the snapshot, or nothing. *)
Snapshot(w) ==
  /\ pc[w] = "snapshot"
  /\ Reaches
  /\ snapshot' = [snapshot EXCEPT ![work[w]] = running[link.dev]]
  /\ origin' = [origin EXCEPT ![work[w]] = {link.dev}]
  /\ Goto(w, "sending")
  /\ UNCHANGED <<network, slot, made, edit, service, before, work, rolling, todo, refused,
                 handle, disturbed, overlapped, restored, changed, status>>

SnapshotFails(w) ==
  /\ pc[w] = "snapshot"
  /\ Invalidate
  /\ End(w, "blocked")
  /\ UNCHANGED <<running, link, links, napalm, slot, commands, work, todo, refused, handle,
                 origin, disturbed, overlapped, restored, changed>>

(* What the device makes of the lines it is sent. *)
Change(w, d, p) ==
  LET new == Applied(running[d], p) IN
  /\ running' = [running EXCEPT ![d] = new]
  /\ changed' = [changed EXCEPT ![w] = IF new = running[d] THEN @ ELSE @ \cup {d}]
  /\ disturbed' = IF new = running[d] THEN disturbed
                  ELSE disturbed \cup (1 .. made \ {work[w]})

AfterSending(w) == IF w \in rolling THEN "verifying" ELSE "storing"

(* send_config of the editor: all the lines in one call; an exception of the *)
(* session on the way is turned into a refusal.                              *)
SendConfig(w) ==
  /\ pc[w] = "sending"
  /\ ~service[work[w]]
  /\ connected
  /\ IF Alive
     THEN \E p \in Parts(todo[w]), r \in BOOLEAN :
            Change(w, link.dev, p) /\ refused' = [refused EXCEPT ![w] = r]
     ELSE refused' = [refused EXCEPT ![w] = TRUE] /\ UNCHANGED <<running, changed, disturbed>>
  /\ Goto(w, AfterSending(w))
  /\ UNCHANGED <<link, links, connected, napalm, slot, commands, work, rolling, todo, handle,
                 origin, overlapped, restored, status>>

(* send_service_commands: one call per line, whose refusal is only printed.  *)
SendServiceLine(w) ==
  /\ pc[w] = "sending"
  /\ service[work[w]]
  /\ connected
  /\ \E p \in OneLine(todo[w]) :
       /\ todo' = [todo EXCEPT ![w] = Without(@, p)]
       /\ \/ Alive /\ Change(w, link.dev, p)
          \/ UNCHANGED <<running, changed, disturbed>>
  /\ UNCHANGED <<link, links, connected, napalm, slot, commands, pc, work, rolling, refused,
                 handle, origin, overlapped, restored, status>>

SendServiceDone(w) ==
  /\ pc[w] = "sending"
  /\ service[work[w]]
  /\ todo[w] = NoEdit
  /\ Alive
  /\ Goto(w, AfterSending(w))
  /\ UNCHANGED <<network, slot, commands, work, rolling, todo, refused, handle, origin,
                 disturbed, overlapped, restored, changed, status>>

(* Slip: nobody catches the error. *)
SendRaises_Uncaught(w) ==
  /\ pc[w] = "sending"
  /\ End(w, "none")
  /\ UNCHANGED <<network, slot, commands, work, todo, refused, handle, origin, disturbed,
                 overlapped, restored, changed>>

(* An SdnError: not connected, or denied by the policy, before anything is   *)
(* sent; in a service also from system-view or return, in the middle.        *)
SendRaises(w) ==
  /\ pc[w] = "sending"
  /\ Invalidate
  /\ IF w \in rolling
     THEN End(w, "error") /\ UNCHANGED refused
     ELSE /\ refused' = [refused EXCEPT ![w] = TRUE]
          /\ Goto(w, "storing")
          /\ UNCHANGED <<rolling, status>>
  /\ UNCHANGED <<running, link, links, napalm, slot, commands, work, todo, handle, origin,
                 disturbed, overlapped, restored, changed>>

(* The command replaces the one in the slot, whatever became of it. *)
Store(w) ==
  /\ pc[w] = "storing"
  /\ slot' = work[w]
  /\ overlapped' = IF rolling = {} THEN overlapped ELSE overlapped \cup {work[w]}
  /\ End(w, IF refused[w] THEN "error" ELSE "ok")
  /\ UNCHANGED <<network, commands, work, todo, refused, handle, origin, disturbed, restored,
                 changed>>

-----------------------------------------------------------------------------
(* ConfigCommand.rollback: the lines of the snapshot that are missing now    *)
(* are sent again; lines that are there only now stay.                       *)
ReadCurrent(w) ==
  /\ pc[w] = "reading"
  /\ Reaches
  /\ LET current == running[link.dev]
         restore == snapshot[work[w]] \ current IN
     /\ todo' = [todo EXCEPT ![w] = [add |-> restore, del |-> {}]]
     /\ Goto(w, IF current = snapshot[work[w]] THEN "clearing"
                ELSE IF restore = {} THEN "verifying" ELSE "sending")
  /\ UNCHANGED <<network, slot, commands, work, rolling, refused, handle, origin, disturbed,
                 overlapped, restored, changed, status>>

(* Slip: the slot is emptied although the rollback failed. *)
ReadFails_Clearing(w) ==
  /\ pc[w] \in {"reading", "verifying"}
  /\ Invalidate
  /\ slot' = None
  /\ End(w, "error")
  /\ UNCHANGED <<running, link, links, napalm, commands, work, todo, refused, handle, origin,
                 disturbed, overlapped, restored, changed>>

ReadFails(w) ==
  /\ pc[w] \in {"reading", "verifying"}
  /\ Invalidate
  /\ End(w, "error")
  /\ UNCHANGED <<running, link, links, napalm, slot, commands, work, todo, refused, handle,
                 origin, disturbed, overlapped, restored, changed>>

(* Slip: lines that should not be there are not counted. *)
Pending_Missing(config, target) == target \ config

Pending(config, target) == (config \ target) \cup (target \ config)

(* The second reading decides; an error is one even if nothing is pending.   *)
Verify(w) ==
  /\ pc[w] = "verifying"
  /\ Reaches
  /\ IF ~refused[w] /\ Pending(running[link.dev], snapshot[work[w]]) = {}
     THEN Goto(w, "clearing") /\ UNCHANGED <<rolling, status>>
     ELSE End(w, IF refused[w] THEN "error" ELSE "partial")
  /\ UNCHANGED <<network, slot, commands, work, todo, refused, handle, origin, disturbed,
                 overlapped, restored, changed>>

(* do_rollback_config after an ok: the slot is emptied, whatever it holds. *)
Clear(w) ==
  /\ pc[w] = "clearing"
  /\ slot' = None
  /\ End(w, "ok")
  /\ restored' = restored \cup {work[w]}
  /\ UNCHANGED <<network, commands, work, todo, refused, handle, origin, disturbed,
                 overlapped, changed>>

-----------------------------------------------------------------------------
(* run_service_napalm: over the raw connection taken at the start, past the  *)
(* southbound and the session's lock; the slot is left alone.                *)
HandleAlive(w) == link = handle[w]

NapalmPreview(w) ==
  /\ pc[w] = "loading"
  /\ HandleAlive(w)
  /\ IF Applied(running[link.dev], edit[work[w]]) = running[link.dev]
     THEN End(w, "none")
     ELSE Goto(w, "asking") /\ UNCHANGED <<rolling, status>>
  /\ UNCHANGED <<network, slot, commands, work, todo, refused, handle, origin, disturbed,
                 overlapped, restored, changed>>

(* ask_from_worker: an explicit yes within the timeout ... *)
Approved(w) ==
  /\ pc[w] = "asking"
  /\ Goto(w, "saving")
  /\ UNCHANGED <<network, slot, commands, work, rolling, todo, refused, handle, origin,
                 disturbed, overlapped, restored, changed, status>>

(* ... and no, no answer, or a failed dialogue; the preview and the snapshot *)
(* that raise end in the same way.                                           *)
NapalmBlocked(w) ==
  /\ pc[w] \in {"loading", "asking", "saving"}
  /\ End(w, "blocked")
  /\ UNCHANGED <<network, slot, commands, work, todo, refused, handle, origin, disturbed,
                 overlapped, restored, changed>>

NapalmSnapshot(w) ==
  /\ pc[w] = "saving"
  /\ HandleAlive(w)
  /\ Goto(w, "typing")
  /\ UNCHANGED <<network, slot, commands, work, rolling, todo, refused, handle, origin,
                 disturbed, overlapped, restored, changed, status>>

NapalmLine(w) ==
  /\ pc[w] = "typing"
  /\ HandleAlive(w)
  /\ \E p \in OneLine(todo[w]) :
       /\ todo' = [todo EXCEPT ![w] = Without(@, p)]
       /\ Change(w, link.dev, p)
  /\ UNCHANGED <<link, links, connected, napalm, slot, commands, pc, work, rolling, refused,
                 handle, origin, overlapped, restored, status>>

(* A line is rejected: the rest of the batch is not sent, and what precedes  *)
(* it stays, for VRP has no transactions (commit is off).                    *)
NapalmRejected(w) ==
  /\ pc[w] = "typing"
  /\ HandleAlive(w)
  /\ todo[w] # NoEdit
  /\ End(w, "blocked")
  /\ UNCHANGED <<network, slot, commands, work, todo, refused, handle, origin, disturbed,
                 overlapped, restored, changed>>

NapalmDone(w) ==
  /\ pc[w] = "typing"
  /\ \/ End(w, "error")
     \/ HandleAlive(w) /\ todo[w] = NoEdit /\ End(w, "ok")
  /\ UNCHANGED <<network, slot, commands, work, todo, refused, handle, origin, disturbed,
                 overlapped, restored, changed>>

-----------------------------------------------------------------------------
Execute(w) ==
  \/ PreviewGoesOn(w) \/ PreviewStops(w) \/ ServiceStarts(w) \/ ServiceStops(w)
  \/ Snapshot(w) \/ SnapshotFails(w) \/ Store(w)
Send(w) == SendConfig(w) \/ SendServiceLine(w) \/ SendServiceDone(w) \/ SendRaises(w)
Rollback(w) == ReadCurrent(w) \/ ReadFails(w) \/ Verify(w) \/ Clear(w)
Napalm(w) ==
  \/ NapalmPreview(w) \/ Approved(w) \/ NapalmBlocked(w) \/ NapalmSnapshot(w)
  \/ NapalmLine(w) \/ NapalmRejected(w) \/ NapalmDone(w)

Next ==
  \/ \E d \in Devices : Connect(d)
  \/ Disconnect
  \/ \E w \in Workers :
       \/ \E e \in Edits \ {NoEdit} : ExecConfig(w, e) \/ RunService(w, e)
       \/ RollbackLastConfig(w)
       \/ Execute(w) \/ Send(w) \/ Rollback(w) \/ Napalm(w)

Spec == Init /\ [][Next]_vars

-----------------------------------------------------------------------------
TypeOK ==
  /\ running \in [Devices -> SUBSET Lines]
  /\ link \in Link \cup {NoLink} /\ links \in 0 .. MaxLinks
  /\ connected \in BOOLEAN /\ napalm \in BOOLEAN
  /\ slot \in 0 .. made /\ made \in 0 .. MaxCommands
  /\ slot # None => snapshot[slot] \in SUBSET Lines
  /\ edit \in [Numbers -> Edits] /\ service \in [Numbers -> BOOLEAN]
  /\ pc \in [Workers -> {"idle", "preview", "starting", "snapshot", "sending", "storing",
                         "reading", "verifying", "clearing", "loading", "asking", "saving",
                         "typing"}]
  /\ work \in [Workers -> 0 .. made]
  /\ rolling \in SUBSET Workers
  /\ todo \in [Workers -> Edits]
  /\ refused \in [Workers -> BOOLEAN]
  /\ status \in [Workers -> {"none", "ok", "partial", "error", "blocked"}]

Idle(w) == pc[w] = "idle"

(* An operation that changed a device leaves an entry in the audit log, and  *)
(* never the one that says that nothing was applied; only a NAPALM batch may *)
(* be "blocked" after some of its lines went through.                        *)
ChangesAudited ==
  \A w \in Workers : Idle(w) /\ changed[w] # {} =>
    \/ status[w] \in {"ok", "partial", "error"}
    \/ status[w] = "blocked" /\ napalm /\ service[work[w]]

(* "nunca se afirma restauracao completa sem prova": after a rollback that   *)
(* reported ok, and if nobody else changed a device or the connection since   *)
(* the command was issued, the device is as it was before the command.       *)
RestoredWhenAlone ==
  \A k \in restored \ disturbed : \A d \in origin[k] : running[d] = before[k]

(* The slot loses a command only to a newer one, to its own rollback when it *)
(* is complete, or to a rollback that was running when it was stored.        *)
UndoKept ==
  [][slot # None /\ slot' = None =>
       \/ slot \in overlapped
       \/ \E w \in Workers : pc[w] = "clearing" /\ Idle(w)' /\ work[w] = slot]_vars

(* "Desfaz a ultima configuracao aplicada": a rollback changes no device but *)
(* the one its snapshot was read from.                                       *)
RollsBackOwnDevice ==
  \A w \in rolling : changed[w] \subseteq origin[work[w]]
=============================================================================
