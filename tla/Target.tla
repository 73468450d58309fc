------------------------------- MODULE Target -------------------------------
(***************************************************************************)
(* The device in hand: chosen on the canvas of the topology (topology.py,  *)
(* tabs/topology/page.py), kept as the application's target and as the     *)
(* override_* fields of the session (handlers/devices.py), and dialled by  *)
(* an I/O thread that reads those fields one after the other               *)
(* (handlers/ssh.py, session.py).  The services page follows the target;   *)
(* the connection does not.                                                *)
(*                                                                         *)
(* User name, password and key of a device are one credential here, and    *)
(* port goes with host.  Locks, retries and dials that overlap are in      *)
(* Connection, overlapping refreshes in Inventory.                         *)
(***************************************************************************)
EXTENDS ServicesPage, FiniteSets

CONSTANTS
  Devices,
  Types,        \* the device types used
  Secretless,   \* devices stored without a credential
  NoDevice,
  Edits,        \* bound: devices edited or deleted
  Dials,        \* bound: connections tried
  Picks         \* bound: choices made on the services page

ASSUME TargetAssumption ==
  /\ NoDevice \notin Devices
  /\ Types \subseteq DeviceTypes
  /\ Secretless \subseteq Devices
  /\ Edits \in Nat /\ Dials \in Nat /\ Picks \in Nat

VARIABLES
  inventory,  \* the type each device is stored with, or Gone
  known,      \* the same in the list of the last refresh, which canvas and app share
  drawn,      \* this canvas has been given that list
  selected,   \* the canvas's _selected: a Device object, or Nothing
  target,     \* _target_device
  overHost,   \* override_host
  overCred,   \* override_username, _password and _ssh_key: whose they are
  dial,       \* [at, host, cred]: the I/O thread that connects
  link,       \* [host, cred]: the connection, or NoLink
  collected,  \* the device a backup has read and not yet written down, or NoDevice
  entry,      \* what was just recorded, [host, over]: under which host, of which; or NoEntry
  edits, dials, picks

(* History, read by the properties only. *)
VARIABLES
  outdated,   \* devices edited since they were selected, or selected when already so
  moved       \* has the target changed since the fields were filled for a connection?

targetVars == <<tab, inventory, known, drawn, selected, target, overHost, overCred, dial,
                link, collected, entry, edits, dials, picks, outdated, moved>>

-----------------------------------------------------------------------------
Gone == "gone"
Nothing == [id |-> NoDevice, type |-> Gone]
NoLink == [host |-> NoDevice, cred |-> NoDevice]
NoEntry == [host |-> NoDevice, over |-> NoDevice]
NoDial == [at |-> "none", host |-> NoDevice, cred |-> NoDevice]

Object(d) == [id |-> d, type |-> known[d]]
Credential(d) == IF d \in Secretless THEN NoDevice ELSE d

(* _get_selected_device *)
InHand(chosen, kept) == IF chosen # Nothing THEN chosen ELSE kept
GetSelectedDevice == InHand(selected, target)

(* What the I/O threads have under way. *)
Pending == dial # NoDial \/ collected # NoDevice

RefreshServiceList(device) ==
  IF device = Nothing THEN RefreshWithout(tab) ELSE RefreshFor(tab, device.type)

TargetInit ==
  /\ tab = NoTab
  /\ inventory \in [Devices -> Types]
  /\ known = inventory
  /\ drawn = TRUE
  /\ selected = Nothing /\ target = Nothing
  /\ overHost = NoDevice /\ overCred = NoDevice
  /\ dial = NoDial
  /\ link = NoLink
  /\ collected = NoDevice
  /\ entry = NoEntry
  /\ edits = 0 /\ dials = 0 /\ picks = 0
  /\ outdated = {} /\ moved = FALSE

-----------------------------------------------------------------------------
(* A click on a node: the canvas keeps the object it was given, the           *)
(* application too, and of the credentials only what the device has replaces  *)
(* what the fields hold.                                                      *)
OnDeviceSelected(d) ==
  /\ drawn
  /\ known[d] # Gone
  /\ selected' = Object(d)
  /\ target' = Object(d)
  /\ overHost' = d
  /\ overCred' = IF Credential(d) # NoDevice THEN Credential(d) ELSE overCred
  /\ tab' = RefreshServiceList(Object(d))
  /\ outdated' = IF known[d] = inventory[d] THEN outdated \ {d} ELSE outdated \cup {d}
  /\ moved' = (moved \/ Pending \/ link # NoLink)
  /\ entry' = NoEntry
  /\ UNCHANGED <<inventory, known, drawn, dial, collected, link, edits, dials, picks>>

(* Slip: the connection is left open. *)
ClearDeviceTarget_Connected ==
  /\ target' = Nothing
  /\ selected' = Nothing
  /\ overHost' = NoDevice /\ overCred' = NoDevice
  /\ link' = link
  /\ tab' = RefreshServiceList(Nothing)
  /\ moved' = (moved \/ Pending)

(* _clear_device_target *)
ClearDeviceTarget ==
  /\ target' = Nothing
  /\ selected' = Nothing
  /\ overHost' = NoDevice /\ overCred' = NoDevice
  /\ link' = NoLink
  /\ tab' = RefreshServiceList(Nothing)
  /\ moved' = (moved \/ Pending)

ClickBack ==
  /\ ClearDeviceTarget
  /\ entry' = NoEntry
  /\ UNCHANGED <<inventory, known, drawn, dial, collected, edits, dials, picks, outdated>>

(* The dialog on a node of the canvas: the row of the same id is replaced, if *)
(* there is one.  The objects already handed out stay as they are.            *)
EditDevice(d) ==
  /\ drawn
  /\ known[d] # Gone
  /\ edits < Edits
  /\ edits' = edits + 1
  /\ \E type \in Types :
       inventory' = IF inventory[d] = Gone THEN inventory ELSE [inventory EXCEPT ![d] = type]
  /\ outdated' = outdated \cup {d}
  /\ entry' = NoEntry
  /\ UNCHANGED <<tab, known, drawn, selected, target, overHost, overCred, dial, collected, link, dials,
                 picks, moved>>

(* _delete_device: the target goes with the row.  A device that is gone       *)
(* already is not "removed".                                                  *)
DeleteDevice(d) ==
  /\ drawn
  /\ known[d] # Gone
  /\ edits < Edits
  /\ edits' = edits + 1
  /\ inventory' = [inventory EXCEPT ![d] = Gone]
  /\ IF inventory[d] # Gone /\ target.id = d
     THEN ClearDeviceTarget
     ELSE UNCHANGED <<target, selected, overHost, overCred, link, tab, moved>>
  /\ entry' = NoEntry
  /\ UNCHANGED <<known, drawn, dial, collected, dials, picks, outdated>>

(* _update_devices_ui, at the end of a refresh. *)
UpdateDevicesUi ==
  /\ known' = inventory
  /\ drawn' = TRUE
  /\ entry' = NoEntry
  /\ UNCHANGED <<tab, inventory, selected, target, overHost, overCred, dial, collected, link, edits,
                 dials, picks, outdated, moved>>

(* The topology page is built anew, after a change of the access level. *)
RebuildTopology ==
  /\ drawn' = FALSE
  /\ selected' = Nothing
  /\ entry' = NoEntry
  /\ UNCHANGED <<tab, inventory, known, target, overHost, overCred, dial, collected, link, edits, dials,
                 picks, outdated, moved>>

(* _check_session_timeout: a disconnection, and the topology page anew. *)
SessionTimeout ==
  /\ link' = NoLink
  /\ drawn' = FALSE
  /\ selected' = Nothing
  /\ entry' = NoEntry
  /\ UNCHANGED <<tab, inventory, known, target, overHost, overCred, dial, collected, edits, dials, picks,
                 outdated, moved>>

-----------------------------------------------------------------------------
(* The services page. *)
Page(t) ==
  /\ tab' = t
  /\ entry' = NoEntry
  /\ UNCHANGED <<inventory, known, drawn, selected, target, overHost, overCred, dial, collected, link,
                 edits, dials, outdated, moved>>

Refreshed == RefreshServiceList(GetSelectedDevice)

Build == ~tab.built /\ Page(NewTab) /\ UNCHANGED picks
Dispose == tab.built /\ Page([NoTab EXCEPT !.pending = tab.pending]) /\ UNCHANGED picks
FirstRefresh == tab.pending /\ Page([Refreshed EXCEPT !.pending = FALSE]) /\ UNCHANGED picks
OnF5 == tab.built /\ Page(Refreshed) /\ UNCHANGED picks

Pick == tab.built /\ picks < Picks /\ picks' = picks + 1

(* _on_svc_cat_changed *)
OnSvcCatChanged(category) ==
  LET t == [tab EXCEPT !.category = category]
      device == GetSelectedDevice
  IN /\ Pick
     /\ category \in tab.offered \ {tab.category}
     /\ Page(IF device = Nothing THEN RefreshWithout(t) ELSE RefreshFor(t, device.type))

PickService(row) ==
  /\ Pick
  /\ row \in DOMAIN tab.services
  /\ Page(OnServiceSelect(tab, row))

-----------------------------------------------------------------------------
(* _toggle_connect: an open connection is closed; otherwise every field is    *)
(* filled from the device in hand and an I/O thread connects.                 *)
Disconnect ==
  /\ link # NoLink
  /\ link' = NoLink
  /\ entry' = NoEntry
  /\ UNCHANGED <<tab, inventory, known, drawn, selected, target, overHost, overCred, dial, collected,
                 edits, dials, picks, outdated, moved>>

(* _connect_with_device *)
ConnectWithDevice(d) ==
  /\ overHost' = d
  /\ overCred' = Credential(d)
  /\ dial' = [NoDial EXCEPT !.at = "starting"]

ToggleConnect ==
  /\ link = NoLink
  /\ dial = NoDial
  /\ dials < Dials
  /\ dials' = dials + 1
  /\ GetSelectedDevice # Nothing
  /\ \E d \in Devices : known[d] # Gone \/ inventory[d] # Gone
  /\ ConnectWithDevice(GetSelectedDevice.id)
  /\ moved' = (collected # NoDevice)
  /\ entry' = NoEntry
  /\ UNCHANGED <<tab, inventory, known, drawn, selected, target, link, collected, edits, picks,
                 outdated>>

(* session.connect, on the I/O thread: the fields are validated, and then     *)
(* read into the parameters of the connection, the host first.                *)
Dialling(from, to) ==
  /\ dial.at = from
  /\ dial' = to
  /\ entry' = NoEntry
  /\ UNCHANGED <<tab, inventory, known, drawn, selected, target, overHost, overCred, collected, edits,
                 dials, picks, outdated, moved>>

Validate ==
  /\ Dialling("starting",
              IF NoDevice \in {overHost, overCred} THEN NoDial
              ELSE [NoDial EXCEPT !.at = "host"])
  /\ UNCHANGED link
ReadHost ==
  Dialling("host", [dial EXCEPT !.at = "cred", !.host = overHost]) /\ UNCHANGED link
ReadCredential ==
  Dialling("cred", [dial EXCEPT !.at = "dialling", !.cred = overCred]) /\ UNCHANGED link

(* A connection wants a host and a credential; whose, the device decides. *)
DialSucceeds ==
  /\ NoDevice \notin {dial.host, dial.cred}
  /\ Dialling("dialling", [dial EXCEPT !.at = "key"])
  /\ link' = [host |-> dial.host, cred |-> dial.cred]
DialFails == Dialling("dialling", NoDial) /\ UNCHANGED link

(* The key of the host is filed, or compared with the one filed for it, and   *)
(* the connection audited: under the host that the fields name by now.  A key *)
(* that differs closes the connection.                                        *)
FileHostKey ==
  /\ dial.at = "key"
  /\ dial' = NoDial
  /\ link' \in {link, NoLink}
  /\ entry' = [host |-> overHost, over |-> dial.host]
  /\ UNCHANGED <<tab, inventory, known, drawn, selected, target, overHost, overCred, collected,
                 edits, dials, picks, outdated, moved>>

(* Over the connection goes a command, and is audited with the fields as they *)
(* are now ...                                                                *)
Sending ==
  /\ link # NoLink
  /\ entry' = [host |-> overHost, over |-> link.host]
  /\ UNCHANGED <<tab, inventory, known, drawn, selected, target, overHost, overCred, dial,
                 link, edits, dials, picks, outdated, moved>>
SendCommand == Sending /\ UNCHANGED collected

(* ... or that of a backup, do_backup.  The file is named, and its writing    *)
(* audited, with the fields as they are when the answer is there.             *)
CollectBackup ==
  /\ collected = NoDevice
  /\ collected' = link.host
  /\ Sending

WriteBackup ==
  /\ collected # NoDevice
  /\ collected' = NoDevice
  /\ entry' \in {[host |-> overHost, over |-> collected], NoEntry}
  /\ UNCHANGED <<tab, inventory, known, drawn, selected, target, overHost, overCred, dial,
                 link, edits, dials, picks, outdated, moved>>

-----------------------------------------------------------------------------
Handlers ==
  \/ \E d \in Devices : OnDeviceSelected(d) \/ EditDevice(d) \/ DeleteDevice(d)
  \/ ClickBack \/ UpdateDevicesUi \/ RebuildTopology \/ SessionTimeout

ServicesSteps ==
  \/ Build \/ Dispose \/ FirstRefresh \/ OnF5
  \/ \E category \in tab.offered : OnSvcCatChanged(category)
  \/ \E row \in DOMAIN tab.services : PickService(row)

ConnectionSteps ==
  \/ Disconnect \/ ToggleConnect \/ Validate \/ ReadHost \/ ReadCredential
  \/ DialSucceeds \/ DialFails \/ FileHostKey
  \/ SendCommand \/ CollectBackup \/ WriteBackup

TargetNext == Handlers \/ ServicesSteps \/ ConnectionSteps

TargetSpec == TargetInit /\ [][TargetNext]_targetVars

-----------------------------------------------------------------------------
(* What the services page shows fits the device in hand: a list is a list of  *)
(* its type and of the category chosen, the panel shows a service of it, and  *)
(* the fields are those of the service shown, one for each placeholder (the   *)
(* condition run_service tests before it executes anything).                  *)
ServicesFit ==
  LET device == GetSelectedDevice
  IN /\ tab.services # <<>> =>
          /\ device # Nothing
          /\ tab.category \in Offered[device.type]
          /\ tab.services = Listed[device.type][tab.category]
     /\ tab.panel # NoService => tab.panel \in ToSet(tab.services)
     /\ tab.fields = IF tab.panel # NoService /\ ParseParams(tab.panel) > 0 THEN tab.panel
                     ELSE NoService

(* The device in hand is one of the inventory, of the type stored there,      *)
(* unless it was edited since it was selected or selected from a list that    *)
(* was out of date.                                                           *)
TargetTrue ==
  LET device == GetSelectedDevice
  IN device # Nothing => inventory[device.id] = device.type \/ device.id \in outdated

(* A connection is to the host, and with the credential, of the device in     *)
(* hand, and what it brings is recorded under that host - the key of the host *)
(* in the cache, a command in the audit log, a configuration in the file of a *)
(* backup - unless the target changed since the fields were filled for it, or *)
(* since the configuration was read.                                          *)
AimedUnlessMoved ==
  ~moved =>
    /\ link # NoLink => link.cred = link.host /\ GetSelectedDevice.id = link.host
    /\ entry.host = entry.over

(* "host - IP/hostname do dispositivo" (audit_log.py): the entry of a command *)
(* names the device the command went to.                                      *)
AuditNamesDevice == entry.host = entry.over
=============================================================================
