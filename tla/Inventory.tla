----------------------------- MODULE Inventory -----------------------------
(***************************************************************************)
(* The device inventory: handlers/devices.py over services/device_service  *)
(* and device_repository.  The database is shared by the GUI thread, where *)
(* the user adds, edits and deletes devices, and by the hw-io workers that *)
(* refresh it every 30 s.  Every one of them loads the whole table, and    *)
(* later writes the whole table back: upsert by upsert, then a delete for  *)
(* each row that is stored and was not loaded.  A refresh holds the        *)
(* devices lock while it loads and probes the devices after releasing it.  *)
(*                                                                         *)
(* A row is modelled by a stamp, new at each change the user makes, and an *)
(* id by its number (dev-001, dev-002, ...): the devices share one name,   *)
(* so that a number used again is an id used again.                        *)
(***************************************************************************)
EXTENDS Naturals, Sequences, FiniteSetsExt

CONSTANTS
  Workers,     \* hw-io threads
  Gui,         \* the GUI thread
  MaxId,       \* bound: the greatest number a device gets
  Stored,      \* numbers in the table when the application starts
  UiMax,       \* maxlen of the GUI's callback queue
  SlowProbes,  \* may a refresh last longer than the timer's 30 s?
  MaxTasks,    \* bound: refreshes waiting for a worker
  MaxChanges   \* bound: changes the user makes

Ids == 1 .. MaxId
Savers == Workers \cup {Gui}

ASSUME InventoryAssumption ==
  /\ Gui \notin Workers
  /\ MaxId \in Nat
  /\ Stored \subseteq Ids
  /\ UiMax \in Nat \ {0}
  /\ SlowProbes \in BOOLEAN
  /\ MaxTasks \in Nat \ {0}
  /\ MaxChanges \in Nat

VARIABLES
  db,        \* the devices table: the stamp of each row, or Absent
  ui,        \* self._devices: the list the GUI shows
  uiQueue,   \* lists handed to the GUI by finished refreshes
  lock,      \* a refresh holds _devices_lock
  tasks,     \* refreshes submitted to the pool and not yet started
  pc,        \* where each saver is
  devices,   \* the list each saver is going to write back
  existing,  \* save_inventory's view of the stored ids
  todo,      \* ids a save has still to upsert, or to delete
  stamp      \* stamps given so far

(* History, read by the properties only. *)
VARIABLES
  wanted,    \* stamps the user has reason to expect in the table
  raced,     \* a change overlapped a refresh that had loaded before it
  failed     \* a save of the user's failed half way

saveVars == <<devices, existing, todo>>
history == <<wanted, raced, failed>>
vars == <<db, ui, uiQueue, lock, tasks, pc, saveVars, stamp, history>>

-----------------------------------------------------------------------------
Absent == 0

Table == [Ids -> 0 .. MaxId + MaxChanges]

Present(list) == {i \in Ids : list[i] # Absent}

Empty == [i \in Ids |-> Absent]

(* Slip: numbers by the length of the list. *)
NextId_Count(list) == 1 + Cardinality(Present(list))

(* _next_id: one more than the greatest number in use, not than the length. *)
NextId(list) == 1 + Max(Present(list) \cup {0})

Init ==
  /\ db = [i \in Ids |-> IF i \in Stored THEN i ELSE Absent]
  /\ ui = Empty
  /\ uiQueue = <<>>
  /\ lock = FALSE
  /\ tasks = 0
  /\ pc = [s \in Savers |-> "idle"]
  /\ devices = [s \in Savers |-> Empty]
  /\ existing = [s \in Savers |-> {}]
  /\ todo = [s \in Savers |-> {}]
  /\ stamp = MaxId
  /\ wanted = Stored
  /\ raced = FALSE
  /\ failed = FALSE

-----------------------------------------------------------------------------
(* A worker that has loaded the table will write it back. *)
HoldsList(w) == pc[w] \in {"probing", "listing", "upserting", "deleting"}

(* The user's change: load, work on the list, and go on to save it. *)
Change(list, stamps) ==
  /\ pc[Gui] = "idle"
  /\ stamp < MaxId + MaxChanges
  /\ stamp' = stamp + 1
  /\ devices' = [devices EXCEPT ![Gui] = list]
  /\ wanted' = stamps
  /\ raced' = (raced \/ \E w \in Workers : HoldsList(w))
  /\ pc' = [pc EXCEPT ![Gui] = "listing"]
  /\ UNCHANGED <<db, ui, uiQueue, lock, tasks, existing, todo, failed>>

AddDevice ==
  /\ NextId(db) \in Ids
  /\ Change([db EXCEPT ![NextId(db)] = stamp + 1], wanted \cup {stamp + 1})

(* update_device and delete_device work on a device of the list the GUI      *)
(* shows; a row that is no longer in the table stays out of it.              *)
EditDevice(i) ==
  /\ i \in Present(ui)
  /\ IF i \in Present(db)
     THEN Change([db EXCEPT ![i] = stamp + 1], (wanted \ {db[i]}) \cup {stamp + 1})
     ELSE Change(db, wanted)

DeleteDevice(i) ==
  /\ i \in Present(ui)
  /\ Change([db EXCEPT ![i] = Absent], wanted \ {db[i]})

(* The 30 s timer.  A probe waits at most 5 s for a device, ten devices at a *)
(* time: unless dozens of them are down, a refresh ends before the next tick. *)
TickDevices ==
  /\ tasks < MaxTasks
  /\ SlowProbes \/ \A w \in Workers : pc[w] = "idle"
  /\ tasks' = tasks + 1
  /\ UNCHANGED <<db, ui, uiQueue, lock, pc, saveVars, stamp, history>>

(* _refresh_devices: the lock is not waited for, a refresh that finds it     *)
(* taken is given up.                                                        *)
StartRefresh(w) ==
  /\ pc[w] = "idle"
  /\ tasks > 0
  /\ tasks' = tasks - 1
  /\ lock' = TRUE
  /\ pc' = IF lock THEN pc ELSE [pc EXCEPT ![w] = "loading"]
  /\ UNCHANGED <<db, ui, uiQueue, saveVars, stamp, history>>

Load(w) ==
  /\ pc[w] = "loading"
  /\ devices' = [devices EXCEPT ![w] = db]
  /\ lock' = FALSE
  /\ raced' = (raced \/ pc[Gui] # "idle")
  /\ pc' = [pc EXCEPT ![w] = "probing"]
  /\ UNCHANGED <<db, ui, uiQueue, tasks, existing, todo, stamp, wanted, failed>>

(* probe_or_simulate changes the status of the devices, nothing modelled.    *)
Probe(w) ==
  /\ pc[w] = "probing"
  /\ pc' = [pc EXCEPT ![w] = "listing"]
  /\ UNCHANGED <<db, ui, uiQueue, lock, tasks, saveVars, stamp, history>>

(* save_inventory, one statement and commit at a time. *)
ListStored(s) ==
  /\ pc[s] = "listing"
  /\ existing' = [existing EXCEPT ![s] = Present(db)]
  /\ todo' = [todo EXCEPT ![s] = Present(devices[s])]
  /\ pc' = [pc EXCEPT ![s] = "upserting"]
  /\ UNCHANGED <<db, ui, uiQueue, lock, tasks, devices, stamp, history>>

UpsertRow(s) ==
  /\ pc[s] = "upserting"
  /\ \E i \in todo[s] :       \* in the order of the names, which is any order
       /\ db' = [db EXCEPT ![i] = devices[s][i]]
       /\ todo' = [todo EXCEPT ![s] = @ \ {i}]
  /\ UNCHANGED <<ui, uiQueue, lock, tasks, pc, devices, existing, stamp, history>>

UpsertsDone(s) ==
  /\ pc[s] = "upserting"
  /\ todo[s] = {}
  /\ todo' = [todo EXCEPT ![s] = existing[s] \ Present(devices[s])]
  /\ pc' = [pc EXCEPT ![s] = "deleting"]
  /\ UNCHANGED <<db, ui, uiQueue, lock, tasks, devices, existing, stamp, history>>

DeleteRow(s) ==
  /\ pc[s] = "deleting"
  /\ \E i \in todo[s] :
       /\ db' = [db EXCEPT ![i] = Absent]
       /\ todo' = [todo EXCEPT ![s] = @ \ {i}]
  /\ UNCHANGED <<ui, uiQueue, lock, tasks, pc, devices, existing, stamp, history>>

AfterRefresh_Silent(w) == UNCHANGED <<uiQueue, tasks, failed>>

(* What follows a save: a refresh hands its list to the GUI; the GUI submits *)
(* a refresh, except after an exception, which leaves its handler.           *)
AfterRefresh(w) ==
  /\ uiQueue' = IF Len(uiQueue) < UiMax THEN Append(uiQueue, devices[w]) ELSE uiQueue
  /\ UNCHANGED <<tasks, failed>>

AfterChange(ok) ==
  /\ tasks' = IF ok THEN tasks + 1 ELSE tasks
  /\ failed' = (failed \/ ~ok)
  /\ UNCHANGED uiQueue

Leave(s, ok) ==
  /\ IF s = Gui THEN AfterChange(ok) ELSE AfterRefresh(s)
  /\ pc' = [pc EXCEPT ![s] = "idle"]
  /\ devices' = [devices EXCEPT ![s] = Empty]
  /\ existing' = [existing EXCEPT ![s] = {}]
  /\ todo' = [todo EXCEPT ![s] = {}]
  /\ UNCHANGED <<db, ui, lock, stamp, wanted, raced>>

SaveDone(s) == pc[s] = "deleting" /\ todo[s] = {} /\ Leave(s, TRUE)

SaveFails(s) == pc[s] \in {"listing", "upserting", "deleting"} /\ Leave(s, FALSE)

(* _update_devices_ui, when the GUI thread is free. *)
UpdateDevicesUi ==
  /\ pc[Gui] = "idle"
  /\ uiQueue # <<>>
  /\ ui' = Head(uiQueue)
  /\ uiQueue' = Tail(uiQueue)
  /\ UNCHANGED <<db, lock, tasks, pc, saveVars, stamp, history>>

SaveStep(s) ==
  \/ ListStored(s) \/ UpsertRow(s) \/ UpsertsDone(s) \/ DeleteRow(s)
  \/ SaveDone(s) \/ SaveFails(s)

RefreshStep(w) == StartRefresh(w) \/ Load(w) \/ Probe(w) \/ SaveStep(w)

Next ==
  \/ AddDevice
  \/ \E i \in Ids : EditDevice(i) \/ DeleteDevice(i)
  \/ TickDevices
  \/ \E w \in Workers : RefreshStep(w)
  \/ SaveStep(Gui)
  \/ UpdateDevicesUi

Spec == Init /\ [][Next]_vars

(* The timer keeps firing, the pool runs what it was given, and the GUI      *)
(* thread finishes its handlers and drains its queue.                        *)
FairSpec ==
  /\ Spec
  /\ WF_vars(TickDevices)
  /\ WF_vars(UpdateDevicesUi)
  /\ WF_vars(SaveStep(Gui))
  /\ \A w \in Workers : WF_vars(RefreshStep(w))

-----------------------------------------------------------------------------
TypeOK ==
  /\ db \in Table
  /\ ui \in Table
  /\ uiQueue \in Seq(Table) /\ Len(uiQueue) <= UiMax
  /\ lock \in BOOLEAN
  /\ tasks \in 0 .. MaxTasks + MaxChanges
  /\ pc \in [Savers -> {"idle", "loading", "probing", "listing", "upserting", "deleting"}]
  /\ devices \in [Savers -> Table]
  /\ existing \in [Savers -> SUBSET Ids]
  /\ todo \in [Savers -> SUBSET Ids]
  /\ stamp \in MaxId .. MaxId + MaxChanges

(* Once the user's change is saved, the table holds exactly what the user    *)
(* asked for so far, every device of it once, unless one of the changes      *)
(* overlapped a refresh or failed: there is no other way to lose a change.   *)
ChangesKept ==
  pc[Gui] = "idle" /\ ~raced /\ ~failed =>
    /\ {db[i] : i \in Present(db)} = wanted
    /\ Cardinality(Present(db)) = Cardinality(wanted)

(* When the user stops, the GUI ends up showing the table, for ever: stale   *)
(* lists in the queue and writes of stale refreshes are always made good by  *)
(* a later refresh, even if refreshes are given up and lists dropped.        *)
UiConverges == <>[](ui = db)
=============================================================================
