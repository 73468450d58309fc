--------------------------- MODULE ControllerCore ---------------------------
(***************************************************************************)
(* ControllerCore of sdn_controller/core.py: the state of the devices in   *)
(* memory, changed by the events that any thread publishes, and dumped to  *)
(* a JSON file at each critical event and by a timer.  Every step below is *)
(* one hold of the lock or one call to the file system; get_state hands    *)
(* out the object itself, so an event may be written to an object that has *)
(* been replaced.                                                          *)
(***************************************************************************)
EXTENDS Naturals, FiniteSets

CONSTANTS
  ManagedDevices,
  Publishers,      \* threads that publish events, register, deregister and sync
  Timers,          \* threading.Timer threads
  NoTimer,
  MaxObjects,      \* bound: DeviceState objects made in one process
  MaxCalls,        \* bound: calls made in one behaviour
  MaxCoreStarts,   \* bound: calls of start()
  MaxStops,        \* bound: calls of stop()
  MaxCrashes       \* bound: process stops

Threads == Publishers \cup Timers

ASSUME CoreAssumption ==
  /\ Publishers \cap Timers = {}
  /\ NoTimer \notin Timers
  /\ IsFiniteSet(ManagedDevices) /\ Cardinality(ManagedDevices) <= MaxObjects
  /\ MaxObjects \in Nat /\ MaxCalls \in Nat /\ MaxCoreStarts \in Nat
  /\ MaxStops \in Nat /\ MaxCrashes \in Nat

VARIABLES
  up,              \* the process is running
  devices,         \* _devices: the object registered for each device, or NoObject
  objectStatus,    \* the status in each object
  objectsMade,     \* objects made so far
  file,            \* what the dump file holds
  stage,           \* where each thread is
  event,           \* the event each thread is handling
  object,          \* the object it has looked up
  dumped,          \* the dump it has serialised
  mixed,           \* threads whose open file another thread has written meanwhile
  coreRunning,     \* _running
  timer,           \* _timer
  armed,           \* timers waiting to fire
  requests, coreStarts, stops, crashes

(* History, read by the properties only. *)
VARIABLES
  unsaved,         \* has memory changed, other than by critical events, since a dump began?
  dumpsOverlapped  \* were two threads ever dumping at once?

memory == <<devices, objectStatus, objectsMade>>
locals == <<event, object, dumped, mixed>>
timerVars == <<coreRunning, timer, armed>>
bounds == <<requests, coreStarts, stops, crashes>>
coreHistory == <<unsaved, dumpsOverlapped>>
coreVars == <<up, memory, file, stage, locals, timerVars, bounds, coreHistory>>

-----------------------------------------------------------------------------
NoObject == 0
Objects == 1 .. MaxObjects

Statuses == {"unknown", "online", "offline", "error"}

(* _EVENT_TO_STATUS; DEVICE_STATUS_CHANGED carries any status. *)
StatusOf == [CONNECTED |-> {"online"}, DISCONNECTED |-> {"offline"}, ERROR |-> {"error"},
             STATUS_CHANGED |-> Statuses]

Critical == {"CONNECTED", "DISCONNECTED", "ERROR"}

Event == [dev : ManagedDevices, type : DOMAIN StatusOf]
NoEvent == <<>>

EmptyDump == [d \in ManagedDevices |-> "none"]
Dump == [ManagedDevices -> Statuses \cup {"none"}]
Torn == <<>>      \* not JSON

ToDict == [d \in ManagedDevices |-> IF devices[d] = NoObject THEN "none" ELSE objectStatus[devices[d]]]

CoreInit ==
  /\ up = TRUE
  /\ devices = [d \in ManagedDevices |-> NoObject]
  /\ objectStatus = [o \in Objects |-> "unknown"]
  /\ objectsMade = 0
  /\ file = EmptyDump
  /\ stage = [t \in Threads |-> "idle"]
  /\ event = [t \in Threads |-> NoEvent]
  /\ object = [t \in Threads |-> NoObject]
  /\ dumped = [t \in Threads |-> EmptyDump]
  /\ mixed = {}
  /\ coreRunning = FALSE /\ timer = NoTimer /\ armed = {}
  /\ requests = 0 /\ coreStarts = 0 /\ stops = 0 /\ crashes = 0
  /\ unsaved = FALSE /\ dumpsOverlapped = FALSE

-----------------------------------------------------------------------------
Proceed(t, label) == stage' = [stage EXCEPT ![t] = label]

Called(t) ==
  /\ up
  /\ stage[t] = "idle"
  /\ requests < MaxCalls
  /\ requests' = requests + 1
  /\ UNCHANGED <<coreStarts, stops, crashes>>

(* A new DeviceState is registered, replacing what was there. *)
StoreState(d) ==
  /\ objectsMade < MaxObjects
  /\ objectsMade' = objectsMade + 1
  /\ devices' = [devices EXCEPT ![d] = objectsMade + 1]
  /\ objectStatus' = [objectStatus EXCEPT ![objectsMade + 1] = "unknown"]

Publish(t, ev) ==
  /\ event' = [event EXCEPT ![t] = ev]
  /\ Proceed(t, "looking")

(* register and deregister publish the event they are about; the others are *)
(* published by the application.                                            *)
Register(t, d) ==
  /\ Called(t)
  /\ StoreState(d)
  /\ Publish(t, [dev |-> d, type |-> "CONNECTED"])
  /\ UNCHANGED <<up, file, object, dumped, mixed, timerVars, coreHistory>>

Deregister(t, d) ==
  /\ Called(t)
  /\ devices[d] # NoObject
  /\ devices' = [devices EXCEPT ![d] = NoObject]
  /\ Publish(t, [dev |-> d, type |-> "DISCONNECTED"])
  /\ UNCHANGED <<up, objectStatus, objectsMade, file, object, dumped, mixed, timerVars, coreHistory>>

PublishEvent(t) ==
  /\ Called(t)
  /\ \E ev \in Event : Publish(t, ev)
  /\ UNCHANGED <<up, memory, file, object, dumped, mixed, timerVars, coreHistory>>

(* sync_from_devices(publish_events=False), one device: the test is made     *)
(* without the lock.                                                         *)
SyncTest(t, d) ==
  /\ Called(t)
  /\ devices[d] = NoObject
  /\ event' = [event EXCEPT ![t] = [dev |-> d, type |-> "STATUS_CHANGED"]]
  /\ Proceed(t, "syncing")
  /\ UNCHANGED <<up, memory, file, object, dumped, mixed, timerVars, coreHistory>>

SyncStore(t) ==
  /\ stage[t] = "syncing"
  /\ StoreState(event[t].dev)
  /\ unsaved' = TRUE
  /\ event' = [event EXCEPT ![t] = NoEvent]
  /\ Proceed(t, "idle")
  /\ UNCHANGED <<up, file, object, dumped, mixed, timerVars, bounds, dumpsOverlapped>>

(* update_state. *)
UpdateState(t, d) ==
  /\ Called(t)
  /\ devices[d] # NoObject
  /\ \E s \in Statuses : objectStatus' = [objectStatus EXCEPT ![devices[d]] = s]
  /\ unsaved' = TRUE
  /\ UNCHANGED <<up, devices, objectsMade, file, stage, locals, timerVars, dumpsOverlapped>>

(* Slip: no dump after an event. *)
AfterEvent_Lazy(t) == "idle"

(* process_event: the object is looked up under the lock, and written under  *)
(* a second hold of it.                                                      *)
AfterEvent(t) == IF event[t].type \in Critical THEN "serialising" ELSE "idle"

LookUp(t) ==
  /\ stage[t] = "looking"
  /\ object' = [object EXCEPT ![t] = devices[event[t].dev]]
  /\ Proceed(t, IF devices[event[t].dev] = NoObject THEN AfterEvent(t) ELSE "writing")
  /\ UNCHANGED <<up, memory, file, event, dumped, mixed, timerVars, bounds, coreHistory>>

WriteStatus(t) ==
  /\ stage[t] = "writing"
  /\ \E s \in StatusOf[event[t].type] : objectStatus' = [objectStatus EXCEPT ![object[t]] = s]
  /\ unsaved' = (unsaved \/ event[t].type \notin Critical)
  /\ Proceed(t, AfterEvent(t))
  /\ UNCHANGED <<up, devices, objectsMade, file, locals, timerVars, bounds, dumpsOverlapped>>

-----------------------------------------------------------------------------
Dumping == {"opening", "filling"}

(* dump(): serialised under the lock, written after releasing it; write_text *)
(* truncates the file before it fills it.                                    *)
Serialise(t) ==
  /\ stage[t] = "serialising"
  /\ dumped' = [dumped EXCEPT ![t] = ToDict]
  /\ unsaved' = FALSE
  /\ dumpsOverlapped' = (dumpsOverlapped \/ \E u \in Threads \ {t} : stage[u] \in Dumping)
  /\ Proceed(t, "opening")
  /\ UNCHANGED <<up, memory, file, event, object, mixed, timerVars, bounds>>

OpenFile(t) ==
  /\ stage[t] = "opening"
  /\ file' = Torn
  /\ mixed' = mixed \ {t}
  /\ Proceed(t, "filling")
  /\ UNCHANGED <<up, memory, event, object, dumped, timerVars, bounds, coreHistory>>

(* If another thread has filled the file since this one opened it, a longer  *)
(* text shows behind a shorter one.                                          *)
FillFile(t) ==
  /\ stage[t] = "filling"
  /\ file' \in {dumped[t]} \cup (IF t \in mixed THEN {Torn} ELSE {})
  /\ mixed' = (mixed \cup {u \in Threads : stage[u] = "filling"}) \ {t}
  /\ event' = [event EXCEPT ![t] = NoEvent]
  /\ Proceed(t, IF t \in Timers THEN "rescheduling" ELSE "idle")
  /\ UNCHANGED <<up, memory, object, dumped, timerVars, bounds, coreHistory>>

(* start(), and _schedule_dump: _running is tested, then a timer made. *)
Arm(k) ==
  /\ armed' = armed \cup {k}
  /\ timer' = k

StartDumps ==
  /\ up
  /\ coreStarts < MaxCoreStarts
  /\ coreStarts' = coreStarts + 1
  /\ coreRunning' = TRUE
  /\ \E k \in Timers \ armed : stage[k] = "idle" /\ Arm(k)
  /\ UNCHANGED <<up, memory, file, stage, locals, requests, stops, crashes, coreHistory>>

StopDumps ==
  /\ up
  /\ stops < MaxStops
  /\ stops' = stops + 1
  /\ coreRunning' = FALSE
  /\ armed' = armed \ {timer}
  /\ timer' = NoTimer
  /\ UNCHANGED <<up, memory, file, stage, locals, requests, coreStarts, crashes, coreHistory>>

Fire(k) ==
  /\ k \in armed
  /\ armed' = armed \ {k}
  /\ Proceed(k, "serialising")
  /\ UNCHANGED <<up, memory, file, locals, coreRunning, timer, bounds, coreHistory>>

Reschedule(k) ==
  /\ stage[k] = "rescheduling"
  /\ Proceed(k, IF coreRunning THEN "arming" ELSE "idle")
  /\ UNCHANGED <<up, memory, file, locals, timerVars, bounds, coreHistory>>

(* The next Timer takes the identity of the one that ends here. *)
ArmNext(k) ==
  /\ stage[k] = "arming"
  /\ Arm(k)
  /\ Proceed(k, "idle")
  /\ UNCHANGED <<up, memory, file, locals, coreRunning, bounds, coreHistory>>

-----------------------------------------------------------------------------
Crash ==
  /\ up
  /\ crashes < MaxCrashes
  /\ crashes' = crashes + 1
  /\ up' = FALSE
  /\ stage' = [t \in Threads |-> "idle"]
  /\ event' = [t \in Threads |-> NoEvent]
  /\ object' = [t \in Threads |-> NoObject]
  /\ dumped' = [t \in Threads |-> EmptyDump]
  /\ mixed' = {}
  /\ coreRunning' = FALSE /\ timer' = NoTimer /\ armed' = {}
  /\ UNCHANGED <<memory, file, requests, coreStarts, stops, coreHistory>>

(* A new process calls load(); a file that is not JSON makes it raise. *)
Load ==
  LET saved == IF file = Torn THEN EmptyDump ELSE file
      known == {d \in ManagedDevices : saved[d] # "none"} IN
  /\ ~up
  /\ up' = TRUE
  /\ \E number \in [known -> 1 .. Cardinality(known)] :
       /\ \A d, e \in known : number[d] = number[e] => d = e
       /\ devices' = [d \in ManagedDevices |-> IF d \in known THEN number[d] ELSE NoObject]
       /\ objectStatus' = [o \in Objects |->
            IF \E d \in known : number[d] = o
            THEN saved[CHOOSE d \in known : number[d] = o]
            ELSE "unknown"]
  /\ objectsMade' = Cardinality(known)
  /\ unsaved' = FALSE
  /\ UNCHANGED <<file, stage, locals, timerVars, bounds, dumpsOverlapped>>

EventStep(t) ==
  LookUp(t) \/ WriteStatus(t) \/ Serialise(t) \/ OpenFile(t) \/ FillFile(t)

CoreNext ==
  \/ \E t \in Publishers, d \in ManagedDevices :
       Register(t, d) \/ Deregister(t, d) \/ SyncTest(t, d) \/ UpdateState(t, d)
  \/ \E t \in Publishers : PublishEvent(t) \/ SyncStore(t)
  \/ \E t \in Threads : EventStep(t)
  \/ StartDumps \/ StopDumps
  \/ \E k \in Timers : Fire(k) \/ Reschedule(k) \/ ArmNext(k)
  \/ Crash \/ Load

CoreSpec == CoreInit /\ [][CoreNext]_coreVars

-----------------------------------------------------------------------------
CoreTypeOK ==
  /\ up \in BOOLEAN
  /\ devices \in [ManagedDevices -> Objects \cup {NoObject}]
  /\ objectStatus \in [Objects -> Statuses]
  /\ objectsMade \in 0 .. MaxObjects
  /\ file \in Dump \cup {Torn}
  /\ stage \in [Threads -> {"idle", "looking", "writing", "syncing", "serialising", "opening",
                         "filling", "rescheduling", "arming"}]
  /\ event \in [Threads -> Event \cup {NoEvent}]
  /\ object \in [Threads -> Objects \cup {NoObject}]
  /\ dumped \in [Threads -> Dump]
  /\ mixed \in SUBSET Threads
  /\ coreRunning \in BOOLEAN /\ timer \in Timers \cup {NoTimer} /\ armed \in SUBSET Timers

Quiet == up /\ \A t \in Threads : stage[t] = "idle"

(* The write-ahead rule, as far as it goes: if no two threads ever dumped at  *)
(* once and nothing but critical events happened since the last dump began,   *)
(* a quiet controller has its state in the file, across restarts too, unless  *)
(* a crash hit the very dump.                                                 *)
DumpedWhenAlone ==
  Quiet /\ ~dumpsOverlapped /\ ~unsaved => file = ToDict \/ (file = Torn /\ crashes > 0)

=============================================================================
