------------------------------ MODULE Polling ------------------------------
(***************************************************************************)
(* Adaptive polling: PollingManager, StabilityTracker and IntervalDecider  *)
(* of sdn_controller/polling_manager.py, and the timer of app.py that      *)
(* drives them.  The GUI's timer hands ticks to the hw-io pool; a tick     *)
(* polls, side by side, the online devices that are due; each poll ends    *)
(* with the device's next due time.                                        *)
(*                                                                         *)
(* Time passes in steps.  Due times are kept as the time that remains      *)
(* until them, which is all the code ever compares.                        *)
(***************************************************************************)
EXTENDS Integers, Sequences, FiniteSetsExt

CONSTANTS
  NumDevices,   \* devices in the inventory, numbered in the order of names
  Serviced,     \* devices whose type matches a polled service
  MaxDevices,   \* POLL_MAX_DEVICES
  MinInterval, DefaultInterval, MaxInterval,
  TickFloor,    \* POLL_TICK_FLOOR_MS
  HistorySize,  \* POLL_HISTORY_SIZE
  Outputs,      \* hashes of normalised outputs
  MaxSpawned    \* bound: ticks waiting for a worker

Devices == 1 .. NumDevices

ASSUME PollingAssumption ==
  /\ NumDevices \in Nat
  /\ Serviced \subseteq Devices
  /\ MaxDevices \in Nat
  /\ MinInterval \in Nat \ {0}
  /\ DefaultInterval \in MinInterval .. MaxInterval
  /\ MaxInterval \in Nat
  /\ TickFloor \in 1 .. MinInterval
  /\ HistorySize \in Nat \ {0}
  /\ MaxSpawned \in Nat \ {0}

VARIABLES
  online,    \* devices the inventory has as "online"
  due,       \* _next_due: time left, or NoEntry
  hist,      \* StabilityTracker._history
  current,   \* IntervalDecider._current
  timer,     \* time left on _adaptive_timer
  spawned,   \* ticks submitted and not yet started
  ticking,   \* a tick holds _tick_lock
  polling    \* devices the running tick has not finished polling

(* History, read by the properties only. *)
VARIABLES
  rested,    \* time since the last poll of each device ended, up to MinInterval
  forced     \* devices force_poll was called for since their last poll began

pollHistory == <<rested, forced>>
pollingVars == <<online, due, hist, current, timer, spawned, ticking, polling, pollHistory>>

-----------------------------------------------------------------------------
NoEntry == -1

(* Slip: the due times are not looked at. *)
IsDue_Always(d) == TRUE

IsDue(d) == due[d] \in {NoEntry, 0}

(* The first max_devices of the online ones, whether due or not. *)
Chosen == {d \in online : Cardinality({e \in online : e <= d}) <= MaxDevices}

Record(seq, sha) ==
  LET longer == Append(seq, sha) IN
  IF Len(longer) > HistorySize THEN Tail(longer) ELSE longer

(* Slip: a short history passes for a stable one. *)
IsStable_Early(seq) == \A i \in DOMAIN seq : seq[i] = seq[1]

IsStable(seq) ==
  Len(seq) = HistorySize /\ \A i \in DOMAIN seq : seq[i] = seq[1]

NextInterval(d, stable) ==
  IF stable THEN Min({MaxInterval, current[d] * 2}) ELSE MinInterval

Entries == {due[d] : d \in Devices} \ {NoEntry}

Rearm == IF Entries = {} THEN MinInterval ELSE Max({TickFloor, Min(Entries)})

PollingInit ==
  /\ online \in SUBSET Devices
  /\ due = [d \in Devices |-> NoEntry]
  /\ hist = [d \in Devices |-> <<>>]
  /\ current = [d \in Devices |-> MinInterval]
  /\ timer = TickFloor
  /\ spawned = 0
  /\ ticking = FALSE
  /\ polling = {}
  /\ rested = [d \in Devices |-> MinInterval]
  /\ forced = {}

-----------------------------------------------------------------------------
TimePasses ==
  /\ timer' = Max({timer - 1, 0})
  /\ due' = [d \in Devices |-> IF due[d] > 0 THEN due[d] - 1 ELSE due[d]]
  /\ rested' = [d \in Devices |-> Min({MinInterval, rested[d] + 1})]
  /\ UNCHANGED <<online, hist, current, spawned, ticking, polling, forced>>

(* A refresh of the inventory finds a device up or down. *)
StatusChanges(d) ==
  /\ online' = IF d \in online THEN online \ {d} ELSE online \cup {d}
  /\ UNCHANGED <<due, hist, current, timer, spawned, ticking, polling, pollHistory>>

(* _tick_adaptive_polling: hand over a tick, then set the timer again for    *)
(* the earliest due time known, no sooner than the floor.                    *)
TimerFires ==
  /\ timer = 0
  /\ spawned < MaxSpawned
  /\ spawned' = spawned + 1
  /\ timer' = Rearm
  /\ UNCHANGED <<online, due, hist, current, ticking, polling, pollHistory>>

(* tick() in a worker: ignored while another one runs. *)
StartTick ==
  /\ spawned > 0
  /\ spawned' = spawned - 1
  /\ IF ticking
     THEN UNCHANGED <<polling, forced>>
     ELSE /\ polling' = {d \in Chosen : IsDue(d)}
          /\ forced' = forced \ polling'
  /\ ticking' = TRUE
  /\ UNCHANGED <<online, due, hist, current, timer, rested>>

(* Slip: the tick lock is not released. *)
EndTick_Holding == ticking /\ polling = {} /\ UNCHANGED pollingVars

EndTick ==
  /\ ticking
  /\ polling = {}
  /\ ticking' = FALSE
  /\ UNCHANGED <<online, due, hist, current, timer, spawned, polling, pollHistory>>

(* The end of _poll_device, by each of its ways out; the due time counts     *)
(* from here and not from the start of the tick.                             *)
SetNextDue(d, interval) ==
  /\ due' = [due EXCEPT ![d] = interval]
  /\ polling' = polling \ {d}
  /\ rested' = [rested EXCEPT ![d] = 0]

PollSkipped(d) ==
  /\ d \in polling \ Serviced
  /\ polling' = polling \ {d}
  /\ UNCHANGED <<online, due, hist, current, timer, spawned, ticking, pollHistory>>

(* get() returned None, or something raised. *)
PollFails(d) ==
  /\ d \in polling \cap Serviced
  /\ SetNextDue(d, DefaultInterval)
  /\ UNCHANGED <<online, hist, current, timer, spawned, ticking, forced>>

(* The output is an error message: unstable, and the history stays as it is. *)
PollErrs(d) ==
  /\ d \in polling \cap Serviced
  /\ current' = [current EXCEPT ![d] = NextInterval(d, FALSE)]
  /\ SetNextDue(d, MinInterval)
  /\ UNCHANGED <<online, hist, timer, spawned, ticking, forced>>

PollSucceeds(d) ==
  /\ d \in polling \cap Serviced
  /\ \E sha \in Outputs :
       LET seq == Record(hist[d], sha)
           interval == NextInterval(d, IsStable(seq)) IN
       /\ hist' = [hist EXCEPT ![d] = seq]
       /\ current' = [current EXCEPT ![d] = interval]
       /\ SetNextDue(d, interval)
  /\ UNCHANGED <<online, timer, spawned, ticking, forced>>

ForcePoll(d) ==
  /\ due' = [due EXCEPT ![d] = NoEntry]
  /\ forced' = forced \cup {d}
  /\ UNCHANGED <<online, hist, current, timer, spawned, ticking, polling, rested>>

PollDevice(d) == PollSkipped(d) \/ PollFails(d) \/ PollErrs(d) \/ PollSucceeds(d)

PollingNext ==
  \/ TimePasses
  \/ TimerFires \/ StartTick \/ EndTick
  \/ \E d \in Devices : StatusChanges(d) \/ PollDevice(d) \/ ForcePoll(d)

PollingSpec == PollingInit /\ [][PollingNext]_pollingVars

(* Time passes, the GUI's event loop and the pool run, and every poll ends   *)
(* (the SSH layer has timeouts).                                             *)
PollingFairSpec ==
  /\ PollingSpec
  /\ WF_pollingVars(TimePasses) /\ WF_pollingVars(TimerFires)
  /\ WF_pollingVars(StartTick) /\ WF_pollingVars(EndTick)
  /\ \A d \in Devices : WF_pollingVars(PollDevice(d))

-----------------------------------------------------------------------------
PollingTypeOK ==
  /\ online \in SUBSET Devices
  /\ due \in [Devices -> NoEntry .. MaxInterval]
  /\ hist \in [Devices -> Seq(Outputs)]
  /\ \A d \in Devices : Len(hist[d]) <= HistorySize
  /\ current \in [Devices -> MinInterval .. MaxInterval]
  /\ timer \in 0 .. MaxInterval
  /\ spawned \in 0 .. MaxSpawned
  /\ ticking \in BOOLEAN
  /\ polling \in SUBSET Devices
  /\ rested \in [Devices -> 0 .. MinInterval]
  /\ forced \in SUBSET Devices

(* "device lento nunca e re-agendado no passado nem martelado": however long  *)
(* polls take and ticks queue up, a device rests for the least interval       *)
(* between two polls, unless it was forced.                                   *)
Rests ==
  [][\A d \in polling' \ polling :
       d \in Serviced => rested[d] = MinInterval \/ d \in forced]_pollingVars

(* A device is polled more slowly than at the least interval only while its   *)
(* last HistorySize outputs are there and equal.                              *)
SlowOnlyIfStable ==
  \A d \in Devices : current[d] > MinInterval =>
    \E sha \in Outputs : hist[d] = [i \in 1 .. HistorySize |-> sha]

(* A device that stays among the first MaxDevices online ones is polled again *)
(* and again, whatever its outputs, errors and failures: the timer, the tick  *)
(* lock and the due times never block it.                                     *)
ChosenPolled ==
  \A d \in Devices : <>[](d \in Chosen) => []<>(d \in polling)

=============================================================================
