------------------------------- MODULE Watcher -------------------------------
(***************************************************************************)
(* The Watcher of agents/watcher.py: a GUI timer that hands scans of the   *)
(* project to a pool of one thread.  start(), stop(), _tick() and          *)
(* shutdown() run in the GUI thread, _run_scan() in the pool.  The timer   *)
(* is armed exactly while the watcher is active, so it has no variable.    *)
(* Access composes these operations with those who call them.              *)
(***************************************************************************)
EXTENDS Naturals

VARIABLES
  active,     \* _active
  scanning,   \* _scanning
  queued,     \* scans waiting in the pool
  running,    \* is the pool's thread scanning?
  down,       \* the pool was shut down
  forgotten   \* history: calls of stop() that cleared _scanning

watcherVars == <<active, scanning, queued, running, down, forgotten>>

-----------------------------------------------------------------------------
WatcherInit ==
  /\ active = FALSE /\ scanning = FALSE
  /\ queued = 0 /\ running = FALSE
  /\ down = FALSE
  /\ forgotten = 0

(* stop() forgets the scan that is pending. *)
StopWatcher ==
  /\ active' = FALSE /\ scanning' = FALSE
  /\ forgotten' = forgotten + (IF scanning THEN 1 ELSE 0)
  /\ UNCHANGED <<queued, running, down>>

(* start() of an inactive watcher, whose flag _scanning is down: its first *)
(* scan is submitted at once.  The pool refuses it after shutdown().       *)
StartWatcher ==
  IF active
  THEN UNCHANGED watcherVars
  ELSE /\ active' = TRUE
       /\ IF down
          THEN scanning' = FALSE /\ UNCHANGED queued
          ELSE scanning' = TRUE /\ queued' = queued + 1
       /\ UNCHANGED <<running, down, forgotten>>

(* A theme change stops the watcher and starts it again if it was active. *)
RestartWatcher ==
  IF active
  THEN /\ scanning' = TRUE
       /\ queued' = queued + 1
       /\ forgotten' = forgotten + (IF scanning THEN 1 ELSE 0)
       /\ UNCHANGED <<active, running, down>>
  ELSE StopWatcher

ShutdownWatcher ==
  /\ active' = FALSE /\ scanning' = FALSE
  /\ forgotten' = forgotten + (IF scanning THEN 1 ELSE 0)
  /\ down' = TRUE
  /\ UNCHANGED <<queued, running>>

(* Slip: a tick does not ask whether a scan is pending. *)
TickWatcher_Blind ==
  /\ active /\ queued < 3
  /\ scanning' = TRUE
  /\ queued' = queued + 1
  /\ UNCHANGED <<active, running, down, forgotten>>

(* The timer fires. *)
TickWatcher ==
  /\ active /\ ~scanning
  /\ scanning' = TRUE
  /\ queued' = queued + 1
  /\ UNCHANGED <<active, running, down, forgotten>>

ScanBegins ==
  /\ queued > 0 /\ ~running
  /\ queued' = queued - 1
  /\ running' = TRUE
  /\ UNCHANGED <<active, scanning, down, forgotten>>

(* Slip: a scan that ends leaves the flag up. *)
ScanEnds_Busy ==
  /\ running
  /\ running' = FALSE
  /\ UNCHANGED <<active, scanning, queued, down, forgotten>>

(* The flag goes down even if it was raised for a later scan. *)
ScanEnds ==
  /\ running
  /\ running' = FALSE /\ scanning' = FALSE
  /\ UNCHANGED <<active, queued, down, forgotten>>

-----------------------------------------------------------------------------
WatcherTypes ==
  /\ active \in BOOLEAN /\ scanning \in BOOLEAN
  /\ queued \in Nat /\ running \in BOOLEAN
  /\ down \in BOOLEAN
  /\ forgotten \in Nat

Pending == queued + (IF running THEN 1 ELSE 0)

(* One scan at a time: scans do not pile up behind a slow one.  Every scan in *)
(* the pool beyond the one _scanning stands for was left there by a stop().   *)
NoPileUp == Pending <= forgotten + (IF scanning THEN 1 ELSE 0)

(* The strengthening of NoPileUp: an inactive watcher has its flag down. *)
FlagMeansActive == scanning => active

WatcherInv == WatcherTypes /\ FlagMeansActive /\ NoPileUp

(* While the watcher is active, scans keep being made, whatever the stops and *)
(* starts and however many of them fail.                                      *)
ScansGoOn == []<>(running \/ ~active)
=============================================================================
