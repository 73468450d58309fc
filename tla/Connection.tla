----------------------------- MODULE Connection -----------------------------
(***************************************************************************)
(* The one SSH session of the window: NetmikoSession (session.py) behind   *)
(* SSHSouthbound (sdn_controller/southbound.py).  The GUI thread asks      *)
(* whether it is alive, closes it and retargets it; workers of the I/O     *)
(* pool dial, with retries, and send commands.  A command holds the        *)
(* session's lock; dialling does not.                                      *)
(***************************************************************************)
EXTENDS Naturals

CONSTANTS
  Devices, NoDevice,
  Workers, NoWorker,
  Retries,      \* max_retries
  MaxHandles,   \* bound: connections opened
  MaxRequests   \* bound: requests of the user

ASSUME ConnectionAssumption ==
  /\ NoDevice \notin Devices /\ NoWorker \notin Workers
  /\ Retries \in Nat \ {0} /\ MaxHandles \in Nat /\ MaxRequests \in Nat

VARIABLES
  target,    \* the override_* fields: the device selected
  conn,      \* _conn: a handle, or NoConn
  handle,    \* the state of each handle
  made,      \* handles made so far
  closing,   \* _closing
  lock,      \* the session's lock
  connected, \* SSHSouthbound._connected
  cache,     \* _alive_cache
  fresh,     \* the cache is less than two seconds old
  gui,       \* where the GUI thread is
  intent,    \* what it is about
  seen,      \* the answer of is_connected it is about to store
  pc, tries, \* where each worker is, its attempts so far
  used,      \* the handle its command is sent over
  requests

(* History, read by the properties only. *)
VARIABLE
  replaced   \* handles that a later connect() took the place of

session == <<target, conn, handle, made, closing, lock>>
alive == <<connected, cache, fresh>>
guiVars == <<gui, intent, seen>>
workerVars == <<pc, tries, used>>
history == replaced
vars == <<session, alive, guiVars, workerVars, requests, history>>

-----------------------------------------------------------------------------
NoConn == 0
Handles == 1 .. MaxHandles

Init ==
  /\ target = NoDevice
  /\ conn = NoConn
  /\ handle = [h \in Handles |-> "none"]
  /\ made = 0
  /\ closing = FALSE
  /\ lock = NoWorker
  /\ connected = FALSE /\ cache = FALSE /\ fresh = FALSE
  /\ gui = "idle" /\ intent = "none" /\ seen = FALSE
  /\ pc = [w \in Workers |-> "idle"]
  /\ tries = [w \in Workers |-> 0]
  /\ used = [w \in Workers |-> NoConn]
  /\ requests = 0
  /\ replaced = {}

IsConnected == ~closing /\ conn # NoConn /\ handle[conn] = "open"

SetAlive(b) == connected' = b /\ cache' = b /\ fresh' = TRUE

Goto(w, label) == pc' = [pc EXCEPT ![w] = label]

(* Slips: the lock is not taken; the handle taken out is not closed. *)
Unlink_Unlocked ==
  /\ conn' = NoConn
  /\ handle' = IF conn = NoConn THEN handle ELSE [handle EXCEPT ![conn] = "closed"]
Unlink_Forgetting == lock = NoWorker /\ conn' = NoConn /\ UNCHANGED handle

(* What disconnect() does to the session once it has the lock; the handle it *)
(* has taken is closed by it alone.                                          *)
Unlink ==
  /\ lock = NoWorker
  /\ conn' = NoConn
  /\ handle' = IF conn = NoConn THEN handle ELSE [handle EXCEPT ![conn] = "closed"]

-----------------------------------------------------------------------------
(* The GUI thread *)

Request ==
  /\ gui = "idle"
  /\ requests < MaxRequests
  /\ requests' = requests + 1

(* _toggle_connect, _clear_device_target and _run begin by asking is_alive;  *)
(* _run wants a device first, _clear_device_target has forgotten it.         *)
Ask ==
  /\ Request
  /\ intent' \in {"toggle", "clear"} \cup (IF target = NoDevice THEN {} ELSE {"run"})
  /\ gui' = "asking"
  /\ target' = IF intent' = "clear" THEN NoDevice ELSE target
  /\ UNCHANGED <<conn, handle, made, closing, lock, alive, seen, workerVars, history>>

(* _on_device_selected retargets the session without closing it. *)
Select(d) ==
  /\ Request
  /\ target' = d
  /\ UNCHANGED <<conn, handle, made, closing, lock, alive, guiVars, workerVars,
                 history>>

(* Logout, the expiry of the access level and closing the window disconnect  *)
(* without asking.                                                           *)
EndSession ==
  /\ Request
  /\ gui' = "closing" /\ intent' = "stop"
  /\ closing' = TRUE
  /\ UNCHANGED <<target, conn, handle, made, lock, alive, seen, workerVars, history>>

(* _spawn_io.  The queue of the pool is left out: a task starts when a worker *)
(* is free.                                                                   *)
Spawn(label) ==
  \E w \in Workers :
    /\ pc[w] = "idle"
    /\ Goto(w, label)
    /\ tries' = [tries EXCEPT ![w] = 0]
    /\ UNCHANGED used

(* What each handler does with the answer of is_alive. *)
Closes(b) ==
  /\ b /\ intent # "run"
  /\ gui' = "closing"
  /\ intent' = IF intent = "dial" THEN "dial" ELSE "stop"
  /\ closing' = TRUE
  /\ UNCHANGED workerVars

AsksAgain(b) ==
  /\ ~b /\ intent = "toggle" /\ target # NoDevice
  /\ gui' = "asking" /\ intent' = "dial"
  /\ UNCHANGED <<closing, workerVars>>

Dials(b) ==
  /\ ~b /\ intent = "dial"
  /\ gui' = "idle" /\ intent' = "none"
  /\ Spawn("starting")
  /\ UNCHANGED closing

RunsCommand(b) ==
  /\ b /\ intent = "run"
  /\ gui' = "idle" /\ intent' = "none"
  /\ Spawn("command")
  /\ UNCHANGED closing

GivesUp(b) ==
  /\ ~b
  /\ intent \in {"clear", "run"} \/ (intent = "toggle" /\ target = NoDevice)
  /\ gui' = "idle" /\ intent' = "none"
  /\ UNCHANGED <<closing, workerVars>>

Answer(b) ==
  /\ Closes(b) \/ AsksAgain(b) \/ Dials(b) \/ RunsCommand(b) \/ GivesUp(b)
  /\ UNCHANGED <<target, conn, handle, made, lock, requests, replaced>>

(* is_alive: from the cache, or from the session and then into the cache. *)
AliveFromCache ==
  /\ gui = "asking" /\ fresh
  /\ Answer(cache)
  /\ UNCHANGED <<alive, seen>>

AliveFromSession ==
  /\ gui = "asking" /\ ~fresh
  /\ seen' = IsConnected
  /\ gui' = "storing"
  /\ UNCHANGED <<session, alive, intent, workerVars, requests, history>>

StoreAlive ==
  /\ gui = "storing"
  /\ SetAlive(seen)
  /\ Answer(seen)
  /\ UNCHANGED seen

(* disconnect(): waits for the lock, then SSHSouthbound notes the outcome. *)
Disconnect ==
  /\ gui = "closing"
  /\ Unlink
  /\ gui' = "noting"
  /\ UNCHANGED <<target, made, closing, lock, alive, intent, seen, workerVars,
                 requests, replaced>>

NoteClosed ==
  /\ gui = "noting"
  /\ SetAlive(FALSE)
  /\ IF intent = "dial"
     THEN Spawn("starting")
     ELSE UNCHANGED workerVars
  /\ gui' = "idle" /\ intent' = "none"
  /\ UNCHANGED <<session, seen, requests, replaced>>

-----------------------------------------------------------------------------
(* Workers: connect() *)

(* Without a host the credentials are not valid, and nothing is retried. *)
Refuse(w) ==
  /\ pc[w] = "starting" /\ target = NoDevice
  /\ Goto(w, "idle")
  /\ UNCHANGED <<session, alive, guiVars, tries, used, requests, history>>

Dial(w) ==
  /\ pc[w] = "starting" /\ target # NoDevice
  /\ closing' = FALSE
  /\ tries' = [tries EXCEPT ![w] = @ + 1]
  /\ Goto(w, "dialling")
  /\ UNCHANGED <<target, conn, handle, made, lock, alive, guiVars, used, requests,
                 history>>

(* ConnectHandler returns; _conn is set without the lock. *)
Link(w) ==
  /\ pc[w] = "dialling" /\ made < MaxHandles
  /\ made' = made + 1
  /\ conn' = made + 1
  /\ handle' = [handle EXCEPT ![made + 1] = "open"]
  /\ replaced' = IF conn = NoConn THEN replaced ELSE replaced \cup {conn}
  /\ Goto(w, "linked")
  /\ UNCHANGED <<target, closing, lock, alive, guiVars, tries, used, requests>>

MarkConnected(w) ==
  /\ pc[w] = "linked"
  /\ SetAlive(TRUE)
  /\ Goto(w, "idle")
  /\ UNCHANGED <<session, guiVars, tries, used, requests, history>>

(* A host key that does not match makes the session close itself. *)
Mismatch(w) ==
  /\ pc[w] = "linked"
  /\ closing' = TRUE
  /\ Goto(w, "unlinking")
  /\ UNCHANGED <<target, conn, handle, made, lock, alive, guiVars, tries, used,
                 requests, history>>

AfterFailure(w) == IF tries[w] < Retries THEN "starting" ELSE "idle"

UnlinkMismatch(w) ==
  /\ pc[w] = "unlinking"
  /\ Unlink
  /\ Goto(w, AfterFailure(w))
  /\ UNCHANGED <<target, made, closing, lock, alive, guiVars, tries, used, requests,
                 history>>

(* An authentication failure is final, any other is retried. *)
DialFails(w) ==
  /\ pc[w] = "dialling"
  /\ \E next \in {"idle", AfterFailure(w)} : Goto(w, next)
  /\ UNCHANGED <<session, alive, guiVars, tries, used, requests, history>>

-----------------------------------------------------------------------------
(* Workers: send_command *)

CheckConnected(w) ==
  /\ pc[w] = "command"
  /\ Goto(w, IF connected THEN "waiting" ELSE "failing")
  /\ UNCHANGED <<session, alive, guiVars, tries, used, requests, history>>

Send(w) ==
  /\ pc[w] = "waiting" /\ lock = NoWorker
  /\ IF conn = NoConn
     THEN Goto(w, "failing") /\ UNCHANGED <<lock, used>>
     ELSE /\ Goto(w, "sending")
          /\ lock' = w
          /\ used' = [used EXCEPT ![w] = conn]
  /\ UNCHANGED <<target, conn, handle, made, closing, alive, guiVars, tries,
                 requests, history>>

(* Slip: a command that ends leaves the lock taken. *)
Sent_Holding(w) ==
  /\ pc[w] = "sending"
  /\ Goto(w, "idle")
  /\ UNCHANGED <<session, alive, guiVars, tries, used, requests, history>>

Sent(w) ==
  /\ pc[w] = "sending"
  /\ lock' = NoWorker
  /\ \E next \in {"failing"} \cup (IF handle[used[w]] = "open" THEN {"idle"} ELSE {}) :
       Goto(w, next)
  /\ UNCHANGED <<target, conn, handle, made, closing, alive, guiVars, tries, used,
                 requests, history>>

Invalidate(w) ==
  /\ pc[w] = "failing"
  /\ SetAlive(FALSE)
  /\ Goto(w, "idle")
  /\ UNCHANGED <<session, guiVars, tries, used, requests, history>>

-----------------------------------------------------------------------------
CacheExpires ==
  /\ fresh
  /\ fresh' = FALSE
  /\ UNCHANGED <<session, connected, cache, guiVars, workerVars, requests, history>>

(* The device or the network drops a connection. *)
PeerDrops(h) ==
  /\ handle[h] = "open"
  /\ handle' = [handle EXCEPT ![h] = "lost"]
  /\ UNCHANGED <<target, conn, made, closing, lock, alive, guiVars, workerVars,
                 requests, history>>

GuiStep == AliveFromCache \/ AliveFromSession \/ StoreAlive \/ Disconnect \/ NoteClosed

ConnectStep(w) ==
  Refuse(w) \/ Dial(w) \/ Link(w) \/ MarkConnected(w) \/ Mismatch(w) \/ UnlinkMismatch(w)
  \/ DialFails(w)

CommandStep(w) == CheckConnected(w) \/ Send(w) \/ Sent(w) \/ Invalidate(w)

Next ==
  \/ Ask \/ EndSession
  \/ \E d \in Devices : Select(d)
  \/ GuiStep
  \/ \E w \in Workers : ConnectStep(w) \/ CommandStep(w)
  \/ CacheExpires
  \/ \E h \in Handles : PeerDrops(h)

Spec == Init /\ [][Next]_vars

(* Every dial has a connection timeout and every command a read timeout, and *)
(* the requests are bounded, so that whoever waits for the lock gets it.     *)
Fairness ==
  /\ WF_vars(GuiStep)
  /\ \A w \in Workers : WF_vars(ConnectStep(w) \/ CommandStep(w))

FairSpec == Spec /\ Fairness

-----------------------------------------------------------------------------
SessionTypes ==
  /\ target \in Devices \cup {NoDevice}
  /\ conn \in Handles \cup {NoConn}
  /\ handle \in [Handles -> {"none", "open", "lost", "closed"}]
  /\ made \in 0 .. MaxHandles
  /\ closing \in BOOLEAN
  /\ lock \in Workers \cup {NoWorker}
  /\ replaced \in SUBSET Handles

GuiTypes ==
  /\ connected \in BOOLEAN /\ cache \in BOOLEAN /\ fresh \in BOOLEAN
  /\ gui \in {"idle", "asking", "storing", "closing", "noting"}
  /\ intent \in {"none", "toggle", "clear", "run", "dial", "stop"}
  /\ seen \in BOOLEAN

WorkerTypes ==
  /\ pc \in [Workers -> {"idle", "starting", "dialling", "linked", "unlinking", "command",
                         "waiting", "sending", "failing"}]
  /\ tries \in [Workers -> 0 .. Retries]
  /\ used \in [Workers -> Handles \cup {NoConn}]

TypeOK == SessionTypes /\ GuiTypes /\ WorkerTypes

(* No command is cut off: the handle a command is being sent over is not     *)
(* closed by a logout, a reconnect or a failed host key check meanwhile.     *)
NeverCutOff == \A w \in Workers : pc[w] = "sending" => handle[used[w]] # "closed"

(* The only connections that nobody can close any more are those that a      *)
(* connect() replaced: every other open one is the session's own, whatever   *)
(* the interleaving of dials, host key checks and disconnects.               *)
OnlyReplacedLeak == \A h \in Handles : handle[h] = "open" => h = conn \/ h \in replaced

(* What keeps both: the lock is held by the worker that sends and by nobody   *)
(* else, and neither the session's handle nor a handle in use is closed.  A   *)
(* worker about to dial has an attempt left.                                  *)
LockHeld == \A w \in Workers : pc[w] = "sending" <=> lock = w

TriesLeft == \A w \in Workers : pc[w] = "starting" => tries[w] < Retries

LiveHandles ==
  /\ conn # NoConn => handle[conn] \in {"open", "lost"}
  /\ \A w \in Workers : pc[w] = "sending" =>
       used[w] # NoConn /\ handle[used[w]] \in {"open", "lost"}

(* Handles are made in order. *)
InOrder == \A h \in Handles : h > made => handle[h] = "none"

ConnectionInv == TypeOK /\ TriesLeft /\ LockHeld /\ LiveHandles /\ OnlyReplacedLeak

(* The line over which a command is being sent. *)
Sending == IF lock = NoWorker THEN NoConn ELSE used[lock]

OneLine == INSTANCE SessionLine WITH line <- conn, sending <- Sending

(* Whatever the GUI thread and the workers do, and in whatever order, they     *)
(* implement a line for one command at a time that nobody hangs up on while it *)
(* is in use: dials, host key checks, retries and disconnects come down to     *)
(* installing a line or hanging up an idle one.                                *)
ImplementsLine == OneLine!Spec

(* The GUI thread waits for the lock that a command holds, not for ever. *)
GuiReturns == (gui # "idle") ~> (gui = "idle")
=============================================================================
