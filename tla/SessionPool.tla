---------------------------- MODULE SessionPool ----------------------------
(***************************************************************************)
(* SSHSessionFactory of sdn_controller/session_factory.py: a pool with one *)
(* SSH session per device, used by any number of threads.  Sessions are    *)
(* made, connected and closed outside the pool's lock; each step below is  *)
(* one hold of that lock, or one call made without it.                     *)
(*                                                                         *)
(* Devices are those whose credentials are complete: for any other device  *)
(* get() returns None and changes nothing.                                 *)
(***************************************************************************)
EXTENDS Naturals, FiniteSets

CONSTANTS
  Clients,      \* threads that call get() and release()
  Purger,       \* the thread in purge_expired()
  Disposer,     \* the thread in dispose()
  Devices,
  NoDevice,     \* what a thread outside get() asks for
  MaxSessions   \* bound: sessions connected in one behaviour

Sessions == 1 .. MaxSessions
Threads == Clients \cup {Purger, Disposer}

ASSUME PoolAssumption ==
  /\ Purger \notin Clients /\ Disposer \notin Clients /\ Purger # Disposer
  /\ NoDevice \notin Devices
  /\ MaxSessions \in Nat

VARIABLES
  pool,     \* _pool: the session of each device, or NoSession
  idle,     \* has the entry of the device been unused for longer than the TTL?
  made,     \* sessions connected so far
  open,     \* sessions that are connected
  pc,       \* where each thread is
  device,   \* the device each client is asking for
  fresh,    \* the session a client has connected and not yet put in the pool
  using,    \* the session get() returned to each client
  closing,  \* sessions each thread has taken out and has still to close
  expired   \* the device ids purge_expired found idle

(* History, read by the properties only. *)
VARIABLES
  popped    \* sessions taken out of the pool

hands == <<device, fresh, using>>
history == popped
vars == <<pool, idle, made, open, pc, hands, closing, expired, history>>

-----------------------------------------------------------------------------
NoSession == 0

Pooled == {pool[d] : d \in Devices} \ {NoSession}

Init ==
  /\ pool = [d \in Devices |-> NoSession]
  /\ idle = [d \in Devices |-> FALSE]
  /\ made = 0
  /\ open = {}
  /\ pc = [t \in Threads |-> "idle"]
  /\ device = [c \in Clients |-> NoDevice]
  /\ fresh = [c \in Clients |-> NoSession]
  /\ using = [c \in Clients |-> NoSession]
  /\ closing = [t \in Threads |-> {}]
  /\ expired = {}
  /\ popped = {}

(* Time passes: an entry nobody touched outlives the TTL. *)
GrowIdle(d) ==
  /\ pool[d] # NoSession
  /\ ~idle[d]
  /\ idle' = [idle EXCEPT ![d] = TRUE]
  /\ UNCHANGED <<pool, made, open, pc, hands, closing, expired, history>>

-----------------------------------------------------------------------------
(* The entry's last use is now; the entry of a device without a session has *)
(* none.                                                                     *)
Touch(d) == idle' = [idle EXCEPT ![d] = FALSE]

(* get(): the pooled session, touched, or the way to a new one. *)
GetPooled(c, d) ==
  /\ pc[c] = "idle"
  /\ pool[d] # NoSession
  /\ Touch(d)
  /\ device' = [device EXCEPT ![c] = d]
  /\ using' = [using EXCEPT ![c] = pool[d]]
  /\ pc' = [pc EXCEPT ![c] = "using"]
  /\ UNCHANGED <<pool, made, open, fresh, closing, expired, history>>

GetMissing(c, d) ==
  /\ pc[c] = "idle"
  /\ pool[d] = NoSession
  /\ device' = [device EXCEPT ![c] = d]
  /\ pc' = [pc EXCEPT ![c] = "connecting"]
  /\ UNCHANGED <<pool, idle, made, open, fresh, using, closing, expired, history>>

ConnectSucceeds(c) ==
  /\ pc[c] = "connecting"
  /\ made < MaxSessions
  /\ made' = made + 1
  /\ open' = open \cup {made + 1}
  /\ fresh' = [fresh EXCEPT ![c] = made + 1]
  /\ pc' = [pc EXCEPT ![c] = "inserting"]
  /\ UNCHANGED <<pool, idle, device, using, closing, expired, history>>

ConnectFails(c) ==
  /\ pc[c] = "connecting"
  /\ pc' = [pc EXCEPT ![c] = "idle"]
  /\ device' = [device EXCEPT ![c] = NoDevice]
  /\ UNCHANGED <<pool, idle, made, open, fresh, using, closing, expired, history>>

(* The pool is looked at again: whoever comes second takes the session that *)
(* is there and closes its own.                                             *)
InsertFirst(c) ==
  /\ pc[c] = "inserting"
  /\ pool[device[c]] = NoSession
  /\ pool' = [pool EXCEPT ![device[c]] = fresh[c]]
  /\ Touch(device[c])
  /\ using' = [using EXCEPT ![c] = fresh[c]]
  /\ fresh' = [fresh EXCEPT ![c] = NoSession]
  /\ pc' = [pc EXCEPT ![c] = "using"]
  /\ UNCHANGED <<made, open, device, closing, expired, history>>

(* Slip: the pool is not looked at again, and the last to come back wins. *)
InsertSecond_Overwriting(c) ==
  /\ pc[c] = "inserting"
  /\ pool[device[c]] # NoSession
  /\ pool' = [pool EXCEPT ![device[c]] = fresh[c]]
  /\ Touch(device[c])
  /\ using' = [using EXCEPT ![c] = fresh[c]]
  /\ fresh' = [fresh EXCEPT ![c] = NoSession]
  /\ pc' = [pc EXCEPT ![c] = "using"]
  /\ UNCHANGED <<made, open, device, closing, expired, history>>

InsertSecond(c) ==
  /\ pc[c] = "inserting"
  /\ pool[device[c]] # NoSession
  /\ Touch(device[c])
  /\ using' = [using EXCEPT ![c] = pool[device[c]]]
  /\ closing' = [closing EXCEPT ![c] = {fresh[c]}]
  /\ fresh' = [fresh EXCEPT ![c] = NoSession]
  /\ pc' = [pc EXCEPT ![c] = "discarding"]
  /\ UNCHANGED <<pool, made, open, device, expired, history>>

(* _close_ssb, outside the lock. *)
CloseSession(t) ==
  /\ \E s \in closing[t] :
       /\ open' = open \ {s}
       /\ closing' = [closing EXCEPT ![t] = @ \ {s}]
  /\ UNCHANGED <<pool, idle, made, pc, hands, expired, history>>

AfterClosing == [discarding |-> "using", releasing |-> "idle", disposing |-> "disposed"]

ClosingDone(t) ==
  /\ pc[t] \in DOMAIN AfterClosing
  /\ closing[t] = {}
  /\ pc' = [pc EXCEPT ![t] = AfterClosing[pc[t]]]
  /\ IF pc[t] = "releasing"
       THEN /\ using' = [using EXCEPT ![t] = NoSession]
            /\ device' = [device EXCEPT ![t] = NoDevice]
       ELSE UNCHANGED <<using, device>>
  /\ UNCHANGED <<pool, idle, made, open, fresh, closing, expired, history>>

(* Slip: the session that left the pool is not closed. *)
Pop_Dropping(t, d) ==
  /\ pool' = [pool EXCEPT ![d] = NoSession]
  /\ Touch(d)
  /\ popped' = popped \cup ({pool[d]} \ {NoSession})
  /\ UNCHANGED closing

(* release(), first half: the entry leaves the pool under the lock. *)
Pop(t, d) ==
  LET taken == {pool[d]} \ {NoSession} IN
  /\ pool' = [pool EXCEPT ![d] = NoSession]
  /\ Touch(d)
  /\ closing' = [closing EXCEPT ![t] = @ \cup taken]
  /\ popped' = popped \cup taken

UseSucceeds(c) ==
  /\ pc[c] = "using"
  /\ using' = [using EXCEPT ![c] = NoSession]
  /\ device' = [device EXCEPT ![c] = NoDevice]
  /\ pc' = [pc EXCEPT ![c] = "idle"]
  /\ UNCHANGED <<pool, idle, made, open, fresh, closing, expired, history>>

(* The client's command raises, and it releases the device. *)
UseRaises(c) ==
  /\ pc[c] = "using"
  /\ Pop(c, device[c])
  /\ pc' = [pc EXCEPT ![c] = "releasing"]
  /\ UNCHANGED <<made, open, hands, expired>>

(* purge_expired(): the idle entries are listed without the lock, and then   *)
(* released one by one.                                                      *)
PurgeScan ==
  /\ pc[Purger] = "idle"
  /\ expired' = {d \in Devices : pool[d] # NoSession /\ idle[d]}
  /\ pc' = [pc EXCEPT ![Purger] = "purging"]
  /\ UNCHANGED <<pool, idle, made, open, hands, closing, history>>

PurgeRelease ==
  /\ closing[Purger] = {}
  /\ \E d \in expired :
       /\ Pop(Purger, d)
       /\ expired' = expired \ {d}
  /\ UNCHANGED <<made, open, pc, hands>>

PurgeEnd ==
  /\ pc[Purger] = "purging"
  /\ expired = {}
  /\ closing[Purger] = {}
  /\ pc' = [pc EXCEPT ![Purger] = "idle"]
  /\ UNCHANGED <<pool, idle, made, open, hands, closing, expired, history>>

(* dispose(): the pool is emptied under the lock, the sessions closed after. *)
Dispose ==
  /\ pc[Disposer] = "idle"
  /\ closing' = [closing EXCEPT ![Disposer] = Pooled]
  /\ popped' = popped \cup Pooled
  /\ pool' = [d \in Devices |-> NoSession]
  /\ idle' = [d \in Devices |-> FALSE]
  /\ pc' = [pc EXCEPT ![Disposer] = "disposing"]
  /\ UNCHANGED <<made, open, hands, expired>>

Get(c) ==
  \/ \E d \in Devices : GetPooled(c, d) \/ GetMissing(c, d)
  \/ ConnectSucceeds(c) \/ ConnectFails(c)
  \/ InsertFirst(c) \/ InsertSecond(c)

Use(c) == UseSucceeds(c) \/ UseRaises(c)

Closing(t) == CloseSession(t) \/ ClosingDone(t)

Next ==
  \/ \E d \in Devices : GrowIdle(d)
  \/ \E c \in Clients : Get(c) \/ Use(c)
  \/ \E t \in Threads : Closing(t)
  \/ PurgeScan \/ PurgeRelease \/ PurgeEnd
  \/ Dispose

Spec == Init /\ [][Next]_vars

(* A thread that has begun to close sessions goes on. *)
FairSpec == Spec /\ \A t \in Threads : WF_vars(Closing(t))

-----------------------------------------------------------------------------
TypeOK ==
  /\ pool \in [Devices -> Sessions \cup {NoSession}]
  /\ idle \in [Devices -> BOOLEAN]
  /\ made \in 0 .. MaxSessions
  /\ open \in SUBSET Sessions
  /\ pc \in [Threads -> {"idle", "connecting", "inserting", "discarding", "using",
                         "releasing", "purging", "disposing", "disposed"}]
  /\ device \in [Clients -> Devices \cup {NoDevice}]
  /\ fresh \in [Clients -> Sessions \cup {NoSession}]
  /\ using \in [Clients -> Sessions \cup {NoSession}]
  /\ closing \in [Threads -> SUBSET Sessions]
  /\ expired \in SUBSET Devices
  /\ popped \in SUBSET Sessions

(* No connection leaks: whatever the interleaving of get(), release(),       *)
(* purge_expired() and dispose(), every open session is in the pool or in    *)
(* the hands of exactly one thread, which will put it there or close it.     *)
Accounted ==
  /\ \A s \in open :
       \/ s \in Pooled
       \/ \E c \in Clients : pc[c] = "inserting" /\ fresh[c] = s
       \/ \E t \in Threads : s \in closing[t]
  /\ \A t, u \in Threads : t # u => closing[t] \cap closing[u] = {}

(* "connect failure does not poison pool": the pool never hands out a session *)
(* that is closed or that somebody is about to close, nor one session for two *)
(* devices.                                                                   *)
PoolHealthy ==
  /\ Pooled \subseteq open
  /\ \A t \in Threads : closing[t] \cap Pooled = {}
  /\ \A d, e \in Devices : pool[d] = pool[e] /\ pool[d] # NoSession => d = e

(* Two clients of one device share a session: what get() returned is the      *)
(* device's session in the pool, unless that was released, purged or disposed *)
(* of since, even for the client that connected one of its own.               *)
UsesPooled ==
  \A c \in Clients : using[c] # NoSession =>
    using[c] = pool[device[c]] \/ using[c] \in popped

(* The strengthening of the properties above that every step preserves.  What *)
(* a thread holds depends on where it is.                                     *)
Discipline ==
  /\ \A c \in Clients :
       /\ pc[c] \in {"idle", "connecting", "inserting", "discarding", "using", "releasing"}
       /\ pc[c] # "idle" => device[c] \in Devices
       /\ fresh[c] # NoSession <=> pc[c] = "inserting"
       /\ using[c] # NoSession <=> pc[c] \in {"discarding", "using", "releasing"}
       /\ closing[c] # {} => pc[c] \in {"discarding", "releasing"}
  /\ pc[Purger] \in {"idle", "purging"}
  /\ pc[Purger] = "idle" => expired = {} /\ closing[Purger] = {}
  /\ pc[Disposer] \in {"idle", "disposing", "disposed"}
  /\ pc[Disposer] # "disposing" => closing[Disposer] = {}

(* Whoever holds a session holds an open one. *)
HeldOpen ==
  /\ \A d \in Devices : pool[d] # NoSession => pool[d] \in open
  /\ \A c \in Clients : fresh[c] # NoSession => fresh[c] \in open
  /\ \A t \in Threads : \A s \in closing[t] : s \in open
  /\ \A s \in open : s <= made

(* Nobody else holds it. *)
OneOwner ==
  /\ \A d, e \in Devices : pool[d] = pool[e] /\ pool[d] # NoSession => d = e
  /\ \A b, c \in Clients : fresh[b] = fresh[c] /\ fresh[b] # NoSession => b = c
  /\ \A t, u \in Threads, s \in Sessions : s \in closing[t] /\ s \in closing[u] => t = u
  /\ \A d \in Devices, c \in Clients : pool[d] = fresh[c] => pool[d] = NoSession
  /\ \A d \in Devices, t \in Threads : pool[d] \notin closing[t]
  /\ \A c \in Clients, t \in Threads : fresh[c] \notin closing[t]

(* And every open session is held. *)
Owned ==
  \A s \in open :
    \/ \E d \in Devices : pool[d] = s
    \/ \E c \in Clients : fresh[c] = s
    \/ \E t \in Threads : s \in closing[t]

PoolInv == TypeOK /\ Discipline /\ HeldOpen /\ OneOwner /\ Owned /\ UsesPooled

(* What remains of a state when the lock, the places in the code and what the *)
(* clients use are left out.                                                  *)
Ready == {p \in Clients \X Sessions : fresh[p[1]] = p[2]}
InPool == {p \in Devices \X Sessions : pool[p[1]] = p[2]}
Doomed == {p \in Threads \X Sessions : p[2] \in closing[p[1]]}

Owners == INSTANCE SessionOwners WITH
  used <- 1 .. made, ready <- Ready, pooled <- InPool, doomed <- Doomed

(* get(), release(), purge_expired() and dispose() implement the ownership of *)
(* sessions: a session is connected once, never returns to the pool once it   *)
(* was taken out or discarded, and is closed by the one thread that took it,  *)
(* whatever the threads do in between.                                        *)
ImplementsOwners == Owners!Spec

(* A session taken out of the pool is closed in the end. *)
PoppedCloses == \A s \in Sessions : s \in popped ~> s \notin open
=============================================================================
