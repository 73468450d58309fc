--------------------------- MODULE SessionOwners ---------------------------
(***************************************************************************)
(* What the pool of SSH sessions promises, without its lock, its callers   *)
(* or their interleavings: a session is connected once, by a thread, which *)
(* puts it in the pool of a device that has none or keeps it to close it;  *)
(* whoever takes sessions out of the pool keeps them to close them; and    *)
(* only the thread that keeps a session closes it.  So every open session  *)
(* has one owner, and a session in the pool is open.                       *)
(***************************************************************************)
EXTENDS Naturals

CONSTANTS Sessions, Threads, Devices

VARIABLES
  used,     \* sessions that were ever connected
  open,     \* those that still are
  ready,    \* <<t, s>>: thread t has connected s and not yet decided about it
  pooled,   \* <<d, s>>: s is the session of device d in the pool
  doomed    \* <<t, s>>: s is thread t's to close

ownerVars == <<used, open, ready, pooled, doomed>>

Init == used = {} /\ open = {} /\ ready = {} /\ pooled = {} /\ doomed = {}

Connect(t, s) ==
  /\ s \notin used
  /\ used' = used \cup {s}
  /\ open' = open \cup {s}
  /\ ready' = ready \cup {<<t, s>>}
  /\ UNCHANGED <<pooled, doomed>>

Share(t, s, d) ==
  /\ <<t, s>> \in ready
  /\ \A r \in Sessions : <<d, r>> \notin pooled
  /\ ready' = ready \ {<<t, s>>}
  /\ pooled' = pooled \cup {<<d, s>>}
  /\ UNCHANGED <<used, open, doomed>>

Discard(t, s) ==
  /\ <<t, s>> \in ready
  /\ ready' = ready \ {<<t, s>>}
  /\ doomed' = doomed \cup {<<t, s>>}
  /\ UNCHANGED <<used, open, pooled>>

(* The sessions of the devices D leave the pool, all at once. *)
Take(t, D) ==
  /\ pooled' = {p \in pooled : p[1] \notin D}
  /\ doomed' = doomed \cup {<<t, p[2]>> : p \in {q \in pooled : q[1] \in D}}
  /\ UNCHANGED <<used, open, ready>>

Close(t, s) ==
  /\ <<t, s>> \in doomed
  /\ doomed' = doomed \ {<<t, s>>}
  /\ open' = open \ {s}
  /\ UNCHANGED <<used, ready, pooled>>

Next ==
  \E t \in Threads :
    \/ \E s \in Sessions : Connect(t, s) \/ Discard(t, s) \/ Close(t, s)
    \/ \E s \in Sessions, d \in Devices : Share(t, s, d)
    \/ \E D \in SUBSET Devices : Take(t, D)

Spec == Init /\ [][Next]_ownerVars
=============================================================================
