---------------------------- MODULE CommandProofs ----------------------------
(***************************************************************************)
(* Proofs about what a command goes through, each part with its own        *)
(* specification and for any constants: the session it is sent over, and   *)
(* the audit log it is entered in.  What is said of the log, past its      *)
(* types, assumes that no write is torn.                                   *)
(***************************************************************************)
EXTENDS Connection, AuditLog, TLAPS

-----------------------------------------------------------------------------
(***************************************************************************)
(* Connection: the session, its lock and its handles.                      *)
(***************************************************************************)
(* What becomes of the workers when a handler acts on the answer of is_alive. *)
LEMMA AnswerSpawns ==
  ASSUME NEW b \in BOOLEAN, Answer(b)
  PROVE  /\ UNCHANGED workerVars \/ Spawn("starting") \/ Spawn("command")
         /\ UNCHANGED <<target, conn, handle, made, lock, replaced>>
BY DEF Answer, Closes, AsksAgain, Dials, RunsCommand, GivesUp

(* ... and of the GUI thread. *)
LEMMA AnswerGoesOn ==
  ASSUME GuiTypes, closing \in BOOLEAN, NEW b \in BOOLEAN, Answer(b)
  PROVE  /\ gui' \in {"idle", "asking", "closing"}
         /\ intent' \in {"none", "dial", "stop"}
         /\ closing' \in BOOLEAN
BY DEF Answer, Closes, AsksAgain, Dials, RunsCommand, GivesUp, GuiTypes

(* A task starts on one idle worker and with all its attempts. *)
LEMMA SpawnStarts ==
  ASSUME NEW label \in {"starting", "command"}, Spawn(label), WorkerTypes, TriesLeft
  PROVE  /\ WorkerTypes' /\ TriesLeft' /\ used' = used
         /\ \A v \in Workers : pc'[v] = "sending" <=> pc[v] = "sending"
<1>1. PICK v \in Workers : /\ pc[v] = "idle"
                           /\ pc' = [pc EXCEPT ![v] = label]
                           /\ tries' = [tries EXCEPT ![v] = 0]
                           /\ used' = used
  BY DEF Spawn, Goto
<1>2. WorkerTypes'
  BY <1>1, ConnectionAssumption DEF WorkerTypes
<1>3. TriesLeft'
  BY <1>1, ConnectionAssumption DEF WorkerTypes, TriesLeft
<1>4. \A x \in Workers : pc'[x] = "sending" <=> pc[x] = "sending"
  BY <1>1 DEF WorkerTypes
<1> QED
  BY <1>1, <1>2, <1>3, <1>4

(* Every step keeps the types of the session's variables, *)
LEMMA SessionTypesStep == TypeOK /\ [Next]_vars => SessionTypes'
<1>1. SUFFICES ASSUME TypeOK, [Next]_vars PROVE SessionTypes'
  OBVIOUS
<1>2. USE ConnectionAssumption DEF Handles, NoConn, TypeOK, SessionTypes,
           session, alive, guiVars, workerVars, history
<1>Ask. ASSUME Ask PROVE SessionTypes'
  BY <1>1, <1>Ask DEF Ask, Request
<1>EndSession. ASSUME EndSession PROVE SessionTypes'
  BY <1>1, <1>EndSession DEF EndSession, Request
<1>Select. ASSUME NEW d \in Devices, Select(d) PROVE SessionTypes'
  BY <1>1, <1>Select DEF Select, Request
<1>AliveFromCache. ASSUME AliveFromCache PROVE SessionTypes'
  <2>1. UNCHANGED <<target, conn, handle, made, lock, replaced>>
    BY <1>1, <1>AliveFromCache, AnswerSpawns DEF AliveFromCache, TypeOK, GuiTypes
  <2>2. closing' \in BOOLEAN
    BY <1>1, <1>AliveFromCache, AnswerGoesOn DEF AliveFromCache, TypeOK, GuiTypes
  <2> QED
    BY <1>1, <2>1, <2>2
<1>AliveFromSession. ASSUME AliveFromSession PROVE SessionTypes'
  BY <1>1, <1>AliveFromSession DEF AliveFromSession, IsConnected
<1>StoreAlive. ASSUME StoreAlive PROVE SessionTypes'
  <2>1. UNCHANGED <<target, conn, handle, made, lock, replaced>>
    BY <1>1, <1>StoreAlive, AnswerSpawns DEF StoreAlive, TypeOK, GuiTypes
  <2>2. closing' \in BOOLEAN
    BY <1>1, <1>StoreAlive, AnswerGoesOn DEF StoreAlive, TypeOK, GuiTypes
  <2> QED
    BY <1>1, <2>1, <2>2
<1>Disconnect. ASSUME Disconnect PROVE SessionTypes'
  BY <1>1, <1>Disconnect DEF Disconnect, Unlink
<1>NoteClosed. ASSUME NoteClosed PROVE SessionTypes'
  BY <1>1, <1>NoteClosed DEF NoteClosed, SetAlive, Spawn, Goto
<1>Refuse. ASSUME NEW w \in Workers, Refuse(w) PROVE SessionTypes'
  BY <1>1, <1>Refuse DEF Refuse, Goto
<1>Dial. ASSUME NEW w \in Workers, Dial(w) PROVE SessionTypes'
  BY <1>1, <1>Dial DEF Dial, Goto
<1>Link. ASSUME NEW w \in Workers, Link(w) PROVE SessionTypes'
  BY <1>1, <1>Link DEF Link, Goto
<1>MarkConnected. ASSUME NEW w \in Workers, MarkConnected(w) PROVE SessionTypes'
  BY <1>1, <1>MarkConnected DEF MarkConnected, SetAlive, Goto
<1>Mismatch. ASSUME NEW w \in Workers, Mismatch(w) PROVE SessionTypes'
  BY <1>1, <1>Mismatch DEF Mismatch, Goto
<1>UnlinkMismatch. ASSUME NEW w \in Workers, UnlinkMismatch(w) PROVE SessionTypes'
  BY <1>1, <1>UnlinkMismatch DEF UnlinkMismatch, Unlink, AfterFailure, Goto
<1>DialFails. ASSUME NEW w \in Workers, DialFails(w) PROVE SessionTypes'
  BY <1>1, <1>DialFails DEF DialFails, AfterFailure, Goto
<1>CheckConnected. ASSUME NEW w \in Workers, CheckConnected(w) PROVE SessionTypes'
  BY <1>1, <1>CheckConnected DEF CheckConnected, Goto
<1>Send. ASSUME NEW w \in Workers, Send(w) PROVE SessionTypes'
  BY <1>1, <1>Send DEF Send, Goto
<1>Sent. ASSUME NEW w \in Workers, Sent(w) PROVE SessionTypes'
  BY <1>1, <1>Sent DEF Sent, Goto
<1>Invalidate. ASSUME NEW w \in Workers, Invalidate(w) PROVE SessionTypes'
  BY <1>1, <1>Invalidate DEF Invalidate, SetAlive, Goto
<1>CacheExpires. ASSUME CacheExpires PROVE SessionTypes'
  BY <1>1, <1>CacheExpires DEF CacheExpires
<1>PeerDrops. ASSUME NEW h \in Handles, PeerDrops(h) PROVE SessionTypes'
  BY <1>1, <1>PeerDrops DEF PeerDrops
<1>Stutter. ASSUME UNCHANGED vars PROVE SessionTypes'
  BY <1>1, <1>Stutter DEF vars
<1> QED
  BY <1>1, <1>Ask, <1>EndSession, <1>Select, <1>AliveFromCache, <1>AliveFromSession, <1>StoreAlive,
     <1>Disconnect, <1>NoteClosed, <1>Refuse, <1>Dial, <1>Link, <1>MarkConnected,
     <1>Mismatch, <1>UnlinkMismatch, <1>DialFails, <1>CheckConnected, <1>Send, <1>Sent,
     <1>Invalidate, <1>CacheExpires, <1>PeerDrops,
     <1>Stutter DEF Next, GuiStep, ConnectStep, CommandStep

(* ... those of the GUI thread and of the liveness cache, *)
LEMMA GuiTypesStep == TypeOK /\ [Next]_vars => GuiTypes'
<1>1. SUFFICES ASSUME TypeOK, [Next]_vars PROVE GuiTypes'
  OBVIOUS
<1>2. USE ConnectionAssumption DEF Handles, NoConn, TypeOK, GuiTypes,
           session, alive, guiVars, workerVars, history
<1>Ask. ASSUME Ask PROVE GuiTypes'
  BY <1>1, <1>Ask DEF Ask, Request
<1>EndSession. ASSUME EndSession PROVE GuiTypes'
  BY <1>1, <1>EndSession DEF EndSession, Request
<1>Select. ASSUME NEW d \in Devices, Select(d) PROVE GuiTypes'
  BY <1>1, <1>Select DEF Select, Request
<1>AliveFromCache. ASSUME AliveFromCache PROVE GuiTypes'
  <2>1. gui' \in {"idle", "asking", "closing"} /\ intent' \in {"none", "dial", "stop"}
    BY <1>1, <1>AliveFromCache, AnswerGoesOn DEF AliveFromCache, TypeOK, SessionTypes
  <2>2. UNCHANGED <<alive, seen>>
    BY <1>AliveFromCache DEF AliveFromCache
  <2> QED
    BY <1>1, <2>1, <2>2
<1>AliveFromSession. ASSUME AliveFromSession PROVE GuiTypes'
  BY <1>1, <1>AliveFromSession DEF AliveFromSession, IsConnected
<1>StoreAlive. ASSUME StoreAlive PROVE GuiTypes'
  <2>1. gui' \in {"idle", "asking", "closing"} /\ intent' \in {"none", "dial", "stop"}
    BY <1>1, <1>StoreAlive, AnswerGoesOn DEF StoreAlive, TypeOK, SessionTypes
  <2>2. connected' = seen /\ cache' = seen /\ fresh' = TRUE /\ seen' = seen
    BY <1>StoreAlive DEF StoreAlive, SetAlive
  <2> QED
    BY <1>1, <2>1, <2>2
<1>Disconnect. ASSUME Disconnect PROVE GuiTypes'
  BY <1>1, <1>Disconnect DEF Disconnect, Unlink
<1>NoteClosed. ASSUME NoteClosed PROVE GuiTypes'
  BY <1>1, <1>NoteClosed DEF NoteClosed, SetAlive, Spawn, Goto
<1>Refuse. ASSUME NEW w \in Workers, Refuse(w) PROVE GuiTypes'
  BY <1>1, <1>Refuse DEF Refuse, Goto
<1>Dial. ASSUME NEW w \in Workers, Dial(w) PROVE GuiTypes'
  BY <1>1, <1>Dial DEF Dial, Goto
<1>Link. ASSUME NEW w \in Workers, Link(w) PROVE GuiTypes'
  BY <1>1, <1>Link DEF Link, Goto
<1>MarkConnected. ASSUME NEW w \in Workers, MarkConnected(w) PROVE GuiTypes'
  BY <1>1, <1>MarkConnected DEF MarkConnected, SetAlive, Goto
<1>Mismatch. ASSUME NEW w \in Workers, Mismatch(w) PROVE GuiTypes'
  BY <1>1, <1>Mismatch DEF Mismatch, Goto
<1>UnlinkMismatch. ASSUME NEW w \in Workers, UnlinkMismatch(w) PROVE GuiTypes'
  BY <1>1, <1>UnlinkMismatch DEF UnlinkMismatch, Unlink, AfterFailure, Goto
<1>DialFails. ASSUME NEW w \in Workers, DialFails(w) PROVE GuiTypes'
  BY <1>1, <1>DialFails DEF DialFails, AfterFailure, Goto
<1>CheckConnected. ASSUME NEW w \in Workers, CheckConnected(w) PROVE GuiTypes'
  BY <1>1, <1>CheckConnected DEF CheckConnected, Goto
<1>Send. ASSUME NEW w \in Workers, Send(w) PROVE GuiTypes'
  BY <1>1, <1>Send DEF Send, Goto
<1>Sent. ASSUME NEW w \in Workers, Sent(w) PROVE GuiTypes'
  BY <1>1, <1>Sent DEF Sent, Goto
<1>Invalidate. ASSUME NEW w \in Workers, Invalidate(w) PROVE GuiTypes'
  BY <1>1, <1>Invalidate DEF Invalidate, SetAlive, Goto
<1>CacheExpires. ASSUME CacheExpires PROVE GuiTypes'
  BY <1>1, <1>CacheExpires DEF CacheExpires
<1>PeerDrops. ASSUME NEW h \in Handles, PeerDrops(h) PROVE GuiTypes'
  BY <1>1, <1>PeerDrops DEF PeerDrops
<1>Stutter. ASSUME UNCHANGED vars PROVE GuiTypes'
  BY <1>1, <1>Stutter DEF vars
<1> QED
  BY <1>1, <1>Ask, <1>EndSession, <1>Select, <1>AliveFromCache, <1>AliveFromSession, <1>StoreAlive,
     <1>Disconnect, <1>NoteClosed, <1>Refuse, <1>Dial, <1>Link, <1>MarkConnected,
     <1>Mismatch, <1>UnlinkMismatch, <1>DialFails, <1>CheckConnected, <1>Send, <1>Sent,
     <1>Invalidate, <1>CacheExpires, <1>PeerDrops,
     <1>Stutter DEF Next, GuiStep, ConnectStep, CommandStep

(* ... and those of the workers. *)
LEMMA WorkerTypesStep == TypeOK /\ TriesLeft /\ [Next]_vars => WorkerTypes'
<1>1. SUFFICES ASSUME TypeOK /\ TriesLeft, [Next]_vars PROVE WorkerTypes'
  OBVIOUS
<1>2. USE ConnectionAssumption DEF Handles, NoConn, TypeOK, SessionTypes, WorkerTypes, TriesLeft,
           session, alive, guiVars, workerVars, history
<1>Ask. ASSUME Ask PROVE WorkerTypes'
  BY <1>1, <1>Ask DEF Ask, Request
<1>EndSession. ASSUME EndSession PROVE WorkerTypes'
  BY <1>1, <1>EndSession DEF EndSession, Request
<1>Select. ASSUME NEW d \in Devices, Select(d) PROVE WorkerTypes'
  BY <1>1, <1>Select DEF Select, Request
<1>AliveFromCache. ASSUME AliveFromCache PROVE WorkerTypes'
  <2>1. /\ UNCHANGED workerVars \/ Spawn("starting") \/ Spawn("command")
        /\ UNCHANGED <<target, conn, handle, made, lock, replaced>>
    BY <1>1, <1>AliveFromCache, AnswerSpawns DEF AliveFromCache, TypeOK, GuiTypes
  <2>2. UNCHANGED workerVars => WorkerTypes'
    BY <1>1, <2>1
  <2>3. Spawn("starting") \/ Spawn("command") => WorkerTypes'
    BY <1>1, <2>1, SpawnStarts
  <2> QED
    BY <2>1, <2>2, <2>3
<1>AliveFromSession. ASSUME AliveFromSession PROVE WorkerTypes'
  BY <1>1, <1>AliveFromSession DEF AliveFromSession, IsConnected
<1>StoreAlive. ASSUME StoreAlive PROVE WorkerTypes'
  <2>1. /\ UNCHANGED workerVars \/ Spawn("starting") \/ Spawn("command")
        /\ UNCHANGED <<target, conn, handle, made, lock, replaced>>
    BY <1>1, <1>StoreAlive, AnswerSpawns DEF StoreAlive, TypeOK, GuiTypes
  <2>2. UNCHANGED workerVars => WorkerTypes'
    BY <1>1, <2>1
  <2>3. Spawn("starting") \/ Spawn("command") => WorkerTypes'
    BY <1>1, <2>1, SpawnStarts
  <2> QED
    BY <2>1, <2>2, <2>3
<1>Disconnect. ASSUME Disconnect PROVE WorkerTypes'
  BY <1>1, <1>Disconnect DEF Disconnect, Unlink
<1>NoteClosed. ASSUME NoteClosed PROVE WorkerTypes'
  <2>1. /\ UNCHANGED workerVars \/ Spawn("starting")
        /\ UNCHANGED <<target, conn, handle, made, lock, replaced>>
    BY <1>NoteClosed DEF NoteClosed
  <2>2. UNCHANGED workerVars => WorkerTypes'
    BY <1>1, <2>1
  <2>3. Spawn("starting") => WorkerTypes'
    BY <1>1, <2>1, SpawnStarts
  <2> QED
    BY <2>1, <2>2, <2>3
<1>Refuse. ASSUME NEW w \in Workers, Refuse(w) PROVE WorkerTypes'
  BY <1>1, <1>Refuse DEF Refuse, Goto
<1>Dial. ASSUME NEW w \in Workers, Dial(w) PROVE WorkerTypes'
  BY <1>1, <1>Dial DEF Dial, Goto
<1>Link. ASSUME NEW w \in Workers, Link(w) PROVE WorkerTypes'
  BY <1>1, <1>Link DEF Link, Goto
<1>MarkConnected. ASSUME NEW w \in Workers, MarkConnected(w) PROVE WorkerTypes'
  BY <1>1, <1>MarkConnected DEF MarkConnected, SetAlive, Goto
<1>Mismatch. ASSUME NEW w \in Workers, Mismatch(w) PROVE WorkerTypes'
  BY <1>1, <1>Mismatch DEF Mismatch, Goto
<1>UnlinkMismatch. ASSUME NEW w \in Workers, UnlinkMismatch(w) PROVE WorkerTypes'
  BY <1>1, <1>UnlinkMismatch DEF UnlinkMismatch, Unlink, AfterFailure, Goto
<1>DialFails. ASSUME NEW w \in Workers, DialFails(w) PROVE WorkerTypes'
  BY <1>1, <1>DialFails DEF DialFails, AfterFailure, Goto
<1>CheckConnected. ASSUME NEW w \in Workers, CheckConnected(w) PROVE WorkerTypes'
  BY <1>1, <1>CheckConnected DEF CheckConnected, Goto
<1>Send. ASSUME NEW w \in Workers, Send(w) PROVE WorkerTypes'
  BY <1>1, <1>Send DEF Send, Goto
<1>Sent. ASSUME NEW w \in Workers, Sent(w) PROVE WorkerTypes'
  BY <1>1, <1>Sent DEF Sent, Goto
<1>Invalidate. ASSUME NEW w \in Workers, Invalidate(w) PROVE WorkerTypes'
  BY <1>1, <1>Invalidate DEF Invalidate, SetAlive, Goto
<1>CacheExpires. ASSUME CacheExpires PROVE WorkerTypes'
  BY <1>1, <1>CacheExpires DEF CacheExpires
<1>PeerDrops. ASSUME NEW h \in Handles, PeerDrops(h) PROVE WorkerTypes'
  BY <1>1, <1>PeerDrops DEF PeerDrops
<1>Stutter. ASSUME UNCHANGED vars PROVE WorkerTypes'
  BY <1>1, <1>Stutter DEF vars
<1> QED
  BY <1>1, <1>Ask, <1>EndSession, <1>Select, <1>AliveFromCache, <1>AliveFromSession, <1>StoreAlive,
     <1>Disconnect, <1>NoteClosed, <1>Refuse, <1>Dial, <1>Link, <1>MarkConnected,
     <1>Mismatch, <1>UnlinkMismatch, <1>DialFails, <1>CheckConnected, <1>Send, <1>Sent,
     <1>Invalidate, <1>CacheExpires, <1>PeerDrops,
     <1>Stutter DEF Next, GuiStep, ConnectStep, CommandStep

(* connect() tries again only while it has attempts left. *)
LEMMA TriesStep == TypeOK /\ TriesLeft /\ [Next]_vars => TriesLeft'
<1>1. SUFFICES ASSUME TypeOK /\ TriesLeft, [Next]_vars PROVE TriesLeft'
  OBVIOUS
<1>2. USE ConnectionAssumption DEF Handles, NoConn, TypeOK, WorkerTypes, TriesLeft,
           session, alive, guiVars, workerVars, history
<1>Ask. ASSUME Ask PROVE TriesLeft'
  BY <1>1, <1>Ask DEF Ask, Request
<1>EndSession. ASSUME EndSession PROVE TriesLeft'
  BY <1>1, <1>EndSession DEF EndSession, Request
<1>Select. ASSUME NEW d \in Devices, Select(d) PROVE TriesLeft'
  BY <1>1, <1>Select DEF Select, Request
<1>AliveFromCache. ASSUME AliveFromCache PROVE TriesLeft'
  <2>1. /\ UNCHANGED workerVars \/ Spawn("starting") \/ Spawn("command")
        /\ UNCHANGED <<target, conn, handle, made, lock, replaced>>
    BY <1>1, <1>AliveFromCache, AnswerSpawns DEF AliveFromCache, TypeOK, GuiTypes
  <2>2. UNCHANGED workerVars => TriesLeft'
    BY <1>1, <2>1
  <2>3. Spawn("starting") \/ Spawn("command") => TriesLeft'
    BY <1>1, <2>1, SpawnStarts
  <2> QED
    BY <2>1, <2>2, <2>3
<1>AliveFromSession. ASSUME AliveFromSession PROVE TriesLeft'
  BY <1>1, <1>AliveFromSession DEF AliveFromSession, IsConnected
<1>StoreAlive. ASSUME StoreAlive PROVE TriesLeft'
  <2>1. /\ UNCHANGED workerVars \/ Spawn("starting") \/ Spawn("command")
        /\ UNCHANGED <<target, conn, handle, made, lock, replaced>>
    BY <1>1, <1>StoreAlive, AnswerSpawns DEF StoreAlive, TypeOK, GuiTypes
  <2>2. UNCHANGED workerVars => TriesLeft'
    BY <1>1, <2>1
  <2>3. Spawn("starting") \/ Spawn("command") => TriesLeft'
    BY <1>1, <2>1, SpawnStarts
  <2> QED
    BY <2>1, <2>2, <2>3
<1>Disconnect. ASSUME Disconnect PROVE TriesLeft'
  BY <1>1, <1>Disconnect DEF Disconnect, Unlink
<1>NoteClosed. ASSUME NoteClosed PROVE TriesLeft'
  <2>1. /\ UNCHANGED workerVars \/ Spawn("starting")
        /\ UNCHANGED <<target, conn, handle, made, lock, replaced>>
    BY <1>NoteClosed DEF NoteClosed
  <2>2. UNCHANGED workerVars => TriesLeft'
    BY <1>1, <2>1
  <2>3. Spawn("starting") => TriesLeft'
    BY <1>1, <2>1, SpawnStarts
  <2> QED
    BY <2>1, <2>2, <2>3
<1>Refuse. ASSUME NEW w \in Workers, Refuse(w) PROVE TriesLeft'
  BY <1>1, <1>Refuse DEF Refuse, Goto
<1>Dial. ASSUME NEW w \in Workers, Dial(w) PROVE TriesLeft'
  BY <1>1, <1>Dial DEF Dial, Goto
<1>Link. ASSUME NEW w \in Workers, Link(w) PROVE TriesLeft'
  BY <1>1, <1>Link DEF Link, Goto
<1>MarkConnected. ASSUME NEW w \in Workers, MarkConnected(w) PROVE TriesLeft'
  BY <1>1, <1>MarkConnected DEF MarkConnected, SetAlive, Goto
<1>Mismatch. ASSUME NEW w \in Workers, Mismatch(w) PROVE TriesLeft'
  BY <1>1, <1>Mismatch DEF Mismatch, Goto
<1>UnlinkMismatch. ASSUME NEW w \in Workers, UnlinkMismatch(w) PROVE TriesLeft'
  BY <1>1, <1>UnlinkMismatch DEF UnlinkMismatch, Unlink, AfterFailure, Goto
<1>DialFails. ASSUME NEW w \in Workers, DialFails(w) PROVE TriesLeft'
  BY <1>1, <1>DialFails DEF DialFails, AfterFailure, Goto
<1>CheckConnected. ASSUME NEW w \in Workers, CheckConnected(w) PROVE TriesLeft'
  BY <1>1, <1>CheckConnected DEF CheckConnected, Goto
<1>Send. ASSUME NEW w \in Workers, Send(w) PROVE TriesLeft'
  BY <1>1, <1>Send DEF Send, Goto
<1>Sent. ASSUME NEW w \in Workers, Sent(w) PROVE TriesLeft'
  BY <1>1, <1>Sent DEF Sent, Goto
<1>Invalidate. ASSUME NEW w \in Workers, Invalidate(w) PROVE TriesLeft'
  BY <1>1, <1>Invalidate DEF Invalidate, SetAlive, Goto
<1>CacheExpires. ASSUME CacheExpires PROVE TriesLeft'
  BY <1>1, <1>CacheExpires DEF CacheExpires
<1>PeerDrops. ASSUME NEW h \in Handles, PeerDrops(h) PROVE TriesLeft'
  BY <1>1, <1>PeerDrops DEF PeerDrops
<1>Stutter. ASSUME UNCHANGED vars PROVE TriesLeft'
  BY <1>1, <1>Stutter DEF vars
<1> QED
  BY <1>1, <1>Ask, <1>EndSession, <1>Select, <1>AliveFromCache, <1>AliveFromSession, <1>StoreAlive,
     <1>Disconnect, <1>NoteClosed, <1>Refuse, <1>Dial, <1>Link, <1>MarkConnected,
     <1>Mismatch, <1>UnlinkMismatch, <1>DialFails, <1>CheckConnected, <1>Send, <1>Sent,
     <1>Invalidate, <1>CacheExpires, <1>PeerDrops,
     <1>Stutter DEF Next, GuiStep, ConnectStep, CommandStep

(* The lock changes hands only between workers that send: taking it needs it
   free, and who gives it back stops sending. *)
LEMMA LockStep == TypeOK /\ TriesLeft /\ LockHeld /\ [Next]_vars => LockHeld'
<1>1. SUFFICES ASSUME TypeOK /\ TriesLeft /\ LockHeld, [Next]_vars PROVE LockHeld'
  OBVIOUS
<1>2. USE ConnectionAssumption DEF Handles, NoConn, TypeOK, SessionTypes, WorkerTypes, LockHeld,
           session, alive, guiVars, workerVars, history
<1>Ask. ASSUME Ask PROVE LockHeld'
  BY <1>1, <1>Ask DEF Ask, Request
<1>EndSession. ASSUME EndSession PROVE LockHeld'
  BY <1>1, <1>EndSession DEF EndSession, Request
<1>Select. ASSUME NEW d \in Devices, Select(d) PROVE LockHeld'
  BY <1>1, <1>Select DEF Select, Request
<1>AliveFromCache. ASSUME AliveFromCache PROVE LockHeld'
  <2>1. /\ UNCHANGED workerVars \/ Spawn("starting") \/ Spawn("command")
        /\ UNCHANGED <<target, conn, handle, made, lock, replaced>>
    BY <1>1, <1>AliveFromCache, AnswerSpawns DEF AliveFromCache, TypeOK, GuiTypes
  <2>2. UNCHANGED workerVars => LockHeld'
    BY <1>1, <2>1
  <2>3. Spawn("starting") \/ Spawn("command") => LockHeld'
    BY <1>1, <2>1, SpawnStarts
  <2> QED
    BY <2>1, <2>2, <2>3
<1>AliveFromSession. ASSUME AliveFromSession PROVE LockHeld'
  BY <1>1, <1>AliveFromSession DEF AliveFromSession, IsConnected
<1>StoreAlive. ASSUME StoreAlive PROVE LockHeld'
  <2>1. /\ UNCHANGED workerVars \/ Spawn("starting") \/ Spawn("command")
        /\ UNCHANGED <<target, conn, handle, made, lock, replaced>>
    BY <1>1, <1>StoreAlive, AnswerSpawns DEF StoreAlive, TypeOK, GuiTypes
  <2>2. UNCHANGED workerVars => LockHeld'
    BY <1>1, <2>1
  <2>3. Spawn("starting") \/ Spawn("command") => LockHeld'
    BY <1>1, <2>1, SpawnStarts
  <2> QED
    BY <2>1, <2>2, <2>3
<1>Disconnect. ASSUME Disconnect PROVE LockHeld'
  BY <1>1, <1>Disconnect DEF Disconnect, Unlink
<1>NoteClosed. ASSUME NoteClosed PROVE LockHeld'
  <2>1. /\ UNCHANGED workerVars \/ Spawn("starting")
        /\ UNCHANGED <<target, conn, handle, made, lock, replaced>>
    BY <1>NoteClosed DEF NoteClosed
  <2>2. UNCHANGED workerVars => LockHeld'
    BY <1>1, <2>1
  <2>3. Spawn("starting") => LockHeld'
    BY <1>1, <2>1, SpawnStarts
  <2> QED
    BY <2>1, <2>2, <2>3
<1>Refuse. ASSUME NEW w \in Workers, Refuse(w) PROVE LockHeld'
  BY <1>1, <1>Refuse DEF Refuse, Goto
<1>Dial. ASSUME NEW w \in Workers, Dial(w) PROVE LockHeld'
  BY <1>1, <1>Dial DEF Dial, Goto
<1>Link. ASSUME NEW w \in Workers, Link(w) PROVE LockHeld'
  BY <1>1, <1>Link DEF Link, Goto
<1>MarkConnected. ASSUME NEW w \in Workers, MarkConnected(w) PROVE LockHeld'
  BY <1>1, <1>MarkConnected DEF MarkConnected, SetAlive, Goto
<1>Mismatch. ASSUME NEW w \in Workers, Mismatch(w) PROVE LockHeld'
  BY <1>1, <1>Mismatch DEF Mismatch, Goto
<1>UnlinkMismatch. ASSUME NEW w \in Workers, UnlinkMismatch(w) PROVE LockHeld'
  BY <1>1, <1>UnlinkMismatch DEF UnlinkMismatch, Unlink, AfterFailure, Goto
<1>DialFails. ASSUME NEW w \in Workers, DialFails(w) PROVE LockHeld'
  BY <1>1, <1>DialFails DEF DialFails, AfterFailure, Goto
<1>CheckConnected. ASSUME NEW w \in Workers, CheckConnected(w) PROVE LockHeld'
  BY <1>1, <1>CheckConnected DEF CheckConnected, Goto
<1>Send. ASSUME NEW w \in Workers, Send(w) PROVE LockHeld'
  BY <1>1, <1>Send DEF Send, Goto
<1>Sent. ASSUME NEW w \in Workers, Sent(w) PROVE LockHeld'
  BY <1>1, <1>Sent DEF Sent, Goto
<1>Invalidate. ASSUME NEW w \in Workers, Invalidate(w) PROVE LockHeld'
  BY <1>1, <1>Invalidate DEF Invalidate, SetAlive, Goto
<1>CacheExpires. ASSUME CacheExpires PROVE LockHeld'
  BY <1>1, <1>CacheExpires DEF CacheExpires
<1>PeerDrops. ASSUME NEW h \in Handles, PeerDrops(h) PROVE LockHeld'
  BY <1>1, <1>PeerDrops DEF PeerDrops
<1>Stutter. ASSUME UNCHANGED vars PROVE LockHeld'
  BY <1>1, <1>Stutter DEF vars
<1> QED
  BY <1>1, <1>Ask, <1>EndSession, <1>Select, <1>AliveFromCache, <1>AliveFromSession, <1>StoreAlive,
     <1>Disconnect, <1>NoteClosed, <1>Refuse, <1>Dial, <1>Link, <1>MarkConnected,
     <1>Mismatch, <1>UnlinkMismatch, <1>DialFails, <1>CheckConnected, <1>Send, <1>Sent,
     <1>Invalidate, <1>CacheExpires, <1>PeerDrops,
     <1>Stutter DEF Next, GuiStep, ConnectStep, CommandStep

(* A handle is closed under the lock, when nobody sends, and leaves the session
   in the same step. *)
LEMMA HandleStep == TypeOK /\ TriesLeft /\ LockHeld /\ LiveHandles /\ [Next]_vars => LiveHandles'
<1>1. SUFFICES ASSUME TypeOK /\ TriesLeft /\ LockHeld /\ LiveHandles, [Next]_vars PROVE LiveHandles'
  OBVIOUS
<1>2. USE ConnectionAssumption DEF Handles, NoConn, TypeOK, SessionTypes, WorkerTypes, LockHeld, LiveHandles,
           session, alive, guiVars, workerVars, history
<1>Ask. ASSUME Ask PROVE LiveHandles'
  BY <1>1, <1>Ask DEF Ask, Request
<1>EndSession. ASSUME EndSession PROVE LiveHandles'
  BY <1>1, <1>EndSession DEF EndSession, Request
<1>Select. ASSUME NEW d \in Devices, Select(d) PROVE LiveHandles'
  BY <1>1, <1>Select DEF Select, Request
<1>AliveFromCache. ASSUME AliveFromCache PROVE LiveHandles'
  <2>1. /\ UNCHANGED workerVars \/ Spawn("starting") \/ Spawn("command")
        /\ UNCHANGED <<target, conn, handle, made, lock, replaced>>
    BY <1>1, <1>AliveFromCache, AnswerSpawns DEF AliveFromCache, TypeOK, GuiTypes
  <2>2. UNCHANGED workerVars => LiveHandles'
    BY <1>1, <2>1
  <2>3. Spawn("starting") \/ Spawn("command") => LiveHandles'
    BY <1>1, <2>1, SpawnStarts
  <2> QED
    BY <2>1, <2>2, <2>3
<1>AliveFromSession. ASSUME AliveFromSession PROVE LiveHandles'
  BY <1>1, <1>AliveFromSession DEF AliveFromSession, IsConnected
<1>StoreAlive. ASSUME StoreAlive PROVE LiveHandles'
  <2>1. /\ UNCHANGED workerVars \/ Spawn("starting") \/ Spawn("command")
        /\ UNCHANGED <<target, conn, handle, made, lock, replaced>>
    BY <1>1, <1>StoreAlive, AnswerSpawns DEF StoreAlive, TypeOK, GuiTypes
  <2>2. UNCHANGED workerVars => LiveHandles'
    BY <1>1, <2>1
  <2>3. Spawn("starting") \/ Spawn("command") => LiveHandles'
    BY <1>1, <2>1, SpawnStarts
  <2> QED
    BY <2>1, <2>2, <2>3
<1>Disconnect. ASSUME Disconnect PROVE LiveHandles'
  BY <1>1, <1>Disconnect DEF Disconnect, Unlink
<1>NoteClosed. ASSUME NoteClosed PROVE LiveHandles'
  <2>1. /\ UNCHANGED workerVars \/ Spawn("starting")
        /\ UNCHANGED <<target, conn, handle, made, lock, replaced>>
    BY <1>NoteClosed DEF NoteClosed
  <2>2. UNCHANGED workerVars => LiveHandles'
    BY <1>1, <2>1
  <2>3. Spawn("starting") => LiveHandles'
    BY <1>1, <2>1, SpawnStarts
  <2> QED
    BY <2>1, <2>2, <2>3
<1>Refuse. ASSUME NEW w \in Workers, Refuse(w) PROVE LiveHandles'
  BY <1>1, <1>Refuse DEF Refuse, Goto
<1>Dial. ASSUME NEW w \in Workers, Dial(w) PROVE LiveHandles'
  BY <1>1, <1>Dial DEF Dial, Goto
<1>Link. ASSUME NEW w \in Workers, Link(w) PROVE LiveHandles'
  BY <1>1, <1>Link DEF Link, Goto
<1>MarkConnected. ASSUME NEW w \in Workers, MarkConnected(w) PROVE LiveHandles'
  BY <1>1, <1>MarkConnected DEF MarkConnected, SetAlive, Goto
<1>Mismatch. ASSUME NEW w \in Workers, Mismatch(w) PROVE LiveHandles'
  BY <1>1, <1>Mismatch DEF Mismatch, Goto
<1>UnlinkMismatch. ASSUME NEW w \in Workers, UnlinkMismatch(w) PROVE LiveHandles'
  BY <1>1, <1>UnlinkMismatch DEF UnlinkMismatch, Unlink, AfterFailure, Goto
<1>DialFails. ASSUME NEW w \in Workers, DialFails(w) PROVE LiveHandles'
  BY <1>1, <1>DialFails DEF DialFails, AfterFailure, Goto
<1>CheckConnected. ASSUME NEW w \in Workers, CheckConnected(w) PROVE LiveHandles'
  BY <1>1, <1>CheckConnected DEF CheckConnected, Goto
<1>Send. ASSUME NEW w \in Workers, Send(w) PROVE LiveHandles'
  BY <1>1, <1>Send DEF Send, Goto
<1>Sent. ASSUME NEW w \in Workers, Sent(w) PROVE LiveHandles'
  BY <1>1, <1>Sent DEF Sent, Goto
<1>Invalidate. ASSUME NEW w \in Workers, Invalidate(w) PROVE LiveHandles'
  BY <1>1, <1>Invalidate DEF Invalidate, SetAlive, Goto
<1>CacheExpires. ASSUME CacheExpires PROVE LiveHandles'
  BY <1>1, <1>CacheExpires DEF CacheExpires
<1>PeerDrops. ASSUME NEW h \in Handles, PeerDrops(h) PROVE LiveHandles'
  BY <1>1, <1>PeerDrops DEF PeerDrops
<1>Stutter. ASSUME UNCHANGED vars PROVE LiveHandles'
  BY <1>1, <1>Stutter DEF vars
<1> QED
  BY <1>1, <1>Ask, <1>EndSession, <1>Select, <1>AliveFromCache, <1>AliveFromSession, <1>StoreAlive,
     <1>Disconnect, <1>NoteClosed, <1>Refuse, <1>Dial, <1>Link, <1>MarkConnected,
     <1>Mismatch, <1>UnlinkMismatch, <1>DialFails, <1>CheckConnected, <1>Send, <1>Sent,
     <1>Invalidate, <1>CacheExpires, <1>PeerDrops,
     <1>Stutter DEF Next, GuiStep, ConnectStep, CommandStep

(* An open handle leaves the session by being closed or by being replaced. *)
LEMMA LeakStep == TypeOK /\ OnlyReplacedLeak /\ [Next]_vars => OnlyReplacedLeak'
<1>1. SUFFICES ASSUME TypeOK /\ OnlyReplacedLeak, [Next]_vars PROVE OnlyReplacedLeak'
  OBVIOUS
<1>2. USE ConnectionAssumption DEF Handles, NoConn, TypeOK, SessionTypes, OnlyReplacedLeak,
           session, alive, guiVars, workerVars, history
<1>Ask. ASSUME Ask PROVE OnlyReplacedLeak'
  BY <1>1, <1>Ask DEF Ask, Request
<1>EndSession. ASSUME EndSession PROVE OnlyReplacedLeak'
  BY <1>1, <1>EndSession DEF EndSession, Request
<1>Select. ASSUME NEW d \in Devices, Select(d) PROVE OnlyReplacedLeak'
  BY <1>1, <1>Select DEF Select, Request
<1>AliveFromCache. ASSUME AliveFromCache PROVE OnlyReplacedLeak'
  <2>1. UNCHANGED <<target, conn, handle, made, lock, replaced>>
    BY <1>1, <1>AliveFromCache, AnswerSpawns DEF AliveFromCache, TypeOK, GuiTypes
  <2> QED
    BY <1>1, <2>1
<1>AliveFromSession. ASSUME AliveFromSession PROVE OnlyReplacedLeak'
  BY <1>1, <1>AliveFromSession DEF AliveFromSession, IsConnected
<1>StoreAlive. ASSUME StoreAlive PROVE OnlyReplacedLeak'
  <2>1. UNCHANGED <<target, conn, handle, made, lock, replaced>>
    BY <1>1, <1>StoreAlive, AnswerSpawns DEF StoreAlive, TypeOK, GuiTypes
  <2> QED
    BY <1>1, <2>1
<1>Disconnect. ASSUME Disconnect PROVE OnlyReplacedLeak'
  BY <1>1, <1>Disconnect DEF Disconnect, Unlink
<1>NoteClosed. ASSUME NoteClosed PROVE OnlyReplacedLeak'
  BY <1>1, <1>NoteClosed DEF NoteClosed, SetAlive, Spawn, Goto
<1>Refuse. ASSUME NEW w \in Workers, Refuse(w) PROVE OnlyReplacedLeak'
  BY <1>1, <1>Refuse DEF Refuse, Goto
<1>Dial. ASSUME NEW w \in Workers, Dial(w) PROVE OnlyReplacedLeak'
  BY <1>1, <1>Dial DEF Dial, Goto
<1>Link. ASSUME NEW w \in Workers, Link(w) PROVE OnlyReplacedLeak'
  BY <1>1, <1>Link DEF Link, Goto
<1>MarkConnected. ASSUME NEW w \in Workers, MarkConnected(w) PROVE OnlyReplacedLeak'
  BY <1>1, <1>MarkConnected DEF MarkConnected, SetAlive, Goto
<1>Mismatch. ASSUME NEW w \in Workers, Mismatch(w) PROVE OnlyReplacedLeak'
  BY <1>1, <1>Mismatch DEF Mismatch, Goto
<1>UnlinkMismatch. ASSUME NEW w \in Workers, UnlinkMismatch(w) PROVE OnlyReplacedLeak'
  BY <1>1, <1>UnlinkMismatch DEF UnlinkMismatch, Unlink, AfterFailure, Goto
<1>DialFails. ASSUME NEW w \in Workers, DialFails(w) PROVE OnlyReplacedLeak'
  BY <1>1, <1>DialFails DEF DialFails, AfterFailure, Goto
<1>CheckConnected. ASSUME NEW w \in Workers, CheckConnected(w) PROVE OnlyReplacedLeak'
  BY <1>1, <1>CheckConnected DEF CheckConnected, Goto
<1>Send. ASSUME NEW w \in Workers, Send(w) PROVE OnlyReplacedLeak'
  BY <1>1, <1>Send DEF Send, Goto
<1>Sent. ASSUME NEW w \in Workers, Sent(w) PROVE OnlyReplacedLeak'
  BY <1>1, <1>Sent DEF Sent, Goto
<1>Invalidate. ASSUME NEW w \in Workers, Invalidate(w) PROVE OnlyReplacedLeak'
  BY <1>1, <1>Invalidate DEF Invalidate, SetAlive, Goto
<1>CacheExpires. ASSUME CacheExpires PROVE OnlyReplacedLeak'
  BY <1>1, <1>CacheExpires DEF CacheExpires
<1>PeerDrops. ASSUME NEW h \in Handles, PeerDrops(h) PROVE OnlyReplacedLeak'
  BY <1>1, <1>PeerDrops DEF PeerDrops
<1>Stutter. ASSUME UNCHANGED vars PROVE OnlyReplacedLeak'
  BY <1>1, <1>Stutter DEF vars
<1> QED
  BY <1>1, <1>Ask, <1>EndSession, <1>Select, <1>AliveFromCache, <1>AliveFromSession, <1>StoreAlive,
     <1>Disconnect, <1>NoteClosed, <1>Refuse, <1>Dial, <1>Link, <1>MarkConnected,
     <1>Mismatch, <1>UnlinkMismatch, <1>DialFails, <1>CheckConnected, <1>Send, <1>Sent,
     <1>Invalidate, <1>CacheExpires, <1>PeerDrops,
     <1>Stutter DEF Next, GuiStep, ConnectStep, CommandStep

(* A new session has no connection and its lock is free. *)
LEMMA InitInv == Init => ConnectionInv
<1> SUFFICES ASSUME Init PROVE ConnectionInv
  OBVIOUS
<1> USE ConnectionAssumption DEF Init, Handles, NoConn
<1>1. SessionTypes
  <2>1. /\ target \in Devices \cup {NoDevice} /\ conn \in Handles \cup {NoConn}
        /\ lock \in Workers \cup {NoWorker} /\ replaced \in SUBSET Handles
    OBVIOUS
  <2>2. handle \in [Handles -> {"none", "open", "lost", "closed"}] /\ made \in 0 .. MaxHandles
    OBVIOUS
  <2>3. closing \in BOOLEAN
    OBVIOUS
  <2> QED
    BY <2>1, <2>2, <2>3 DEF SessionTypes
<1>2. GuiTypes
  BY DEF GuiTypes
<1>3. WorkerTypes
  BY DEF WorkerTypes
<1>4. TriesLeft /\ LockHeld /\ LiveHandles
  BY DEF TriesLeft, LockHeld, LiveHandles
<1>5. OnlyReplacedLeak
  BY DEF OnlyReplacedLeak
<1> QED
  BY <1>1, <1>2, <1>3, <1>4, <1>5 DEF ConnectionInv, TypeOK

(* ConnectionInv is inductive. *)
THEOREM Invariance == Spec => []ConnectionInv
<1>1. ConnectionInv /\ [Next]_vars => ConnectionInv'
  BY SessionTypesStep, GuiTypesStep, WorkerTypesStep, TriesStep, LockStep, HandleStep, LeakStep
     DEF ConnectionInv, TypeOK
<1> QED
  BY InitInv, <1>1, PTL DEF Spec

(* Every variable of the connection keeps its type. *)
THEOREM TypeCorrect == Spec => []TypeOK
<1>1. ConnectionInv => TypeOK
  BY DEF ConnectionInv
<1> QED
  BY Invariance, <1>1, PTL

(* No command is cut off by a logout, a reconnection or a failed host key check *)
(* of the program itself: closing takes the lock that sending holds.            *)
THEOREM CommandsNotCutOff == Spec => []NeverCutOff
<1>1. ConnectionInv => NeverCutOff
  BY DEF ConnectionInv, LiveHandles, NeverCutOff
<1> QED
  BY Invariance, <1>1, PTL

(* Connections leak in one way only: connect() while the session has one. *)
THEOREM LeaksAreReplaced == Spec => []OnlyReplacedLeak
<1>1. ConnectionInv => OnlyReplacedLeak
  BY DEF ConnectionInv
<1> QED
  BY Invariance, <1>1, PTL

(* A handle that is not made yet has no state. *)
LEMMA InOrderStep == ConnectionInv /\ InOrder /\ [Next]_vars => InOrder'
<1> SUFFICES ASSUME ConnectionInv, InOrder, [Next]_vars PROVE InOrder'
  OBVIOUS
<1> USE ConnectionAssumption DEF Handles, NoConn, InOrder
<1>1. made \in Nat /\ handle \in [Handles -> {"none", "open", "lost", "closed"}]
  BY DEF ConnectionInv, TypeOK, SessionTypes
<1>2. ASSUME NEW w \in Workers, Link(w) PROVE InOrder'
  BY <1>1, <1>2 DEF Link
<1>3. ASSUME NEW h \in Handles, PeerDrops(h) PROVE InOrder'
  BY <1>1, <1>3 DEF PeerDrops
<1>4. ASSUME Unlink, made' = made PROVE InOrder'
  BY <1>1, <1>4 DEF Unlink, ConnectionInv, LiveHandles
<1>5. ASSUME UNCHANGED <<handle, made>> PROVE InOrder'
  BY <1>1, <1>5
<1>6. ASSUME GuiStep PROVE InOrder'
  BY <1>4, <1>5, <1>6
     DEF GuiStep, AliveFromCache, AliveFromSession, StoreAlive, Disconnect, NoteClosed, Answer, session
<1>7. ASSUME NEW w \in Workers, ConnectStep(w) \/ CommandStep(w) PROVE InOrder'
  BY <1>2, <1>4, <1>5, <1>7
     DEF ConnectStep, Refuse, Dial, MarkConnected, Mismatch, UnlinkMismatch, DialFails,
         CommandStep, CheckConnected, Send, Sent, Invalidate, session
<1>8. ASSUME Ask \/ EndSession \/ (\E d \in Devices : Select(d)) \/ CacheExpires \/ UNCHANGED vars
      PROVE  InOrder'
  BY <1>5, <1>8 DEF Ask, EndSession, Select, CacheExpires, vars, session
<1> QED
  BY <1>3, <1>6, <1>7, <1>8 DEF Next

(* It is so throughout. *)
LEMMA HandlesInOrder == Spec => []InOrder
<1>1. Init => InOrder
  BY DEF Init, InOrder
<1> QED
  BY <1>1, InOrderStep, Invariance, PTL DEF Spec

(* The GUI thread and the workers implement the line: a dial that succeeds    *)
(* installs one, a disconnect or a failed host key check hangs up an idle     *)
(* one, and whatever else they do is invisible to whoever sends a command.    *)
THEOREM ConnectionImplementsLine == Spec => ImplementsLine
<1> USE ConnectionAssumption DEF Handles, NoConn
<1>1. Init => OneLine!Init
  BY DEF Init, OneLine!Init, Sending
<1>2. ConnectionInv /\ InOrder /\ [Next]_vars => [OneLine!Next]_OneLine!lineVars
  <2> SUFFICES ASSUME ConnectionInv, InOrder, [Next]_vars
               PROVE  OneLine!Next \/ UNCHANGED OneLine!lineVars
    OBVIOUS
  <2>1. /\ conn \in Handles \cup {NoConn} /\ made \in 0 .. MaxHandles
        /\ handle \in [Handles -> {"none", "open", "lost", "closed"}]
        /\ used \in [Workers -> Handles \cup {NoConn}]
        /\ lock \in Workers \cup {NoWorker}
    BY DEF ConnectionInv, TypeOK, SessionTypes, WorkerTypes
  <2>2. UNCHANGED <<lock, used>> => Sending' = Sending
    BY DEF Sending
  <2>3. ASSUME NEW w \in Workers, Link(w) PROVE OneLine!Next
    <3>1. made + 1 \in Handles /\ handle[made + 1] = "none"
      BY <2>1, <2>3 DEF Link, InOrder
    <3>2. replaced' = replaced \cup ({conn} \ {NoConn})
      BY <2>3 DEF Link
    <3>3. OneLine!Install(made + 1)
      BY <2>2, <2>3, <3>1, <3>2 DEF OneLine!Install, Link
    <3> QED
      BY <3>1, <3>3 DEF OneLine!Next
  <2>4. ASSUME NEW h \in Handles, PeerDrops(h) PROVE OneLine!Next
    <3>1. OneLine!Drop(h)
      BY <2>2, <2>4 DEF OneLine!Drop, PeerDrops, workerVars, history
    <3> QED
      BY <3>1 DEF OneLine!Next
  <2>5. ASSUME Unlink, UNCHANGED <<lock, used, replaced>>
        PROVE  OneLine!Next \/ UNCHANGED OneLine!lineVars
    <3>1. Sending = NoConn /\ Sending' = Sending
      BY <2>2, <2>5 DEF Unlink, Sending
    <3>2. CASE conn = NoConn
      BY <2>5, <3>1, <3>2 DEF Unlink, OneLine!lineVars
    <3>3. CASE conn # NoConn
      BY <2>5, <3>1, <3>3 DEF Unlink, OneLine!Next, OneLine!HangUp
    <3> QED
      BY <3>2, <3>3
  <2>6. ASSUME UNCHANGED <<handle, conn, lock, used, replaced>>
        PROVE  UNCHANGED OneLine!lineVars
    BY <2>2, <2>6 DEF OneLine!lineVars
  <2>7. ASSUME NEW w \in Workers, Send(w) PROVE OneLine!Next \/ UNCHANGED OneLine!lineVars
    <3>1. CASE conn = NoConn
      BY <2>6, <2>7, <3>1 DEF Send, history
    <3>2. CASE conn # NoConn
      <4>1. Sending = NoConn /\ Sending' = conn
        BY <2>1, <2>7, <3>2 DEF Send, Sending
      <4>2. OneLine!Begin
        BY <2>7, <3>2, <4>1 DEF OneLine!Begin, Send, history
      <4> QED
        BY <4>2 DEF OneLine!Next
    <3> QED
      BY <3>1, <3>2
  <2>8. ASSUME NEW w \in Workers, Sent(w) PROVE OneLine!Next
    <3>1. lock = w /\ used[w] # NoConn /\ w # NoWorker
      BY <2>8 DEF Sent, ConnectionInv, LockHeld, LiveHandles
    <3>2. Sending # NoConn /\ Sending' = NoConn
      BY <2>8, <3>1 DEF Sent, Sending
    <3>3. OneLine!End
      BY <2>8, <3>2 DEF OneLine!End, Sent, history
    <3> QED
      BY <3>3 DEF OneLine!Next
  <2>9. ASSUME GuiStep PROVE OneLine!Next \/ UNCHANGED OneLine!lineVars
    <3>1. CASE Disconnect
      BY <2>5, <3>1 DEF Disconnect, workerVars
    <3>2. CASE AliveFromCache \/ StoreAlive
      <4>1. UNCHANGED <<handle, conn, lock, used, replaced>>
        BY <3>2 DEF AliveFromCache, StoreAlive, Answer, Closes, AsksAgain, Dials, RunsCommand,
                    GivesUp, Spawn, workerVars
      <4> QED
        BY <2>6, <4>1
    <3>3. CASE AliveFromSession
      BY <2>6, <3>3 DEF AliveFromSession, session, workerVars, history
    <3>4. CASE NoteClosed
      <4>1. UNCHANGED <<handle, conn, lock, used, replaced>>
        BY <3>4 DEF NoteClosed, Spawn, session, workerVars
      <4> QED
        BY <2>6, <4>1
    <3> QED
      BY <2>9, <3>1, <3>2, <3>3, <3>4 DEF GuiStep
  <2>10. ASSUME NEW w \in Workers, UnlinkMismatch(w)
         PROVE  OneLine!Next \/ UNCHANGED OneLine!lineVars
    BY <2>5, <2>10 DEF UnlinkMismatch, history
  <2>11. ASSUME NEW w \in Workers,
                \/ Refuse(w) \/ Dial(w) \/ MarkConnected(w) \/ Mismatch(w) \/ DialFails(w)
                \/ CheckConnected(w) \/ Invalidate(w)
         PROVE  UNCHANGED OneLine!lineVars
    BY <2>6, <2>11 DEF Refuse, Dial, MarkConnected, Mismatch, DialFails, CheckConnected,
                       Invalidate, session, history
  <2>12. ASSUME Ask \/ EndSession \/ (\E d \in Devices : Select(d)) \/ CacheExpires \/ UNCHANGED vars
         PROVE  UNCHANGED OneLine!lineVars
    BY <2>6, <2>12 DEF Ask, EndSession, Select, CacheExpires, vars, session, workerVars, history
  <2> QED
    BY <2>3, <2>4, <2>7, <2>8, <2>9, <2>10, <2>11, <2>12 DEF Next, ConnectStep, CommandStep
<1> QED
  BY <1>1, <1>2, Invariance, HandlesInOrder, PTL DEF Spec, ImplementsLine, OneLine!Spec

-----------------------------------------------------------------------------
(***************************************************************************)
(* AuditLog: the chained file and the hash in memory.                      *)
(***************************************************************************)
(* The variables of AuditLog have the types LogTypeOK gives them, whatever the *)
(* writers do and wherever the process stops, torn writes included.         *)
THEOREM LogTypeCorrect == LogSpec => []LogTypeOK
<1>1. LogInit => LogTypeOK
  <2>1. Fragment \in Line
    BY DEF Fragment, Line, NoHash
  <2>2. <<>> \in Seq(Line)
    OBVIOUS
  <2>3. ASSUME LogInit
        PROVE  /\ entry \in [Writers -> Line]
               /\ writerAt \in [Writers -> {"idle", "waiting", "appending", "advancing", "returning"}]
    BY <2>1, <2>3 DEF LogInit
  <2>4. ASSUME LogInit PROVE file \in Seq(Line)
    BY <2>2, <2>4 DEF LogInit
  <2>5. LogInit => openTail \in BOOLEAN /\ up \in BOOLEAN
    BY DEF LogInit
  <2>6. LogInit => lastHash \in Nat /\ nextId \in Nat \ {0} /\ crashes \in Nat
    BY DEF LogInit, NoHash
  <2>7. LogInit => logLock \in Writers \cup {NoWriter} /\ acked \in SUBSET Nat
    BY DEF LogInit
  <2> QED BY <2>3, <2>4, <2>5, <2>6, <2>7 DEF LogTypeOK
<1>2. LogTypeOK /\ [LogNext]_logVars => LogTypeOK'
  <2> SUFFICES ASSUME LogTypeOK, [LogNext]_logVars PROVE LogTypeOK'
    OBVIOUS
  <2> USE DEF LogTypeOK, diskVars
  <2>2. Fragment \in Line
    BY DEF Fragment, Line, NoHash
  <2>1. ASSUME NEW l \in Line PROVE Glue(file, l) \in Seq(Line)
    <3>1. Append(file, l) \in Seq(Line)
      OBVIOUS
    <3>2. [file EXCEPT ![Len(file)] = Fragment] \in Seq(Line)
      <4> DEFINE g == [file EXCEPT ![Len(file)] = Fragment]
      <4>1. file \in [1 .. Len(file) -> Line] /\ Len(file) \in Nat
        OBVIOUS
      <4>2. g \in [1 .. Len(file) -> Line]
        BY <2>2, <4>1
      <4> QED BY <4>1, <4>2
    <3> QED BY <3>1, <3>2 DEF Glue
  <2>3. \A w \in Writers : Interrupted(w) => file' \in Seq(Line) /\ openTail' \in BOOLEAN
    BY <2>1, <2>2 DEF Interrupted
  <2>4. ASSUME NEW w \in Writers, Begin(w) PROVE LogTypeOK'
    BY <2>4 DEF Begin, Line, NoHash
  <2>5. ASSUME NEW w \in Writers, Acquire(w) PROVE LogTypeOK'
    <3>1. [entry[w] EXCEPT !.prev = lastHash] \in Line
      BY DEF Line
    <3> QED BY <2>5, <3>1 DEF Acquire
  <2>6. ASSUME NEW w \in Writers, AppendLine(w) PROVE LogTypeOK'
    BY <2>1, <2>6 DEF AppendLine
  <2>7. ASSUME NEW w \in Writers, AppendFails(w) PROVE LogTypeOK'
    BY <2>2, <2>3, <2>7 DEF AppendFails
  <2>8. ASSUME NEW w \in Writers, Advance(w) PROVE LogTypeOK'
    BY <2>8 DEF Advance, Hash, Line
  <2>9. ASSUME NEW w \in Writers, Return(w) PROVE LogTypeOK'
    BY <2>2, <2>9 DEF Return, Line
  <2>10. CASE Crash
    <3>1. entry' \in [Writers -> Line]
      BY <2>2, <2>10 DEF Crash
    <3>2. file' \in Seq(Line) /\ openTail' \in BOOLEAN
      BY <2>3, <2>10 DEF Crash
    <3>3. writerAt' \in [Writers -> {"idle", "waiting", "appending", "advancing", "returning"}]
      BY <2>10 DEF Crash
    <3>4. lastHash' \in Nat /\ crashes' \in Nat /\ nextId' \in Nat \ {0}
      BY <2>10 DEF Crash, NoHash
    <3> QED BY <2>10, <3>1, <3>2, <3>3, <3>4 DEF Crash
  <2>11. CASE Restart
    <3>1. ASSUME file # <<>> PROVE file[Len(file)].id \in Nat
      <4>1. file[Len(file)] \in Line
        BY <3>1
      <4> QED BY <4>1 DEF Line
    <3>2. TailHash(file) \in Nat
      BY <3>1 DEF TailHash, Hash, NoHash
    <3> QED BY <2>11, <3>2 DEF Restart
  <2>12. CASE UNCHANGED logVars
    BY <2>12 DEF logVars
  <2> QED
    BY <2>4, <2>5, <2>6, <2>7, <2>8, <2>9, <2>10, <2>11, <2>12 DEF LogNext, Step
<1> QED BY <1>1, <1>2, PTL DEF LogSpec

-----------------------------------------------------------------------------
(* What appending one more entry to a linked file keeps: a lemma about the  *)
(* file alone, whatever the threads are doing.                              *)
LEMMA AppendLinked ==
  ASSUME LogTypeOK, Linked, NEW l \in Line,
         l.whole, l.id \in 1 .. nextId - 1, l.prev = TailHash(file),
         \A i \in DOMAIN file : file[i].id # l.id,
         file' = Append(file, l), openTail' = FALSE, nextId' = nextId
  PROVE  /\ Linked'
         /\ file' # <<>>
         /\ TailHash(file') = l.id
         /\ \A i \in DOMAIN file : i \in DOMAIN file' /\ file'[i] = file[i]
<1> USE DEF LogTypeOK
<1>1. /\ Len(file) \in Nat
      /\ DOMAIN file = 1 .. Len(file)
      /\ DOMAIN file' = 1 .. Len(file) + 1
      /\ file'[Len(file) + 1] = l
      /\ Len(file') = Len(file) + 1
      /\ \A i \in 1 .. Len(file) : file'[i] = file[i]
      /\ file' # <<>>
  OBVIOUS
<1>2. l.prev = IF Len(file) + 1 = 1 THEN NoHash ELSE file[Len(file)].id
  <2>1. CASE file = <<>>
    BY <2>1, <1>1 DEF TailHash
  <2>2. CASE file # <<>>
    <3>1. Len(file) \in DOMAIN file /\ Len(file) # 0
      BY <2>2, <1>1
    <3> QED BY <2>2, <3>1 DEF TailHash, Hash, Linked
  <2> QED BY <2>1, <2>2
<1>3. ASSUME NEW i \in DOMAIN file'
      PROVE  /\ file'[i].whole
             /\ file'[i].id \in 1 .. nextId' - 1
             /\ file'[i].prev = IF i = 1 THEN NoHash ELSE file'[i - 1].id
  <2>1. CASE i \in DOMAIN file
    <3>1. i - 1 \in DOMAIN file \/ i = 1
      BY <2>1, <1>1
    <3>2. i # 1 => file'[i - 1] = file[i - 1]
      BY <3>1, <1>1
    <3> QED BY <2>1, <3>2, <1>1 DEF Linked
  <2>2. CASE i = Len(file) + 1
    <3>1. i # 1 => file'[i - 1] = file[Len(file)]
      <4>1. i - 1 = Len(file)
        BY <2>2, <1>1
      <4>2. i # 1 => Len(file) \in 1 .. Len(file)
        BY <2>2, <1>1
      <4> QED BY <4>1, <4>2, <1>1
    <3> QED BY <2>2, <3>1, <1>1, <1>2
  <2> QED BY <1>1, <2>1, <2>2
<1>4. ASSUME NEW i \in DOMAIN file', NEW j \in DOMAIN file', file'[i].id = file'[j].id
      PROVE  i = j
  BY <1>1, <1>4 DEF Linked
<1>5. TailHash(file') = l.id
  BY <1>1 DEF TailHash, Hash
<1> QED BY <1>1, <1>3, <1>4, <1>5 DEF Linked

(* LogInv is inductive when no write is torn. *)
LEMMA LogInvHolds == ASSUME TornWrites = FALSE PROVE LogSpec => []LogInv
<1>1. LogInit => LogInv
  BY AuditAssumption
     DEF LogInit, LogInv, Linked, TailKnown, Fresh, AckedDurable, Holding, Pending,
         TailHash, NoHash
<1>2. LogTypeOK /\ LogInv /\ [LogNext]_logVars => LogInv'
  <2> SUFFICES ASSUME LogTypeOK, LogInv, [LogNext]_logVars PROVE LogInv'
    OBVIOUS
  <2> USE DEF LogInv
  <2>1. ASSUME NEW w \in Writers, Begin(w) PROVE LogInv'
    <3> USE <2>1 DEF Begin, diskVars
    <3>1. nextId \in Nat /\ nextId' = nextId + 1 /\ nextId \in 1 .. nextId' - 1
          /\ nextId' <= MaxEntries + 1
      BY AuditAssumption DEF LogTypeOK
    <3>2. /\ entry'[w].whole
          /\ entry'[w].id = nextId
          /\ \A v \in Writers \ {w} : entry'[v] = entry[v] /\ writerAt'[v] = writerAt[v]
          /\ writerAt'[w] = "waiting"
      BY DEF LogTypeOK
    <3>3. Linked'
      BY <3>1 DEF Linked, LogTypeOK
    <3>4. TailKnown'
      BY <3>2 DEF TailKnown, Holding, TailHash, LogTypeOK
    <3>5. Fresh'
      BY <3>1, <3>2 DEF Fresh, Pending, Linked
    <3> QED BY <3>3, <3>4, <3>5 DEF AckedDurable
  <2>2. ASSUME NEW w \in Writers, Acquire(w) PROVE LogInv'
    <3> USE <2>2 DEF Acquire, diskVars
    <3>1. /\ entry'[w].prev = lastHash
          /\ entry'[w].whole = entry[w].whole
          /\ entry'[w].id = entry[w].id
          /\ writerAt'[w] = "appending"
          /\ \A v \in Writers \ {w} : entry'[v] = entry[v] /\ writerAt'[v] = writerAt[v]
      BY DEF LogTypeOK, Line
    <3>2. \A v \in Writers : ~Holding(v)
      BY AuditAssumption DEF TailKnown
    <3>3. up
      BY DEF Fresh, Pending
    <3>4. lastHash = TailHash(file)
      BY <3>2, <3>3 DEF TailKnown, Holding
    <3>5. Linked'
      BY DEF Linked
    <3>6. TailKnown'
      BY <3>1, <3>2, <3>3, <3>4 DEF TailKnown, Holding, TailHash
    <3>7. Fresh'
      BY <3>1 DEF Fresh, Pending
    <3> QED BY <3>5, <3>6, <3>7 DEF AckedDurable
  <2>3. ASSUME NEW w \in Writers, AppendLine(w) PROVE LogInv'
    <3> USE <2>3 DEF AppendLine
    <3>1. /\ entry[w] \in Line
          /\ entry[w].whole
          /\ entry[w].id \in 1 .. nextId - 1
          /\ entry[w].prev = TailHash(file)
          /\ \A i \in DOMAIN file : file[i].id # entry[w].id
          /\ file' = Append(file, entry[w])
      BY DEF LogTypeOK, Fresh, Pending, TailKnown, Linked, Glue
    <3>2. /\ Linked'
          /\ file' # <<>>
          /\ TailHash(file') = entry[w].id
          /\ \A i \in DOMAIN file : i \in DOMAIN file' /\ file'[i] = file[i]
      BY <3>1, AppendLinked
    <3>3. /\ writerAt'[w] = "advancing"
          /\ \A v \in Writers \ {w} : writerAt'[v] = writerAt[v] /\ ~Holding(v)
          /\ logLock = w /\ up
      BY DEF LogTypeOK, TailKnown, Holding
    <3>4. TailKnown'
      <4>1. \A v \in Writers : Holding(v)' => up' /\ logLock' = v
        BY <3>3 DEF Holding
      <4>2. \A v \in Writers \ {w} : writerAt'[v] \notin {"appending", "advancing", "returning"}
        BY <3>3 DEF Holding
      <4> QED BY <3>2, <3>3, <4>1, <4>2 DEF TailKnown, TailHash
    <3>5. \A i \in DOMAIN file' : i \in DOMAIN file \/ file'[i] = entry[w]
      BY <3>1 DEF LogTypeOK
    <3>6. Fresh'
      BY <3>2, <3>3, <3>5 DEF Fresh, Pending
    <3>7. AckedDurable'
      BY <3>2 DEF AckedDurable
    <3> QED BY <3>2, <3>4, <3>6, <3>7
  <2>4. ASSUME NEW w \in Writers, AppendFails(w) PROVE LogInv'
    <3> USE <2>4 DEF AppendFails
    <3>1. file' = file /\ openTail' = openTail
      BY DEF Interrupted, diskVars
    <3>2. /\ writerAt'[w] = "idle"
          /\ \A v \in Writers \ {w} :
               entry'[v] = entry[v] /\ writerAt'[v] = writerAt[v] /\ ~Holding(v)
          /\ writerAt[w] = "appending"
      BY DEF LogTypeOK, TailKnown, Holding
    <3>3. Linked'
      BY <3>1 DEF Linked
    <3>4. TailKnown'
      BY <3>1, <3>2 DEF TailKnown, Holding, TailHash
    <3>5. Fresh'
      BY <3>1, <3>2 DEF Fresh, Pending
    <3> QED BY <3>1, <3>3, <3>4, <3>5 DEF AckedDurable
  <2>5. ASSUME NEW w \in Writers, Advance(w) PROVE LogInv'
    <3> USE <2>5 DEF Advance, diskVars
    <3>1. /\ writerAt'[w] = "returning"
          /\ \A v \in Writers \ {w} : writerAt'[v] = writerAt[v] /\ ~Holding(v)
          /\ logLock = w /\ up
      BY DEF LogTypeOK, TailKnown, Holding
    <3>2. lastHash' = TailHash(file)
      BY DEF TailKnown, Hash
    <3>3. \E i \in DOMAIN file : file[i].whole /\ file[i].id = entry[w].id
      <4>1. Len(file) \in DOMAIN file
        BY DEF TailKnown, LogTypeOK
      <4> QED BY <4>1 DEF TailKnown, TailHash, Hash, Linked
    <3>4. Linked'
      BY DEF Linked
    <3>5. TailKnown'
      <4>1. \A v \in Writers : Holding(v)' => up' /\ logLock' = v
        BY <3>1 DEF Holding
      <4>2. \A v \in Writers \ {w} : writerAt'[v] \notin {"appending", "advancing", "returning"}
        BY <3>1 DEF Holding
      <4> QED BY <3>1, <3>2, <3>3, <4>1, <4>2 DEF TailKnown, TailHash
    <3>6. Fresh'
      BY <3>1 DEF Fresh, Pending
    <3> QED BY <3>4, <3>5, <3>6 DEF AckedDurable
  <2>6. ASSUME NEW w \in Writers, Return(w) PROVE LogInv'
    <3> USE <2>6 DEF Return, diskVars
    <3>1. /\ writerAt'[w] = "idle"
          /\ \A v \in Writers \ {w} :
               entry'[v] = entry[v] /\ writerAt'[v] = writerAt[v] /\ ~Holding(v)
      BY DEF LogTypeOK, TailKnown, Holding
    <3>2. Linked'
      BY DEF Linked
    <3>3. TailKnown'
      BY <3>1 DEF TailKnown, Holding, TailHash
    <3>4. Fresh'
      BY <3>1 DEF Fresh, Pending
    <3>5. AckedDurable'
      BY DEF AckedDurable, TailKnown
    <3> QED BY <3>2, <3>3, <3>4, <3>5
  <2>7. CASE Crash
    <3> USE <2>7 DEF Crash
    <3>1. file' = file /\ openTail' = openTail
      BY DEF Interrupted, diskVars
    <3>2. \A v \in Writers : writerAt'[v] = "idle"
      OBVIOUS
    <3> QED BY <3>1, <3>2
      DEF Linked, TailKnown, Fresh, AckedDurable, Holding, Pending
  <2>8. CASE Restart
    <3> USE <2>8 DEF Restart, diskVars
    <3>1. \A v \in Writers : ~Holding(v) /\ ~Pending(v)
      BY DEF TailKnown, Fresh
    <3> QED BY <3>1
      DEF Linked, TailKnown, Fresh, AckedDurable, Holding, Pending, TailHash
  <2>9. CASE UNCHANGED logVars
    BY <2>9 DEF logVars, Linked, TailKnown, Fresh, AckedDurable, Holding, Pending, TailHash
  <2> QED
    BY <2>1, <2>2, <2>3, <2>4, <2>5, <2>6, <2>7, <2>8, <2>9 DEF LogNext, Step
<1> QED BY <1>1, <1>2, LogTypeCorrect, PTL DEF LogSpec

(* The invariant the run checks, for any writers and bounds: _last_hash is    *)
(* the hash of the last line but between the write and the assignment, which  *)
(* the lock of _write covers.                                                 *)
THEOREM LogInvariance == ASSUME TornWrites = FALSE PROVE LogSpec => []AuditInv
BY LogTypeCorrect, LogInvHolds, PTL DEF AuditInv

(* verify_chain accepts the log in every state: no interleaving of writers,  *)
(* no write that fails without a trace and no restart makes it report        *)
(* tampering.                                                                *)
THEOREM ChainAlwaysVerifies ==
  ASSUME TornWrites = FALSE PROVE LogSpec => []ChainVerifies
<1>1. LogTypeOK /\ LogInv => ChainVerifies
  <2> SUFFICES ASSUME LogTypeOK, LogInv, NEW j \in DOMAIN file, file[j].whole
               PROVE  \/ /\ \A i \in 1 .. j - 1 : ~file[i].whole
                         /\ file[j].prev = NoHash
                      \/ \E i \in 1 .. j - 1 :
                           /\ file[i].whole
                           /\ \A k \in i + 1 .. j - 1 : ~file[k].whole
                           /\ file[j].prev = Hash(file[i])
    BY DEF ChainVerifies, VerifyChain
  <2>1. j \in Nat \ {0} /\ DOMAIN file = 1 .. Len(file) /\ Len(file) \in Nat
    BY DEF LogTypeOK
  <2>2. CASE j = 1
    BY <2>2 DEF LogInv, Linked
  <2>3. CASE j # 1
    <3>1. j - 1 \in 1 .. j - 1 /\ j - 1 \in DOMAIN file
      BY <2>1, <2>3
    <3>2. \A k \in (j - 1) + 1 .. j - 1 : FALSE
      BY <2>1
    <3>3. file[j - 1].whole /\ file[j].prev = Hash(file[j - 1])
      BY <2>3, <3>1 DEF LogInv, Linked, Hash
    <3> QED BY <3>1, <3>2, <3>3
  <2> QED BY <2>2, <2>3
<1> QED BY <1>1, LogTypeCorrect, LogInvHolds, PTL

(* No two entries of the log name the same predecessor. *)
THEOREM ChainNeverForks == ASSUME TornWrites = FALSE PROVE LogSpec => []NoFork
<1>1. LogTypeOK /\ LogInv => NoFork
  <2> SUFFICES ASSUME LogTypeOK, LogInv,
                      NEW i \in DOMAIN file, NEW j \in DOMAIN file, i # j
               PROVE  file[i].prev # file[j].prev /\ file[i].id # file[j].id
    BY DEF NoFork
  <2> USE DEF LogInv, Linked
  <2>1. DOMAIN file = 1 .. Len(file) /\ Len(file) \in Nat
    BY DEF LogTypeOK
  <2>2. \A k \in DOMAIN file : k # 1 => k - 1 \in DOMAIN file /\ file[k - 1].id # NoHash
    BY <2>1 DEF NoHash
  <2>3. i # 1 /\ j # 1 => i - 1 # j - 1
    BY <2>1
  <2>4. file[i].prev # file[j].prev
    BY <2>2, <2>3
  <2> QED BY <2>4
<1> QED BY <1>1, LogTypeCorrect, LogInvHolds, PTL

(* An acknowledged entry stays in the file and readable, through every later *)
(* failure and restart.                                                      *)
THEOREM AcknowledgedStays == ASSUME TornWrites = FALSE PROVE LogSpec => []AckedDurable
BY LogInvHolds, PTL DEF LogInv

(* The log implements the append-only trail: every step extends the trail by *)
(* one fresh linked entry or leaves it as it is.                             *)
THEOREM LogImplementsTrail == ASSUME TornWrites = FALSE PROVE LogSpec => ImplementsTrail
<1>1. LogInit => Trail!Init
  BY DEF LogInit, Trail!Init
<1>2. LogTypeOK /\ LogInv /\ [LogNext]_logVars => [Trail!Next]_file
  <2> SUFFICES ASSUME LogTypeOK, LogInv, [LogNext]_logVars PROVE Trail!Next \/ file' = file
    OBVIOUS
  <2>1. ASSUME NEW w \in Writers, AppendLine(w) PROVE Trail!Next
    <3> USE <2>1 DEF AppendLine
    <3>1. /\ entry[w] \in Line
          /\ entry[w].whole
          /\ entry[w].id \in 1 .. MaxEntries
          /\ entry[w].prev = TailHash(file)
          /\ \A i \in DOMAIN file : file[i].id # entry[w].id
          /\ file' = Append(file, entry[w])
      BY AuditAssumption
         DEF LogTypeOK, LogInv, Fresh, Pending, TailKnown, Linked, Glue
    <3>2. TailHash(file) = Trail!LastHash(file)
      <4>1. file # <<>> => Len(file) \in DOMAIN file
        BY DEF LogTypeOK
      <4> QED BY <4>1 DEF TailHash, Trail!LastHash, Hash, NoHash, LogInv, Linked
    <3>3. entry[w] = [whole |-> TRUE, id |-> entry[w].id, prev |-> Trail!LastHash(file)]
      BY <3>1, <3>2 DEF Line
    <3>4. Trail!Extend(entry[w].id)
      BY <3>1, <3>3 DEF Trail!Extend
    <3> QED BY <3>1, <3>4 DEF Trail!Next
  <2>2. ASSUME NEW w \in Writers, AppendFails(w) PROVE file' = file
    BY <2>2 DEF AppendFails, Interrupted, diskVars
  <2>3. ASSUME NEW w \in Writers, Begin(w) \/ Acquire(w) \/ Advance(w) \/ Return(w)
        PROVE  file' = file
    BY <2>3 DEF Begin, Acquire, Advance, Return, diskVars
  <2>4. Crash \/ Restart => file' = file
    BY DEF Crash, Restart, Interrupted, diskVars
  <2> QED BY <2>1, <2>2, <2>3, <2>4 DEF LogNext, Step, logVars
<1> QED BY <1>1, <1>2, LogTypeCorrect, LogInvHolds, PTL DEF LogSpec, ImplementsTrail, Trail!Spec

=============================================================================
