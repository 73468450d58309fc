-------------------------- MODULE SessionPoolProofs --------------------------
(***************************************************************************)
(* Proofs about SessionPool, for any sets of clients and devices and any   *)
(* bound on sessions.                                                      *)
(***************************************************************************)
EXTENDS SessionPool, TLAPS

(* Every step keeps the types. *)
LEMMA TypeStep == TypeOK /\ Discipline /\ [Next]_vars => TypeOK'
<1>1. SUFFICES ASSUME TypeOK /\ Discipline, [Next]_vars PROVE TypeOK'
  OBVIOUS
<1>2. USE PoolAssumption DEF Threads, Sessions, NoSession, TypeOK, Discipline
<1>GrowIdle. ASSUME NEW d \in Devices, GrowIdle(d) PROVE TypeOK'
  BY <1>1, <1>GrowIdle DEF GrowIdle, hands, history
<1>GetPooled. ASSUME NEW c \in Clients, NEW d \in Devices, GetPooled(c, d) PROVE TypeOK'
  BY <1>1, <1>GetPooled DEF GetPooled, Touch, hands, history
<1>GetMissing. ASSUME NEW c \in Clients, NEW d \in Devices, GetMissing(c, d) PROVE TypeOK'
  BY <1>1, <1>GetMissing DEF GetMissing, hands, history
<1>ConnectSucceeds. ASSUME NEW c \in Clients, ConnectSucceeds(c) PROVE TypeOK'
  BY <1>1, <1>ConnectSucceeds DEF ConnectSucceeds, hands, history
<1>ConnectFails. ASSUME NEW c \in Clients, ConnectFails(c) PROVE TypeOK'
  BY <1>1, <1>ConnectFails DEF ConnectFails, hands, history
<1>InsertFirst. ASSUME NEW c \in Clients, InsertFirst(c) PROVE TypeOK'
  BY <1>1, <1>InsertFirst DEF InsertFirst, Touch, hands, history
<1>InsertSecond. ASSUME NEW c \in Clients, InsertSecond(c) PROVE TypeOK'
  BY <1>1, <1>InsertSecond DEF InsertSecond, Touch, hands, history
<1>UseSucceeds. ASSUME NEW c \in Clients, UseSucceeds(c) PROVE TypeOK'
  BY <1>1, <1>UseSucceeds DEF UseSucceeds, hands, history
<1>UseRaises. ASSUME NEW c \in Clients, UseRaises(c) PROVE TypeOK'
  BY <1>1, <1>UseRaises DEF UseRaises, Pop, Touch, hands, history
<1>CloseSession. ASSUME NEW t \in Threads, CloseSession(t) PROVE TypeOK'
  BY <1>1, <1>CloseSession DEF CloseSession, hands, history
<1>ClosingDone. ASSUME NEW t \in Threads, ClosingDone(t) PROVE TypeOK'
  BY <1>1, <1>ClosingDone DEF ClosingDone, AfterClosing, hands, history
<1>PurgeScan. ASSUME PurgeScan PROVE TypeOK'
  BY <1>1, <1>PurgeScan DEF PurgeScan, hands, history
<1>PurgeRelease. ASSUME PurgeRelease PROVE TypeOK'
  <2>1. PICK d \in expired : Pop(Purger, d) /\ expired' = expired \ {d}
    BY <1>PurgeRelease DEF PurgeRelease
  <2>2. d \in Devices /\ {pool[d]} \ {NoSession} \in SUBSET Sessions
    BY <1>1, <2>1
  <2>3. pool' \in [Devices -> Sessions \cup {NoSession}] /\ idle' \in [Devices -> BOOLEAN]
    BY <1>1, <2>1, <2>2 DEF Pop, Touch
  <2>4. closing' \in [Threads -> SUBSET Sessions] /\ popped' \in SUBSET Sessions
    BY <1>1, <2>1, <2>2 DEF Pop
  <2> QED
    BY <1>1, <1>PurgeRelease, <2>1, <2>3, <2>4 DEF PurgeRelease, hands
<1>PurgeEnd. ASSUME PurgeEnd PROVE TypeOK'
  BY <1>1, <1>PurgeEnd DEF PurgeEnd, hands, history
<1>Dispose. ASSUME Dispose PROVE TypeOK'
  <2>1. Pooled \in SUBSET Sessions
    BY <1>1 DEF Pooled
  <2>2. closing' \in [Threads -> SUBSET Sessions] /\ popped' \in SUBSET Sessions
    BY <1>1, <1>Dispose, <2>1 DEF Dispose
  <2> QED
    BY <1>1, <1>Dispose, <2>2 DEF Dispose, hands
<1>Stutter. ASSUME UNCHANGED vars PROVE TypeOK'
  BY <1>1, <1>Stutter DEF vars, hands, history
<1> QED
  BY <1>1, <1>GrowIdle, <1>GetPooled, <1>GetMissing, <1>ConnectSucceeds, <1>ConnectFails, <1>InsertFirst,
     <1>InsertSecond, <1>UseSucceeds, <1>UseRaises, <1>CloseSession, <1>ClosingDone, <1>PurgeScan,
     <1>PurgeRelease, <1>PurgeEnd, <1>Dispose,
     <1>Stutter DEF Next, Get, Use, Closing

(* Every step keeps to what a thread may hold where it is. *)
LEMMA DisciplineStep == TypeOK /\ Discipline /\ HeldOpen /\ [Next]_vars => Discipline'
<1>1. SUFFICES ASSUME TypeOK /\ Discipline /\ HeldOpen, [Next]_vars PROVE Discipline'
  OBVIOUS
<1>2. USE PoolAssumption DEF Threads, Sessions, NoSession, TypeOK, Discipline, HeldOpen
<1>GrowIdle. ASSUME NEW d \in Devices, GrowIdle(d) PROVE Discipline'
  BY <1>1, <1>GrowIdle DEF GrowIdle, hands, history
<1>GetPooled. ASSUME NEW c \in Clients, NEW d \in Devices, GetPooled(c, d) PROVE Discipline'
  BY <1>1, <1>GetPooled DEF GetPooled, Touch, hands, history
<1>GetMissing. ASSUME NEW c \in Clients, NEW d \in Devices, GetMissing(c, d) PROVE Discipline'
  BY <1>1, <1>GetMissing DEF GetMissing, hands, history
<1>ConnectSucceeds. ASSUME NEW c \in Clients, ConnectSucceeds(c) PROVE Discipline'
  BY <1>1, <1>ConnectSucceeds DEF ConnectSucceeds, hands, history
<1>ConnectFails. ASSUME NEW c \in Clients, ConnectFails(c) PROVE Discipline'
  BY <1>1, <1>ConnectFails DEF ConnectFails, hands, history
<1>InsertFirst. ASSUME NEW c \in Clients, InsertFirst(c) PROVE Discipline'
  BY <1>1, <1>InsertFirst DEF InsertFirst, Touch, hands, history
<1>InsertSecond. ASSUME NEW c \in Clients, InsertSecond(c) PROVE Discipline'
  BY <1>1, <1>InsertSecond DEF InsertSecond, Touch, hands, history
<1>UseSucceeds. ASSUME NEW c \in Clients, UseSucceeds(c) PROVE Discipline'
  BY <1>1, <1>UseSucceeds DEF UseSucceeds, hands, history
<1>UseRaises. ASSUME NEW c \in Clients, UseRaises(c) PROVE Discipline'
  BY <1>1, <1>UseRaises DEF UseRaises, Pop, Touch, hands, history
<1>CloseSession. ASSUME NEW t \in Threads, CloseSession(t) PROVE Discipline'
  BY <1>1, <1>CloseSession DEF CloseSession, hands, history
<1>ClosingDone. ASSUME NEW t \in Threads, ClosingDone(t) PROVE Discipline'
  BY <1>1, <1>ClosingDone DEF ClosingDone, AfterClosing, hands, history
<1>PurgeScan. ASSUME PurgeScan PROVE Discipline'
  BY <1>1, <1>PurgeScan DEF PurgeScan, hands, history
<1>PurgeRelease. ASSUME PurgeRelease PROVE Discipline'
  BY <1>1, <1>PurgeRelease DEF PurgeRelease, Pop, Touch, hands, history
<1>PurgeEnd. ASSUME PurgeEnd PROVE Discipline'
  BY <1>1, <1>PurgeEnd DEF PurgeEnd, hands, history
<1>Dispose. ASSUME Dispose PROVE Discipline'
  BY <1>1, <1>Dispose DEF Dispose, Pooled, hands, history
<1>Stutter. ASSUME UNCHANGED vars PROVE Discipline'
  BY <1>1, <1>Stutter DEF vars, hands, history
<1> QED
  BY <1>1, <1>GrowIdle, <1>GetPooled, <1>GetMissing, <1>ConnectSucceeds, <1>ConnectFails, <1>InsertFirst,
     <1>InsertSecond, <1>UseSucceeds, <1>UseRaises, <1>CloseSession, <1>ClosingDone, <1>PurgeScan,
     <1>PurgeRelease, <1>PurgeEnd, <1>Dispose,
     <1>Stutter DEF Next, Get, Use, Closing

(* Only open sessions are held: connecting opens one before anybody holds it,
   and whoever closes a session was its only holder. *)
LEMMA HeldOpenStep == TypeOK /\ Discipline /\ HeldOpen /\ OneOwner /\ [Next]_vars => HeldOpen'
<1>1. SUFFICES ASSUME TypeOK /\ Discipline /\ HeldOpen /\ OneOwner, [Next]_vars PROVE HeldOpen'
  OBVIOUS
<1>2. USE PoolAssumption DEF Threads, Sessions, NoSession, TypeOK, Discipline, HeldOpen, OneOwner
<1>GrowIdle. ASSUME NEW d \in Devices, GrowIdle(d) PROVE HeldOpen'
  BY <1>1, <1>GrowIdle DEF GrowIdle, hands, history
<1>GetPooled. ASSUME NEW c \in Clients, NEW d \in Devices, GetPooled(c, d) PROVE HeldOpen'
  BY <1>1, <1>GetPooled DEF GetPooled, Touch, hands, history
<1>GetMissing. ASSUME NEW c \in Clients, NEW d \in Devices, GetMissing(c, d) PROVE HeldOpen'
  BY <1>1, <1>GetMissing DEF GetMissing, hands, history
<1>ConnectSucceeds. ASSUME NEW c \in Clients, ConnectSucceeds(c) PROVE HeldOpen'
  BY <1>1, <1>ConnectSucceeds DEF ConnectSucceeds, hands, history
<1>ConnectFails. ASSUME NEW c \in Clients, ConnectFails(c) PROVE HeldOpen'
  BY <1>1, <1>ConnectFails DEF ConnectFails, hands, history
<1>InsertFirst. ASSUME NEW c \in Clients, InsertFirst(c) PROVE HeldOpen'
  BY <1>1, <1>InsertFirst DEF InsertFirst, Touch, hands, history
<1>InsertSecond. ASSUME NEW c \in Clients, InsertSecond(c) PROVE HeldOpen'
  BY <1>1, <1>InsertSecond DEF InsertSecond, Touch, hands, history
<1>UseSucceeds. ASSUME NEW c \in Clients, UseSucceeds(c) PROVE HeldOpen'
  BY <1>1, <1>UseSucceeds DEF UseSucceeds, hands, history
<1>UseRaises. ASSUME NEW c \in Clients, UseRaises(c) PROVE HeldOpen'
  BY <1>1, <1>UseRaises DEF UseRaises, Pop, Touch, hands, history
<1>CloseSession. ASSUME NEW t \in Threads, CloseSession(t) PROVE HeldOpen'
  BY <1>1, <1>CloseSession DEF CloseSession, hands, history
<1>ClosingDone. ASSUME NEW t \in Threads, ClosingDone(t) PROVE HeldOpen'
  BY <1>1, <1>ClosingDone DEF ClosingDone, AfterClosing, hands, history
<1>PurgeScan. ASSUME PurgeScan PROVE HeldOpen'
  BY <1>1, <1>PurgeScan DEF PurgeScan, hands, history
<1>PurgeRelease. ASSUME PurgeRelease PROVE HeldOpen'
  BY <1>1, <1>PurgeRelease DEF PurgeRelease, Pop, Touch, hands, history
<1>PurgeEnd. ASSUME PurgeEnd PROVE HeldOpen'
  BY <1>1, <1>PurgeEnd DEF PurgeEnd, hands, history
<1>Dispose. ASSUME Dispose PROVE HeldOpen'
  BY <1>1, <1>Dispose DEF Dispose, Pooled, hands, history
<1>Stutter. ASSUME UNCHANGED vars PROVE HeldOpen'
  BY <1>1, <1>Stutter DEF vars, hands, history
<1> QED
  BY <1>1, <1>GrowIdle, <1>GetPooled, <1>GetMissing, <1>ConnectSucceeds, <1>ConnectFails, <1>InsertFirst,
     <1>InsertSecond, <1>UseSucceeds, <1>UseRaises, <1>CloseSession, <1>ClosingDone, <1>PurgeScan,
     <1>PurgeRelease, <1>PurgeEnd, <1>Dispose,
     <1>Stutter DEF Next, Get, Use, Closing

(* A session changes hands and is never shared: the second look at the pool in
   get() and the pop under the lock give it away at the moment they take it. *)
LEMMA OneOwnerStep == TypeOK /\ Discipline /\ HeldOpen /\ OneOwner /\ [Next]_vars => OneOwner'
<1>1. SUFFICES ASSUME TypeOK /\ Discipline /\ HeldOpen /\ OneOwner, [Next]_vars PROVE OneOwner'
  OBVIOUS
<1>2. USE PoolAssumption DEF Threads, Sessions, NoSession, TypeOK, Discipline, HeldOpen, OneOwner
<1>GrowIdle. ASSUME NEW d \in Devices, GrowIdle(d) PROVE OneOwner'
  BY <1>1, <1>GrowIdle DEF GrowIdle, hands, history
<1>GetPooled. ASSUME NEW c \in Clients, NEW d \in Devices, GetPooled(c, d) PROVE OneOwner'
  BY <1>1, <1>GetPooled DEF GetPooled, Touch, hands, history
<1>GetMissing. ASSUME NEW c \in Clients, NEW d \in Devices, GetMissing(c, d) PROVE OneOwner'
  BY <1>1, <1>GetMissing DEF GetMissing, hands, history
<1>ConnectSucceeds. ASSUME NEW c \in Clients, ConnectSucceeds(c) PROVE OneOwner'
  BY <1>1, <1>ConnectSucceeds DEF ConnectSucceeds, hands, history
<1>ConnectFails. ASSUME NEW c \in Clients, ConnectFails(c) PROVE OneOwner'
  BY <1>1, <1>ConnectFails DEF ConnectFails, hands, history
<1>InsertFirst. ASSUME NEW c \in Clients, InsertFirst(c) PROVE OneOwner'
  BY <1>1, <1>InsertFirst DEF InsertFirst, Touch, hands, history
<1>InsertSecond. ASSUME NEW c \in Clients, InsertSecond(c) PROVE OneOwner'
  BY <1>1, <1>InsertSecond DEF InsertSecond, Touch, hands, history
<1>UseSucceeds. ASSUME NEW c \in Clients, UseSucceeds(c) PROVE OneOwner'
  BY <1>1, <1>UseSucceeds DEF UseSucceeds, hands, history
<1>UseRaises. ASSUME NEW c \in Clients, UseRaises(c) PROVE OneOwner'
  BY <1>1, <1>UseRaises DEF UseRaises, Pop, Touch, hands, history
<1>CloseSession. ASSUME NEW t \in Threads, CloseSession(t) PROVE OneOwner'
  BY <1>1, <1>CloseSession DEF CloseSession, hands, history
<1>ClosingDone. ASSUME NEW t \in Threads, ClosingDone(t) PROVE OneOwner'
  BY <1>1, <1>ClosingDone DEF ClosingDone, AfterClosing, hands, history
<1>PurgeScan. ASSUME PurgeScan PROVE OneOwner'
  BY <1>1, <1>PurgeScan DEF PurgeScan, hands, history
<1>PurgeRelease. ASSUME PurgeRelease PROVE OneOwner'
  BY <1>1, <1>PurgeRelease DEF PurgeRelease, Pop, Touch, hands, history
<1>PurgeEnd. ASSUME PurgeEnd PROVE OneOwner'
  BY <1>1, <1>PurgeEnd DEF PurgeEnd, hands, history
<1>Dispose. ASSUME Dispose PROVE OneOwner'
  BY <1>1, <1>Dispose DEF Dispose, Pooled, hands, history
<1>Stutter. ASSUME UNCHANGED vars PROVE OneOwner'
  BY <1>1, <1>Stutter DEF vars, hands, history
<1> QED
  BY <1>1, <1>GrowIdle, <1>GetPooled, <1>GetMissing, <1>ConnectSucceeds, <1>ConnectFails, <1>InsertFirst,
     <1>InsertSecond, <1>UseSucceeds, <1>UseRaises, <1>CloseSession, <1>ClosingDone, <1>PurgeScan,
     <1>PurgeRelease, <1>PurgeEnd, <1>Dispose,
     <1>Stutter DEF Next, Get, Use, Closing

(* No step drops an open session. *)
LEMMA OwnedStep == TypeOK /\ Discipline /\ HeldOpen /\ OneOwner /\ Owned /\ [Next]_vars => Owned'
<1>1. SUFFICES ASSUME TypeOK /\ Discipline /\ HeldOpen /\ OneOwner /\ Owned, [Next]_vars PROVE Owned'
  OBVIOUS
<1>2. USE PoolAssumption DEF Threads, Sessions, NoSession, TypeOK, Discipline, HeldOpen, OneOwner, Owned
<1>GrowIdle. ASSUME NEW d \in Devices, GrowIdle(d) PROVE Owned'
  BY <1>1, <1>GrowIdle DEF GrowIdle, hands, history
<1>GetPooled. ASSUME NEW c \in Clients, NEW d \in Devices, GetPooled(c, d) PROVE Owned'
  BY <1>1, <1>GetPooled DEF GetPooled, Touch, hands, history
<1>GetMissing. ASSUME NEW c \in Clients, NEW d \in Devices, GetMissing(c, d) PROVE Owned'
  BY <1>1, <1>GetMissing DEF GetMissing, hands, history
<1>ConnectSucceeds. ASSUME NEW c \in Clients, ConnectSucceeds(c) PROVE Owned'
  BY <1>1, <1>ConnectSucceeds DEF ConnectSucceeds, hands, history
<1>ConnectFails. ASSUME NEW c \in Clients, ConnectFails(c) PROVE Owned'
  BY <1>1, <1>ConnectFails DEF ConnectFails, hands, history
<1>InsertFirst. ASSUME NEW c \in Clients, InsertFirst(c) PROVE Owned'
  BY <1>1, <1>InsertFirst DEF InsertFirst, Touch, hands, history
<1>InsertSecond. ASSUME NEW c \in Clients, InsertSecond(c) PROVE Owned'
  BY <1>1, <1>InsertSecond DEF InsertSecond, Touch, hands, history
<1>UseSucceeds. ASSUME NEW c \in Clients, UseSucceeds(c) PROVE Owned'
  BY <1>1, <1>UseSucceeds DEF UseSucceeds, hands, history
<1>UseRaises. ASSUME NEW c \in Clients, UseRaises(c) PROVE Owned'
  BY <1>1, <1>UseRaises DEF UseRaises, Pop, Touch, hands, history
<1>CloseSession. ASSUME NEW t \in Threads, CloseSession(t) PROVE Owned'
  <2>1. PICK s \in closing[t] : /\ open' = open \ {s}
                                /\ closing' = [closing EXCEPT ![t] = @ \ {s}]
    BY <1>CloseSession DEF CloseSession
  <2>2. UNCHANGED <<pool, fresh>>
    BY <1>CloseSession DEF CloseSession, hands
  <2>3. \A u \in Threads, r \in Sessions : r # s /\ r \in closing[u] => r \in closing'[u]
    BY <1>1, <2>1
  <2> QED
    BY <1>1, <2>1, <2>2, <2>3
<1>ClosingDone. ASSUME NEW t \in Threads, ClosingDone(t) PROVE Owned'
  BY <1>1, <1>ClosingDone DEF ClosingDone, AfterClosing, hands, history
<1>PurgeScan. ASSUME PurgeScan PROVE Owned'
  BY <1>1, <1>PurgeScan DEF PurgeScan, hands, history
<1>PurgeRelease. ASSUME PurgeRelease PROVE Owned'
  BY <1>1, <1>PurgeRelease DEF PurgeRelease, Pop, Touch, hands, history
<1>PurgeEnd. ASSUME PurgeEnd PROVE Owned'
  BY <1>1, <1>PurgeEnd DEF PurgeEnd, hands, history
<1>Dispose. ASSUME Dispose PROVE Owned'
  BY <1>1, <1>Dispose DEF Dispose, Pooled, hands, history
<1>Stutter. ASSUME UNCHANGED vars PROVE Owned'
  BY <1>1, <1>Stutter DEF vars, hands, history
<1> QED
  BY <1>1, <1>GrowIdle, <1>GetPooled, <1>GetMissing, <1>ConnectSucceeds, <1>ConnectFails, <1>InsertFirst,
     <1>InsertSecond, <1>UseSucceeds, <1>UseRaises, <1>CloseSession, <1>ClosingDone, <1>PurgeScan,
     <1>PurgeRelease, <1>PurgeEnd, <1>Dispose,
     <1>Stutter DEF Next, Get, Use, Closing

(* A client uses the pooled session or one that has left the pool. *)
LEMMA UsesPooledStep == TypeOK /\ Discipline /\ HeldOpen /\ OneOwner /\ UsesPooled /\ [Next]_vars => UsesPooled'
<1>1. SUFFICES ASSUME TypeOK /\ Discipline /\ HeldOpen /\ OneOwner /\ UsesPooled, [Next]_vars PROVE UsesPooled'
  OBVIOUS
<1>2. USE PoolAssumption DEF Threads, Sessions, NoSession, TypeOK, Discipline, HeldOpen, OneOwner, UsesPooled
<1>GrowIdle. ASSUME NEW d \in Devices, GrowIdle(d) PROVE UsesPooled'
  BY <1>1, <1>GrowIdle DEF GrowIdle, hands, history
<1>GetPooled. ASSUME NEW c \in Clients, NEW d \in Devices, GetPooled(c, d) PROVE UsesPooled'
  BY <1>1, <1>GetPooled DEF GetPooled, Touch, hands, history
<1>GetMissing. ASSUME NEW c \in Clients, NEW d \in Devices, GetMissing(c, d) PROVE UsesPooled'
  BY <1>1, <1>GetMissing DEF GetMissing, hands, history
<1>ConnectSucceeds. ASSUME NEW c \in Clients, ConnectSucceeds(c) PROVE UsesPooled'
  BY <1>1, <1>ConnectSucceeds DEF ConnectSucceeds, hands, history
<1>ConnectFails. ASSUME NEW c \in Clients, ConnectFails(c) PROVE UsesPooled'
  BY <1>1, <1>ConnectFails DEF ConnectFails, hands, history
<1>InsertFirst. ASSUME NEW c \in Clients, InsertFirst(c) PROVE UsesPooled'
  BY <1>1, <1>InsertFirst DEF InsertFirst, Touch, hands, history
<1>InsertSecond. ASSUME NEW c \in Clients, InsertSecond(c) PROVE UsesPooled'
  BY <1>1, <1>InsertSecond DEF InsertSecond, Touch, hands, history
<1>UseSucceeds. ASSUME NEW c \in Clients, UseSucceeds(c) PROVE UsesPooled'
  BY <1>1, <1>UseSucceeds DEF UseSucceeds, hands, history
<1>UseRaises. ASSUME NEW c \in Clients, UseRaises(c) PROVE UsesPooled'
  BY <1>1, <1>UseRaises DEF UseRaises, Pop, Touch, hands, history
<1>CloseSession. ASSUME NEW t \in Threads, CloseSession(t) PROVE UsesPooled'
  BY <1>1, <1>CloseSession DEF CloseSession, hands, history
<1>ClosingDone. ASSUME NEW t \in Threads, ClosingDone(t) PROVE UsesPooled'
  BY <1>1, <1>ClosingDone DEF ClosingDone, AfterClosing, hands, history
<1>PurgeScan. ASSUME PurgeScan PROVE UsesPooled'
  BY <1>1, <1>PurgeScan DEF PurgeScan, hands, history
<1>PurgeRelease. ASSUME PurgeRelease PROVE UsesPooled'
  BY <1>1, <1>PurgeRelease DEF PurgeRelease, Pop, Touch, hands, history
<1>PurgeEnd. ASSUME PurgeEnd PROVE UsesPooled'
  BY <1>1, <1>PurgeEnd DEF PurgeEnd, hands, history
<1>Dispose. ASSUME Dispose PROVE UsesPooled'
  BY <1>1, <1>Dispose DEF Dispose, Pooled, hands, history
<1>Stutter. ASSUME UNCHANGED vars PROVE UsesPooled'
  BY <1>1, <1>Stutter DEF vars, hands, history
<1> QED
  BY <1>1, <1>GrowIdle, <1>GetPooled, <1>GetMissing, <1>ConnectSucceeds, <1>ConnectFails, <1>InsertFirst,
     <1>InsertSecond, <1>UseSucceeds, <1>UseRaises, <1>CloseSession, <1>ClosingDone, <1>PurgeScan,
     <1>PurgeRelease, <1>PurgeEnd, <1>Dispose,
     <1>Stutter DEF Next, Get, Use, Closing

(* A new factory has an empty pool and holds nothing. *)
LEMMA InitInv == Init => PoolInv
<1> SUFFICES ASSUME Init PROVE PoolInv
  OBVIOUS
<1> USE PoolAssumption DEF Init, Threads, Sessions, NoSession
<1>1. TypeOK
  BY DEF TypeOK
<1>2. Discipline
  BY DEF Discipline
<1>3. HeldOpen /\ OneOwner
  BY DEF HeldOpen, OneOwner
<1>4. Owned /\ UsesPooled
  BY DEF Owned, UsesPooled
<1> QED
  BY <1>1, <1>2, <1>3, <1>4 DEF PoolInv

(* PoolInv is inductive. *)
THEOREM Invariance == Spec => []PoolInv
<1>1. PoolInv /\ [Next]_vars => PoolInv'
  BY TypeStep, DisciplineStep, HeldOpenStep, OneOwnerStep, OwnedStep, UsesPooledStep
     DEF PoolInv
<1> QED
  BY InitInv, <1>1, PTL DEF Spec

(* Every variable of the session pool keeps its type. *)
THEOREM TypeCorrect == Spec => []TypeOK
<1>1. PoolInv => TypeOK
  BY DEF PoolInv
<1> QED
  BY Invariance, <1>1, PTL

(* Open sessions are pooled, about to be, or about to be closed by one thread: *)
(* no interleaving of get(), release(), purge_expired() and dispose() leaks.   *)
THEOREM NoSessionLeaks == Spec => []Accounted
<1>1. PoolInv => Accounted
  <2> SUFFICES ASSUME PoolInv PROVE Accounted
    OBVIOUS
  <2>1. ASSUME NEW s \in open
        PROVE  \/ s \in Pooled
               \/ \E c \in Clients : pc[c] = "inserting" /\ fresh[c] = s
               \/ \E t \in Threads : s \in closing[t]
    <3>1. s # NoSession
      BY PoolAssumption DEF PoolInv, TypeOK, Sessions, NoSession
    <3>2. CASE \E d \in Devices : pool[d] = s
      BY <3>1, <3>2 DEF Pooled
    <3>3. CASE \E c \in Clients : fresh[c] = s
      BY <3>1, <3>3 DEF PoolInv, Discipline
    <3> QED
      BY <3>2, <3>3 DEF PoolInv, Owned
  <2>2. ASSUME NEW t \in Threads, NEW u \in Threads, t # u PROVE closing[t] \cap closing[u] = {}
    BY <2>2 DEF PoolInv, TypeOK, OneOwner
  <2> QED
    BY <2>1, <2>2 DEF Accounted
<1> QED
  BY Invariance, <1>1, PTL

(* The pool holds open sessions that nobody is about to close, one per device. *)
THEOREM PoolStaysHealthy == Spec => []PoolHealthy
<1>1. PoolInv => PoolHealthy
  <2> SUFFICES ASSUME PoolInv PROVE PoolHealthy
    OBVIOUS
  <2>1. Pooled \subseteq open
    BY DEF PoolInv, HeldOpen, Pooled
  <2>2. \A t \in Threads : closing[t] \cap Pooled = {}
    BY DEF PoolInv, OneOwner, Pooled
  <2> QED
    BY <2>1, <2>2 DEF PoolHealthy, PoolInv, OneOwner
<1> QED
  BY Invariance, <1>1, PTL

(* Clients of one device share its pooled session, whoever connected first. *)
THEOREM ClientsShare == Spec => []UsesPooled
<1>1. PoolInv => UsesPooled
  BY DEF PoolInv
<1> QED
  BY Invariance, <1>1, PTL

-----------------------------------------------------------------------------
(* A step that changes nothing anybody owns. *)
LEMMA NothingOwned ==
  ASSUME UNCHANGED <<pool, made, open, fresh, closing>>
  PROVE  UNCHANGED <<1 .. made, open, Ready, InPool, Doomed>>
  BY DEF Ready, InPool, Doomed

(* Taking the session of a device out of the pool *)
LEMMA PopTakes ==
  ASSUME TypeOK, NEW t \in Threads, NEW d \in Devices, Pop(t, d),
         UNCHANGED <<made, open, fresh>>
  PROVE  Owners!Take(t, {d})
<1> USE PoolAssumption DEF TypeOK, Sessions, NoSession
<1>1. InPool' = {p \in InPool : p[1] \notin {d}}
  <2>1. InPool' \in SUBSET (Devices \X Sessions) /\ InPool \in SUBSET (Devices \X Sessions)
    BY DEF InPool
  <2>2. \A e \in Devices, s \in Sessions :
          <<e, s>> \in InPool' <=> <<e, s>> \in {p \in InPool : p[1] \notin {d}}
    BY DEF InPool, Pop
  <2> DEFINE R == {p \in InPool : p[1] \notin {d}}
  <2>3. R \in SUBSET (Devices \X Sessions) /\ \A e \in Devices, s \in Sessions :
          <<e, s>> \in InPool' <=> <<e, s>> \in R
    BY <2>1, <2>2
  <2> HIDE DEF R
  <2>4. \A p \in Devices \X Sessions : p \in InPool' <=> p \in R
    BY <2>3
  <2>5. InPool' = R
    BY <2>1, <2>3, <2>4, Zenon
  <2> QED
    BY <2>5 DEF R
<1>2. Doomed' = Doomed \cup {<<t, p[2]>> : p \in {q \in InPool : q[1] \in {d}}}
  <2> DEFINE R == Doomed \cup {<<t, p[2]>> : p \in {q \in InPool : q[1] \in {d}}}
  <2>1. Doomed' \in SUBSET (Threads \X Sessions) /\ R \in SUBSET (Threads \X Sessions)
    BY DEF Doomed, InPool
  <2>2. ASSUME NEW u \in Threads, NEW s \in Sessions
        PROVE  <<u, s>> \in Doomed' <=> <<u, s>> \in R
    <3>1. <<u, s>> \in Doomed' <=> s \in closing'[u]
      BY DEF Doomed
    <3>2. <<u, s>> \in Doomed <=> s \in closing[u]
      BY DEF Doomed
    <3>3. s \in closing'[u] <=> s \in closing[u] \/ (u = t /\ s = pool[d])
      BY DEF Pop
    <3>4. <<u, s>> \in {<<t, p[2]>> : p \in {q \in InPool : q[1] \in {d}}}
            <=> u = t /\ <<d, s>> \in InPool
      BY DEF InPool
    <3>5. <<d, s>> \in InPool <=> s = pool[d]
      BY DEF InPool
    <3> QED
      BY <3>1, <3>2, <3>3, <3>4, <3>5
  <2> HIDE DEF R
  <2>3. \A p \in Threads \X Sessions : p \in Doomed' <=> p \in R
    BY <2>2
  <2>4. Doomed' = R
    BY <2>1, <2>3, Zenon
  <2> QED
    BY <2>4 DEF R
<1>3. UNCHANGED <<1 .. made, open, Ready>>
  BY DEF Ready
<1> QED
  BY <1>1, <1>2, <1>3 DEF Owners!Take

(* Emptying the pool *)
LEMMA DisposeTakes == ASSUME TypeOK, Discipline, Dispose PROVE Owners!Take(Disposer, Devices)
<1> USE PoolAssumption DEF TypeOK, Sessions, NoSession
<1>1. InPool' = {p \in InPool : p[1] \notin Devices}
  BY DEF InPool, Dispose
<1>2. Doomed' = Doomed \cup {<<Disposer, p[2]>> : p \in {q \in InPool : q[1] \in Devices}}
  <2> DEFINE R == Doomed \cup {<<Disposer, p[2]>> : p \in {q \in InPool : q[1] \in Devices}}
  <2>1. Doomed' \in SUBSET (Threads \X Sessions) /\ R \in SUBSET (Threads \X Sessions)
    BY DEF Doomed, InPool, Threads
  <2>2. ASSUME NEW u \in Threads, NEW s \in Sessions
        PROVE  <<u, s>> \in Doomed' <=> <<u, s>> \in R
    <3>1. <<u, s>> \in Doomed' <=> s \in closing'[u]
      BY DEF Doomed
    <3>2. <<u, s>> \in Doomed <=> s \in closing[u]
      BY DEF Doomed
    <3>3. s \in closing'[u] <=> s \in closing[u] \/ (u = Disposer /\ s \in Pooled)
      BY DEF Dispose, Discipline, Threads
    <3>4. <<u, s>> \in {<<Disposer, p[2]>> : p \in {q \in InPool : q[1] \in Devices}}
            <=> u = Disposer /\ \E p \in InPool : p[2] = s
      <4>1. \A q \in InPool : q[1] \in Devices
        BY DEF InPool
      <4> QED
        BY <4>1, Zenon
    <3>5. (\E p \in InPool : p[2] = s) <=> s \in Pooled
      <4>1. ASSUME NEW p \in InPool, p[2] = s PROVE s \in Pooled
        BY <4>1 DEF InPool, Pooled
      <4>2. ASSUME NEW d \in Devices, s = pool[d] PROVE \E p \in InPool : p[2] = s
        <5>1. <<d, s>> \in InPool /\ <<d, s>>[2] = s
          BY <4>2 DEF InPool
        <5> QED
          BY <5>1, Zenon
      <4> QED
        BY <4>1, <4>2 DEF Pooled
    <3> QED
      BY <3>1, <3>2, <3>3, <3>4, <3>5
  <2> HIDE DEF R
  <2>3. \A p \in Threads \X Sessions : p \in Doomed' <=> p \in R
    BY <2>2
  <2>4. Doomed' = R
    BY <2>1, <2>3, Zenon
  <2> QED
    BY <2>4 DEF R
<1>3. UNCHANGED <<1 .. made, open, Ready>>
  BY DEF Ready, Dispose, hands
<1> QED
  BY <1>1, <1>2, <1>3 DEF Owners!Take

(* Connecting *)
LEMMA ConnectConnects ==
  ASSUME TypeOK, Discipline, NEW c \in Clients, ConnectSucceeds(c)
  PROVE  Owners!Connect(c, made + 1)
<1> USE PoolAssumption DEF TypeOK, Sessions, NoSession, ConnectSucceeds
<1>1. made + 1 \notin 1 .. made /\ (1 .. made)' = (1 .. made) \cup {made + 1}
  OBVIOUS
<1>2. Ready' = Ready \cup {<<c, made + 1>>}
  <2> DEFINE R == Ready \cup {<<c, made + 1>>}
  <2>1. Ready' \in SUBSET (Clients \X Sessions) /\ R \in SUBSET (Clients \X Sessions)
    BY DEF Ready
  <2>2. ASSUME NEW b \in Clients, NEW s \in Sessions
        PROVE  <<b, s>> \in Ready' <=> <<b, s>> \in R
    <3>1. fresh[c] = NoSession /\ s # NoSession
      BY DEF Discipline
    <3> QED
      BY <3>1 DEF Ready
  <2> HIDE DEF R
  <2>3. \A p \in Clients \X Sessions : p \in Ready' <=> p \in R
    BY <2>2
  <2>4. Ready' = R
    BY <2>1, <2>3, Zenon
  <2> QED
    BY <2>4 DEF R
<1>3. UNCHANGED <<InPool, Doomed>>
  BY DEF InPool, Doomed
<1> QED
  BY <1>1, <1>2, <1>3 DEF Owners!Connect

(* What a client has connected is no longer its own. *)
LEMMA FreshGone ==
  ASSUME TypeOK, Discipline, NEW c \in Clients, pc[c] = "inserting",
         fresh' = [fresh EXCEPT ![c] = NoSession]
  PROVE  /\ fresh[c] \in Sessions /\ <<c, fresh[c]>> \in Ready
         /\ Ready' = Ready \ {<<c, fresh[c]>>}
<1> USE PoolAssumption DEF TypeOK, Sessions, NoSession
<1>1. fresh[c] \in Sessions
  BY DEF Discipline
<1> DEFINE R == Ready \ {<<c, fresh[c]>>}
<1>2. Ready' \in SUBSET (Clients \X Sessions) /\ R \in SUBSET (Clients \X Sessions)
  BY DEF Ready
<1>3. ASSUME NEW b \in Clients, NEW s \in Sessions
      PROVE  <<b, s>> \in Ready' <=> <<b, s>> \in R
  BY DEF Ready
<1>4. <<c, fresh[c]>> \in Ready
  BY <1>1 DEF Ready
<1> HIDE DEF R
<1>5. \A p \in Clients \X Sessions : p \in Ready' <=> p \in R
  BY <1>3
<1>6. Ready' = R
  BY <1>2, <1>5, Zenon
<1> QED
  BY <1>1, <1>4, <1>6 DEF R

(* The first to come back shares its session, *)
LEMMA FirstShares ==
  ASSUME TypeOK, Discipline, NEW c \in Clients, InsertFirst(c)
  PROVE  device[c] \in Devices /\ fresh[c] \in Sessions /\ Owners!Share(c, fresh[c], device[c])
<1> USE PoolAssumption DEF TypeOK, Sessions, NoSession, InsertFirst
<1>1. /\ fresh[c] \in Sessions /\ <<c, fresh[c]>> \in Ready
      /\ Ready' = Ready \ {<<c, fresh[c]>>}
  BY FreshGone
<1>2. device[c] \in Devices
  BY DEF Discipline
<1>3. \A r \in Sessions : <<device[c], r>> \notin InPool
  BY DEF InPool
<1>4. InPool' = InPool \cup {<<device[c], fresh[c]>>}
  <2> DEFINE R == InPool \cup {<<device[c], fresh[c]>>}
  <2>1. InPool' \in SUBSET (Devices \X Sessions) /\ R \in SUBSET (Devices \X Sessions)
    BY <1>1, <1>2 DEF InPool
  <2>2. ASSUME NEW d \in Devices, NEW s \in Sessions
        PROVE  <<d, s>> \in InPool' <=> <<d, s>> \in R
    BY <1>1, <1>2 DEF InPool
  <2> HIDE DEF R
  <2>3. \A p \in Devices \X Sessions : p \in InPool' <=> p \in R
    BY <2>2
  <2>4. InPool' = R
    BY <2>1, <2>3, Zenon
  <2> QED
    BY <2>4 DEF R
<1>5. UNCHANGED <<1 .. made, open, Doomed>>
  BY DEF Doomed
<1> QED
  BY <1>1, <1>2, <1>3, <1>4, <1>5 DEF Owners!Share

(* and the second keeps its own to close it. *)
LEMMA SecondDiscards ==
  ASSUME TypeOK, Discipline, NEW c \in Clients, InsertSecond(c)
  PROVE  fresh[c] \in Sessions /\ Owners!Discard(c, fresh[c])
<1> USE PoolAssumption DEF TypeOK, Sessions, NoSession, InsertSecond
<1>1. /\ fresh[c] \in Sessions /\ <<c, fresh[c]>> \in Ready
      /\ Ready' = Ready \ {<<c, fresh[c]>>}
  BY FreshGone
<1>2. Doomed' = Doomed \cup {<<c, fresh[c]>>}
  <2> DEFINE R == Doomed \cup {<<c, fresh[c]>>}
  <2>1. Doomed' \in SUBSET (Threads \X Sessions) /\ R \in SUBSET (Threads \X Sessions)
    BY <1>1 DEF Doomed, Threads
  <2>2. ASSUME NEW t \in Threads, NEW s \in Sessions
        PROVE  <<t, s>> \in Doomed' <=> <<t, s>> \in R
    <3>1. closing[c] = {}
      BY DEF Discipline
    <3> QED
      BY <1>1, <3>1 DEF Doomed, Threads
  <2> HIDE DEF R
  <2>3. \A p \in Threads \X Sessions : p \in Doomed' <=> p \in R
    BY <2>2
  <2>4. Doomed' = R
    BY <2>1, <2>3, Zenon
  <2> QED
    BY <2>4 DEF R
<1>3. UNCHANGED <<1 .. made, open, InPool>>
  BY DEF InPool
<1> QED
  BY <1>1, <1>2, <1>3 DEF Owners!Discard

(* Closing *)
LEMMA CloseCloses ==
  ASSUME TypeOK, NEW t \in Threads, CloseSession(t)
  PROVE  \E s \in Sessions : Owners!Close(t, s)
<1> USE PoolAssumption DEF TypeOK, Sessions, NoSession, CloseSession
<1>1. PICK s \in closing[t] : open' = open \ {s} /\ closing' = [closing EXCEPT ![t] = @ \ {s}]
  OBVIOUS
<1>2. s \in Sessions /\ <<t, s>> \in Doomed
  BY <1>1 DEF Doomed
<1>3. Doomed' = Doomed \ {<<t, s>>}
  <2> DEFINE R == Doomed \ {<<t, s>>}
  <2>1. Doomed' \in SUBSET (Threads \X Sessions) /\ R \in SUBSET (Threads \X Sessions)
    BY DEF Doomed
  <2>2. ASSUME NEW u \in Threads, NEW r \in Sessions
        PROVE  <<u, r>> \in Doomed' <=> <<u, r>> \in R
    BY <1>1, <1>2 DEF Doomed
  <2> HIDE DEF R
  <2>3. \A p \in Threads \X Sessions : p \in Doomed' <=> p \in R
    BY <2>2
  <2>4. Doomed' = R
    BY <2>1, <2>3, Zenon
  <2> QED
    BY <2>4 DEF R
<1>4. UNCHANGED <<1 .. made, Ready, InPool>>
  BY DEF Ready, InPool, hands
<1> QED
  BY <1>1, <1>2, <1>3, <1>4 DEF Owners!Close

(* The pool implements the ownership of sessions: each step of a thread moves *)
(* one session, or all those of the pool, from one owner to the next as       *)
(* SessionOwners allows, or moves none.                                       *)
THEOREM PoolImplementsOwners == Spec => ImplementsOwners
<1>1. Init => Owners!Init
  BY PoolAssumption DEF Init, Owners!Init, Ready, InPool, Doomed, Sessions, NoSession, Threads
<1>2. TypeOK /\ Discipline /\ [Next]_vars => [Owners!Next]_Owners!ownerVars
  <2> SUFFICES ASSUME TypeOK, Discipline, [Next]_vars
               PROVE  Owners!Next \/ UNCHANGED Owners!ownerVars
    OBVIOUS
  <2>1. UNCHANGED <<pool, made, open, fresh, closing>> => UNCHANGED Owners!ownerVars
    BY NothingOwned DEF Owners!ownerVars
  <2>2. ASSUME NEW c \in Clients, ConnectSucceeds(c) PROVE Owners!Next
    <3>1. made + 1 \in Sessions
      BY <2>2, PoolAssumption DEF ConnectSucceeds, TypeOK, Sessions
    <3> QED
      BY <2>2, <3>1, ConnectConnects DEF Owners!Next, Threads
  <2>3. ASSUME NEW c \in Clients, InsertFirst(c) PROVE Owners!Next
    BY <2>3, FirstShares DEF Owners!Next, Threads
  <2>4. ASSUME NEW c \in Clients, InsertSecond(c) PROVE Owners!Next
    BY <2>4, SecondDiscards DEF Owners!Next, Threads
  <2>5. ASSUME NEW t \in Threads, CloseSession(t) PROVE Owners!Next
    BY <2>5, CloseCloses DEF Owners!Next
  <2>6. ASSUME NEW c \in Clients, UseRaises(c) PROVE Owners!Next
    <3>1. device[c] \in Devices /\ c \in Threads
      BY <2>6 DEF UseRaises, Discipline, Threads
    <3>2. Owners!Take(c, {device[c]})
      BY <2>6, <3>1, PopTakes DEF UseRaises, hands
    <3> QED
      BY <3>1, <3>2 DEF Owners!Next
  <2>7. ASSUME PurgeRelease PROVE Owners!Next
    <3>1. PICK d \in expired : Pop(Purger, d)
      BY <2>7 DEF PurgeRelease
    <3>2. d \in Devices /\ Purger \in Threads
      BY DEF TypeOK, Threads
    <3>3. Owners!Take(Purger, {d})
      BY <2>7, <3>1, <3>2, PopTakes DEF PurgeRelease, hands
    <3> QED
      BY <3>2, <3>3 DEF Owners!Next
  <2>8. ASSUME Dispose PROVE Owners!Next
    BY <2>8, DisposeTakes DEF Owners!Next, Threads
  <2>9. ASSUME NEW c \in Clients, UseSucceeds(c) \/ ConnectFails(c)
        PROVE  UNCHANGED Owners!ownerVars
    BY <2>1, <2>9 DEF UseSucceeds, ConnectFails, hands
  <2>10. ASSUME NEW c \in Clients, NEW d \in Devices, GetPooled(c, d) \/ GetMissing(c, d)
         PROVE  UNCHANGED Owners!ownerVars
    BY <2>1, <2>10 DEF GetPooled, GetMissing, hands
  <2>11. ASSUME NEW t \in Threads, ClosingDone(t) PROVE UNCHANGED Owners!ownerVars
    BY <2>1, <2>11 DEF ClosingDone, hands
  <2>12. ASSUME NEW d \in Devices, GrowIdle(d) PROVE UNCHANGED Owners!ownerVars
    BY <2>1, <2>12 DEF GrowIdle, hands
  <2>13. PurgeScan \/ PurgeEnd \/ UNCHANGED vars => UNCHANGED Owners!ownerVars
    BY <2>1 DEF PurgeScan, PurgeEnd, vars, hands
  <2> QED
    BY <2>2, <2>3, <2>4, <2>5, <2>6, <2>7, <2>8, <2>9, <2>10, <2>11, <2>12, <2>13
       DEF Next, Get, Use, Closing
<1>3. PoolInv => TypeOK /\ Discipline
  BY DEF PoolInv
<1> QED
  BY <1>1, <1>2, <1>3, Invariance, PTL DEF Spec, ImplementsOwners, Owners!Spec
=============================================================================
