------------------------ MODULE ConfigCommandProofs ------------------------
(***************************************************************************)
(* Proofs about ConfigCommand, for any devices, workers and configuration  *)
(* lines, and any number of commands and connections.                      *)
(***************************************************************************)
EXTENDS ConfigCommand, TLAPS

(* The types of what TypeOK leaves out. *)
HistoryOK ==
  /\ snapshot \in [Numbers -> (SUBSET Lines) \cup {NoConfig}]
  /\ before \in [Numbers -> (SUBSET Lines) \cup {NoConfig}]
  /\ handle \in [Workers -> Link \cup {NoLink}]
  /\ origin \in [Numbers -> SUBSET Devices]
  /\ changed \in [Workers -> SUBSET Devices]
  /\ disturbed \in SUBSET (1 .. made)
  /\ overlapped \in SUBSET (1 .. made)
  /\ restored \in SUBSET (1 .. made)

(* What a worker is doing, told by the place it is at. *)
Applying == {"preview", "starting", "snapshot", "storing", "loading", "asking", "saving", "typing"}
Undoing == {"reading", "verifying", "clearing"}
OverHandle == {"loading", "asking", "saving", "typing"}

Placed ==
  \A w \in Workers :
    /\ pc[w] \in Applying \cup {"idle"} => w \notin rolling
    /\ pc[w] \in Undoing => w \in rolling
    /\ pc[w] # "idle" => work[w] # None
    /\ pc[w] = "starting" => service[work[w]]
    /\ pc[w] \in OverHandle => handle[w] # NoLink /\ napalm /\ service[work[w]]
    /\ w \in rolling \/ pc[w] \in {"sending", "storing"} => snapshot[work[w]] \in SUBSET Lines

Typed == TypeOK /\ HistoryOK /\ Placed

(* Nothing has changed yet at the places from which an operation may end     *)
(* without an entry, or with the one that says that nothing was applied.     *)
Untouched ==
  \A w \in Workers :
    /\ pc[w] \in {"preview", "starting", "snapshot", "loading", "asking", "saving"} => changed[w] = {}
    /\ changed[w] # {} => work[w] # None

Audited == Untouched /\ ChangesAudited

(* A rollback in progress is of the command in the slot, or of an older one. *)
Tracked == \A w \in rolling : slot # None => work[w] = slot \/ slot \in overlapped

(* A command is applied by one worker, and rolled back only when that one    *)
(* has stored it.                                                            *)
Executing(w) == pc[w] # "idle" /\ w \notin rolling
Stored(k) == k = slot \/ k \in restored \/ \E w \in rolling : work[w] = k

Owned ==
  /\ \A w \in Workers : Executing(w) => ~Stored(work[w])
  /\ \A w, v \in Workers : Executing(w) /\ Executing(v) /\ work[w] = work[v] => w = v

(* A rollback sends nothing but lines of its snapshot. *)
SendsBack == \A w \in rolling : todo[w].del = {} /\ todo[w].add \subseteq snapshot[work[w]]

(* While nobody else changes anything, the connection is the one of the      *)
(* beginning; the device is as it was until the snapshot is taken, and as    *)
(* the snapshot once a rollback has found it so.                             *)
Undisturbed(k) ==
  /\ link # NoLink
  /\ origin[k] \subseteq {link.dev}
  /\ origin[k] # {} => snapshot[k] = before[k]
  /\ \A w \in Workers : work[w] = k =>
       /\ pc[w] \in {"preview", "starting", "snapshot"} => running[link.dev] = before[k]
       /\ pc[w] = "clearing" => running[link.dev] = snapshot[k]
  /\ k \in restored => running[link.dev] = snapshot[k]

Alone ==
  /\ \A k \in 1 .. made \ disturbed : Undisturbed(k)
  /\ \A k \in Numbers : k > made => origin[k] = {}

ConfigInv == Typed /\ Audited /\ Tracked /\ Owned /\ SendsBack /\ Alone

-----------------------------------------------------------------------------
(* The parts of an edit are edits, and so is what is left of it. *)
LEMMA EditParts ==
  ASSUME NEW e \in Edits, NEW p \in Parts(e)
  PROVE  /\ p.add \subseteq e.add /\ p.del \subseteq e.del
         /\ Without(e, p) \in Edits
         /\ Without(e, p).add \subseteq e.add /\ Without(e, p).del \subseteq e.del
         /\ \A config \in SUBSET Lines : Applied(config, p) \in SUBSET Lines
  BY DEF Edits, Parts, Without, Applied

(* What a worker sends leaves the configuration one. *)
LEMMA ChangeTypes ==
  ASSUME TypeOK, HistoryOK, NEW w \in Workers, NEW d \in Devices, NEW p \in Parts(todo[w]), Change(w, d, p)
  PROVE  /\ running' \in [Devices -> SUBSET Lines]
         /\ changed' \in [Workers -> SUBSET Devices]
         /\ disturbed' \in SUBSET (1 .. made)
         /\ disturbed \subseteq disturbed'
         /\ \A v \in Workers \ {w} : changed'[v] = changed[v]
<1>1. todo[w] \in Edits /\ running[d] \in SUBSET Lines
  BY DEF TypeOK
<1>2. Applied(running[d], p) \in SUBSET Lines
  BY <1>1, EditParts
<1>3. running' \in [Devices -> SUBSET Lines]
  BY <1>2 DEF Change, TypeOK
<1>4. changed' \in [Workers -> SUBSET Devices] /\ \A v \in Workers \ {w} : changed'[v] = changed[v]
  BY DEF Change, HistoryOK
<1>5. disturbed' \in SUBSET (1 .. made) /\ disturbed \subseteq disturbed'
  BY DEF Change, HistoryOK
<1> QED
  BY <1>3, <1>4, <1>5

(* Nothing to send is an edit too. *)
LEMMA NoEditIsEdit == NoEdit \in Edits /\ NoEdit.del = {} /\ NoEdit.add = {}
  BY DEF NoEdit, Edits

(* The session starts with the types right. *)
LEMMA TypedInit == Init => Typed
<1> SUFFICES ASSUME Init PROVE Typed
  OBVIOUS
<1> USE ConfigCommandAssumption, NoEditIsEdit DEF Init, Numbers, None
<1>1. links \in 0 .. MaxLinks /\ slot \in 0 .. made /\ made \in 0 .. MaxCommands
  OBVIOUS
<1>2. /\ pc \in [Workers -> {"idle"}] /\ work \in [Workers -> {0}] /\ todo \in [Workers -> Edits]
      /\ edit \in [Numbers -> Edits] /\ service \in [Numbers -> BOOLEAN]
      /\ refused \in [Workers -> BOOLEAN] /\ status \in [Workers -> {"none"}]
  OBVIOUS
<1>3. TypeOK
  BY <1>1, <1>2 DEF TypeOK
<1>4. snapshot \in [Numbers -> (SUBSET Lines) \cup {NoConfig}] /\ before \in [Numbers -> (SUBSET Lines) \cup {NoConfig}]
  <2> DEFINE Configs == (SUBSET Lines) \cup {NoConfig}
  <2>1. NoConfig \in Configs
    OBVIOUS
  <2> HIDE DEF Configs
  <2>2. snapshot \in [Numbers -> Configs] /\ before \in [Numbers -> Configs]
    BY <2>1
  <2> QED
    BY <2>2 DEF Configs
<1>5. handle \in [Workers -> Link \cup {NoLink}]
  OBVIOUS
<1>6. origin \in [Numbers -> SUBSET Devices] /\ changed \in [Workers -> SUBSET Devices]
  OBVIOUS
<1>7. HistoryOK
  BY <1>4, <1>5, <1>6 DEF HistoryOK
<1>8. Placed
  BY DEF Placed, Applying, Undoing, OverHandle
<1> QED
  BY <1>3, <1>7, <1>8 DEF Typed

(* Where a worker can be. *)
Places == {"idle", "preview", "starting", "snapshot", "sending", "storing", "reading", "verifying",
           "clearing", "loading", "asking", "saving", "typing"}

(* Every step keeps the types ... *)
LEMMA TypesStep == Typed /\ [Next]_vars => (TypeOK /\ HistoryOK)'
<1>1. SUFFICES ASSUME Typed, [Next]_vars PROVE (TypeOK /\ HistoryOK)'
  OBVIOUS
<1>2. USE ConfigCommandAssumption DEF Typed, TypeOK, HistoryOK, Numbers, None
<1>Connect. ASSUME NEW d \in Devices, Connect(d) PROVE (TypeOK /\ HistoryOK)'
  BY <1>1, <1>Connect DEF Connect, Relinked, network, commands, Link
<1>Disconnect. ASSUME Disconnect PROVE (TypeOK /\ HistoryOK)'
  BY <1>1, <1>Disconnect DEF Disconnect, Relinked, Alive, network, commands
<1>ExecConfig. ASSUME NEW w \in Workers, NEW e \in Edits \ {NoEdit}, ExecConfig(w, e) PROVE (TypeOK /\ HistoryOK)'
  BY <1>1, <1>ExecConfig DEF ExecConfig, Begin, Goto, Issue, Alive, network, commands, Link, NoLink
<1>RunService. ASSUME NEW w \in Workers, NEW e \in Edits \ {NoEdit}, RunService(w, e) PROVE (TypeOK /\ HistoryOK)'
  BY <1>1, <1>RunService DEF RunService, Begin, Goto, Issue, Alive, network, commands, Link, NoLink
<1>RollbackLastConfig. ASSUME NEW w \in Workers, RollbackLastConfig(w) PROVE (TypeOK /\ HistoryOK)'
  BY <1>1, <1>RollbackLastConfig, NoEditIsEdit DEF RollbackLastConfig, Begin, Goto, network, commands
<1>PreviewGoesOn. ASSUME NEW w \in Workers, PreviewGoesOn(w) PROVE (TypeOK /\ HistoryOK)'
  BY <1>1, <1>PreviewGoesOn DEF PreviewGoesOn, Goto, network, commands
<1>PreviewStops. ASSUME NEW w \in Workers, PreviewStops(w) PROVE (TypeOK /\ HistoryOK)'
  BY <1>1, <1>PreviewStops DEF PreviewStops, End, Goto, network, commands
<1>ServiceStarts. ASSUME NEW w \in Workers, ServiceStarts(w) PROVE (TypeOK /\ HistoryOK)'
  BY <1>1, <1>ServiceStarts DEF ServiceStarts, Goto, Alive, network, commands
<1>ServiceStops. ASSUME NEW w \in Workers, ServiceStops(w) PROVE (TypeOK /\ HistoryOK)'
  BY <1>1, <1>ServiceStops DEF ServiceStops, End, Goto, network, commands
<1>Snapshot. ASSUME NEW w \in Workers, Snapshot(w) PROVE (TypeOK /\ HistoryOK)'
  <2>1. link.dev \in Devices
    BY <1>1, <1>Snapshot DEF Snapshot, Reaches, Alive, Link, NoLink
  <2>2. running[link.dev] \in SUBSET Lines
    BY <1>1, <2>1
  <2>3. work[w] \in Numbers
    BY <1>1, <1>Snapshot DEF Snapshot, Placed
  <2>4. /\ snapshot' \in [Numbers -> (SUBSET Lines) \cup {NoConfig}]
        /\ origin' \in [Numbers -> SUBSET Devices]
        /\ \A k \in Numbers : snapshot'[k] = snapshot[k] \/ snapshot'[k] \in SUBSET Lines
    BY <1>1, <1>Snapshot, <2>1, <2>2, <2>3 DEF Snapshot
  <2>5. pc' \in [Workers -> Places]
    BY <1>1, <1>Snapshot DEF Snapshot, Goto, Places
  <2>6. slot # None => slot \in Numbers
    BY <1>1
  <2> QED
    BY <1>1, <1>Snapshot, <2>4, <2>5, <2>6 DEF Snapshot, network, commands, Places
<1>SnapshotFails. ASSUME NEW w \in Workers, SnapshotFails(w) PROVE (TypeOK /\ HistoryOK)'
  BY <1>1, <1>SnapshotFails DEF SnapshotFails, Invalidate, End, Goto, network, commands
<1>Store. ASSUME NEW w \in Workers, Store(w) PROVE (TypeOK /\ HistoryOK)'
  <2>1. snapshot[work[w]] \in SUBSET Lines
    BY <1>1, <1>Store DEF Store, Placed
  <2>2. work[w] \in 1 .. made
    BY <1>1, <1>Store DEF Store, Placed
  <2>3. overlapped' \in SUBSET (1 .. made)
    BY <1>1, <1>Store, <2>2 DEF Store
  <2>4. status' \in [Workers -> {"none", "ok", "partial", "error", "blocked"}]
    BY <1>1, <1>Store DEF Store, End
  <2> QED
    BY <1>1, <1>Store, <2>1, <2>2, <2>3, <2>4 DEF Store, End, Goto, network, commands
<1>SendConfig. ASSUME NEW w \in Workers, SendConfig(w) PROVE (TypeOK /\ HistoryOK)'
  <2>1. CASE Alive
    <3>1. PICK p \in Parts(todo[w]), r \in BOOLEAN :
            Change(w, link.dev, p) /\ refused' = [refused EXCEPT ![w] = r]
      BY <1>SendConfig, <2>1 DEF SendConfig
    <3>2. link.dev \in Devices
      BY <1>1, <2>1 DEF Alive, Link, NoLink
    <3>3. /\ running' \in [Devices -> SUBSET Lines]
          /\ changed' \in [Workers -> SUBSET Devices]
          /\ disturbed' \in SUBSET (1 .. made)
      BY <1>1, <3>1, <3>2, ChangeTypes
    <3>4. refused' \in [Workers -> BOOLEAN]
      BY <1>1, <3>1
    <3> QED
      BY <1>1, <1>SendConfig, <3>3, <3>4 DEF SendConfig, Goto, AfterSending, commands
  <2>2. CASE ~Alive
    BY <1>1, <1>SendConfig, <2>2 DEF SendConfig, Goto, AfterSending, commands
  <2> QED
    BY <2>1, <2>2
<1>SendServiceLine. ASSUME NEW w \in Workers, SendServiceLine(w) PROVE (TypeOK /\ HistoryOK)'
  <2>1. PICK p \in OneLine(todo[w]) :
          /\ todo' = [todo EXCEPT ![w] = Without(@, p)]
          /\ \/ Alive /\ Change(w, link.dev, p)
             \/ UNCHANGED <<running, changed, disturbed>>
    BY <1>SendServiceLine DEF SendServiceLine
  <2>2. p \in Parts(todo[w]) /\ todo[w] \in Edits
    BY <1>1, <2>1 DEF OneLine
  <2>3. Without(todo[w], p) \in Edits
    BY <2>2, EditParts
  <2>4. todo' \in [Workers -> Edits]
    BY <1>1, <2>1, <2>3
  <2>5. Alive => link.dev \in Devices
    BY <1>1 DEF Alive, Link, NoLink
  <2>6. /\ running' \in [Devices -> SUBSET Lines]
        /\ changed' \in [Workers -> SUBSET Devices]
        /\ disturbed' \in SUBSET (1 .. made)
    BY <1>1, <2>1, <2>2, <2>5, ChangeTypes
  <2> QED
    BY <1>1, <1>SendServiceLine, <2>4, <2>6 DEF SendServiceLine, commands
<1>SendServiceDone. ASSUME NEW w \in Workers, SendServiceDone(w) PROVE (TypeOK /\ HistoryOK)'
  BY <1>1, <1>SendServiceDone DEF SendServiceDone, Goto, AfterSending, network, commands
<1>SendRaises. ASSUME NEW w \in Workers, SendRaises(w) PROVE (TypeOK /\ HistoryOK)'
  BY <1>1, <1>SendRaises DEF SendRaises, Invalidate, End, Goto, network, commands
<1>ReadCurrent. ASSUME NEW w \in Workers, ReadCurrent(w) PROVE (TypeOK /\ HistoryOK)'
  <2>1. snapshot[work[w]] \in SUBSET Lines
    BY <1>1, <1>ReadCurrent DEF ReadCurrent, Placed, Undoing
  <2>2. [add |-> snapshot[work[w]] \ running[link.dev], del |-> {}] \in Edits
    BY <2>1 DEF Edits
  <2>3. todo' \in [Workers -> Edits]
    BY <1>1, <1>ReadCurrent, <2>2 DEF ReadCurrent
  <2>4. pc' \in [Workers -> Places]
    BY <1>1, <1>ReadCurrent DEF ReadCurrent, Goto, Places
  <2> QED
    BY <1>1, <1>ReadCurrent, <2>3, <2>4 DEF ReadCurrent, network, commands, Places
<1>ReadFails. ASSUME NEW w \in Workers, ReadFails(w) PROVE (TypeOK /\ HistoryOK)'
  BY <1>1, <1>ReadFails DEF ReadFails, Invalidate, End, Goto, network, commands
<1>Verify. ASSUME NEW w \in Workers, Verify(w) PROVE (TypeOK /\ HistoryOK)'
  BY <1>1, <1>Verify DEF Verify, Goto, End, Reaches, Alive, network, commands
<1>Clear. ASSUME NEW w \in Workers, Clear(w) PROVE (TypeOK /\ HistoryOK)'
  <2>1. work[w] \in 1 .. made
    BY <1>1, <1>Clear DEF Clear, Placed, Undoing
  <2>2. restored' \in SUBSET (1 .. made)
    BY <1>1, <1>Clear, <2>1 DEF Clear
  <2> QED
    BY <1>1, <1>Clear, <2>2 DEF Clear, End, Goto, network, commands
<1>NapalmPreview. ASSUME NEW w \in Workers, NapalmPreview(w) PROVE (TypeOK /\ HistoryOK)'
  BY <1>1, <1>NapalmPreview DEF NapalmPreview, End, Goto, network, commands
<1>Approved. ASSUME NEW w \in Workers, Approved(w) PROVE (TypeOK /\ HistoryOK)'
  BY <1>1, <1>Approved DEF Approved, Goto, network, commands
<1>NapalmBlocked. ASSUME NEW w \in Workers, NapalmBlocked(w) PROVE (TypeOK /\ HistoryOK)'
  BY <1>1, <1>NapalmBlocked DEF NapalmBlocked, End, Goto, network, commands
<1>NapalmSnapshot. ASSUME NEW w \in Workers, NapalmSnapshot(w) PROVE (TypeOK /\ HistoryOK)'
  BY <1>1, <1>NapalmSnapshot DEF NapalmSnapshot, Goto, network, commands
<1>NapalmLine. ASSUME NEW w \in Workers, NapalmLine(w) PROVE (TypeOK /\ HistoryOK)'
  <2>1. PICK p \in OneLine(todo[w]) :
          /\ todo' = [todo EXCEPT ![w] = Without(@, p)]
          /\ Change(w, link.dev, p)
    BY <1>NapalmLine DEF NapalmLine
  <2>2. p \in Parts(todo[w]) /\ todo[w] \in Edits
    BY <1>1, <2>1 DEF OneLine
  <2>3. Without(todo[w], p) \in Edits
    BY <2>2, EditParts
  <2>4. todo' \in [Workers -> Edits]
    BY <1>1, <2>1, <2>3
  <2>5. TRUE => link.dev \in Devices
    BY <1>1, <1>NapalmLine DEF Alive, Link, NoLink, NapalmLine, HandleAlive, Placed, OverHandle
  <2>6. /\ running' \in [Devices -> SUBSET Lines]
        /\ changed' \in [Workers -> SUBSET Devices]
        /\ disturbed' \in SUBSET (1 .. made)
    BY <1>1, <2>1, <2>2, <2>5, ChangeTypes
  <2> QED
    BY <1>1, <1>NapalmLine, <2>4, <2>6 DEF NapalmLine, commands
<1>NapalmRejected. ASSUME NEW w \in Workers, NapalmRejected(w) PROVE (TypeOK /\ HistoryOK)'
  BY <1>1, <1>NapalmRejected DEF NapalmRejected, End, Goto, network, commands
<1>NapalmDone. ASSUME NEW w \in Workers, NapalmDone(w) PROVE (TypeOK /\ HistoryOK)'
  BY <1>1, <1>NapalmDone DEF NapalmDone, End, Goto, network, commands
<1>Stutter. ASSUME UNCHANGED vars PROVE (TypeOK /\ HistoryOK)'
  BY <1>1, <1>Stutter DEF vars, network, commands
<1> QED
  BY <1>1, <1>Connect, <1>Disconnect, <1>ExecConfig, <1>RunService, <1>RollbackLastConfig,
     <1>PreviewGoesOn, <1>PreviewStops, <1>ServiceStarts, <1>ServiceStops, <1>Snapshot,
     <1>SnapshotFails, <1>Store, <1>SendConfig, <1>SendServiceLine, <1>SendServiceDone,
     <1>SendRaises, <1>ReadCurrent, <1>ReadFails, <1>Verify, <1>Clear, <1>NapalmPreview,
     <1>Approved, <1>NapalmBlocked, <1>NapalmSnapshot, <1>NapalmLine, <1>NapalmRejected,
     <1>NapalmDone, <1>Stutter DEF Next, Execute, Send, Rollback, Napalm

(* ... and what a worker is doing where it is. *)
LEMMA PlacedStep == Typed /\ [Next]_vars => Placed'
<1>1. SUFFICES ASSUME Typed, [Next]_vars PROVE Placed'
  OBVIOUS
<1>2. USE ConfigCommandAssumption DEF Typed, Placed, Numbers, None, Applying, Undoing, OverHandle
<1>Connect. ASSUME NEW d \in Devices, Connect(d) PROVE Placed'
  BY <1>1, <1>Connect DEF Connect, Relinked, network, commands, TypeOK, HistoryOK
<1>Disconnect. ASSUME Disconnect PROVE Placed'
  BY <1>1, <1>Disconnect DEF Disconnect, Relinked, Alive, network, commands, TypeOK, HistoryOK
<1>ExecConfig. ASSUME NEW w \in Workers, NEW e \in Edits \ {NoEdit}, ExecConfig(w, e) PROVE Placed'
  BY <1>1, <1>ExecConfig DEF ExecConfig, Begin, Goto, Issue, Alive, network, commands, TypeOK, HistoryOK
<1>RunService. ASSUME NEW w \in Workers, NEW e \in Edits \ {NoEdit}, RunService(w, e) PROVE Placed'
  BY <1>1, <1>RunService DEF RunService, Begin, Goto, Issue, Alive, network, commands, TypeOK, HistoryOK
<1>RollbackLastConfig. ASSUME NEW w \in Workers, RollbackLastConfig(w) PROVE Placed'
  BY <1>1, <1>RollbackLastConfig DEF RollbackLastConfig, Begin, Goto, Alive, network, commands, TypeOK, HistoryOK
<1>PreviewGoesOn. ASSUME NEW w \in Workers, PreviewGoesOn(w) PROVE Placed'
  BY <1>1, <1>PreviewGoesOn DEF PreviewGoesOn, Goto, network, commands, TypeOK, HistoryOK
<1>PreviewStops. ASSUME NEW w \in Workers, PreviewStops(w) PROVE Placed'
  BY <1>1, <1>PreviewStops DEF PreviewStops, End, Goto, network, commands, TypeOK, HistoryOK
<1>ServiceStarts. ASSUME NEW w \in Workers, ServiceStarts(w) PROVE Placed'
  BY <1>1, <1>ServiceStarts DEF ServiceStarts, Goto, Alive, network, commands, TypeOK, HistoryOK
<1>ServiceStops. ASSUME NEW w \in Workers, ServiceStops(w) PROVE Placed'
  BY <1>1, <1>ServiceStops DEF ServiceStops, End, Goto, network, commands, TypeOK, HistoryOK
<1>Snapshot. ASSUME NEW w \in Workers, Snapshot(w) PROVE Placed'
  <2>1. link.dev \in Devices
    BY <1>1, <1>Snapshot DEF Snapshot, Reaches, Alive, Link, NoLink, TypeOK
  <2>2. running[link.dev] \in SUBSET Lines
    BY <1>1, <2>1 DEF TypeOK
  <2>3. \A k \in Numbers : snapshot'[k] = snapshot[k] \/ snapshot'[k] \in SUBSET Lines
    BY <1>1, <1>Snapshot, <2>2 DEF Snapshot, HistoryOK
  <2>4. snapshot'[work[w]] \in SUBSET Lines
    BY <1>1, <1>Snapshot, <2>2 DEF Snapshot, HistoryOK, TypeOK
  <2>5. \A v \in Workers : snapshot[work[v]] \in SUBSET Lines => snapshot'[work[v]] \in SUBSET Lines
    BY <1>1, <1>Snapshot, <2>2 DEF Snapshot, HistoryOK
  <2> QED
    BY <1>1, <1>Snapshot, <2>4, <2>5 DEF Snapshot, Goto, network, commands, TypeOK
<1>SnapshotFails. ASSUME NEW w \in Workers, SnapshotFails(w) PROVE Placed'
  BY <1>1, <1>SnapshotFails DEF SnapshotFails, Invalidate, End, Goto, network, commands, TypeOK, HistoryOK
<1>Store. ASSUME NEW w \in Workers, Store(w) PROVE Placed'
  BY <1>1, <1>Store DEF Store, End, Goto, network, commands, TypeOK, HistoryOK
<1>SendConfig. ASSUME NEW w \in Workers, SendConfig(w) PROVE Placed'
  BY <1>1, <1>SendConfig DEF SendConfig, Goto, AfterSending, Alive, network, commands, TypeOK, HistoryOK
<1>SendServiceLine. ASSUME NEW w \in Workers, SendServiceLine(w) PROVE Placed'
  BY <1>1, <1>SendServiceLine DEF SendServiceLine, Alive, network, commands, TypeOK, HistoryOK
<1>SendServiceDone. ASSUME NEW w \in Workers, SendServiceDone(w) PROVE Placed'
  BY <1>1, <1>SendServiceDone DEF SendServiceDone, Goto, AfterSending, network, commands, TypeOK, HistoryOK
<1>SendRaises. ASSUME NEW w \in Workers, SendRaises(w) PROVE Placed'
  BY <1>1, <1>SendRaises DEF SendRaises, Invalidate, End, Goto, network, commands, TypeOK, HistoryOK
<1>ReadCurrent. ASSUME NEW w \in Workers, ReadCurrent(w) PROVE Placed'
  BY <1>1, <1>ReadCurrent DEF ReadCurrent, Goto, Reaches, Alive, network, commands, TypeOK, HistoryOK
<1>ReadFails. ASSUME NEW w \in Workers, ReadFails(w) PROVE Placed'
  BY <1>1, <1>ReadFails DEF ReadFails, Invalidate, End, Goto, network, commands, TypeOK, HistoryOK
<1>Verify. ASSUME NEW w \in Workers, Verify(w) PROVE Placed'
  BY <1>1, <1>Verify DEF Verify, Goto, End, Reaches, Alive, network, commands, TypeOK, HistoryOK
<1>Clear. ASSUME NEW w \in Workers, Clear(w) PROVE Placed'
  BY <1>1, <1>Clear DEF Clear, End, Goto, network, commands, TypeOK, HistoryOK
<1>NapalmPreview. ASSUME NEW w \in Workers, NapalmPreview(w) PROVE Placed'
  BY <1>1, <1>NapalmPreview DEF NapalmPreview, End, Goto, network, commands, TypeOK, HistoryOK
<1>Approved. ASSUME NEW w \in Workers, Approved(w) PROVE Placed'
  BY <1>1, <1>Approved DEF Approved, Goto, network, commands, TypeOK, HistoryOK
<1>NapalmBlocked. ASSUME NEW w \in Workers, NapalmBlocked(w) PROVE Placed'
  BY <1>1, <1>NapalmBlocked DEF NapalmBlocked, End, Goto, network, commands, TypeOK, HistoryOK
<1>NapalmSnapshot. ASSUME NEW w \in Workers, NapalmSnapshot(w) PROVE Placed'
  BY <1>1, <1>NapalmSnapshot DEF NapalmSnapshot, Goto, network, commands, TypeOK, HistoryOK
<1>NapalmLine. ASSUME NEW w \in Workers, NapalmLine(w) PROVE Placed'
  BY <1>1, <1>NapalmLine DEF NapalmLine, HandleAlive, network, commands, TypeOK, HistoryOK
<1>NapalmRejected. ASSUME NEW w \in Workers, NapalmRejected(w) PROVE Placed'
  BY <1>1, <1>NapalmRejected DEF NapalmRejected, End, Goto, network, commands, TypeOK, HistoryOK
<1>NapalmDone. ASSUME NEW w \in Workers, NapalmDone(w) PROVE Placed'
  BY <1>1, <1>NapalmDone DEF NapalmDone, End, Goto, network, commands, TypeOK, HistoryOK
<1>Stutter. ASSUME UNCHANGED vars PROVE Placed'
  BY <1>1, <1>Stutter DEF vars, network, commands, TypeOK, HistoryOK
<1> QED
  BY <1>1, <1>Connect, <1>Disconnect, <1>ExecConfig, <1>RunService, <1>RollbackLastConfig,
     <1>PreviewGoesOn, <1>PreviewStops, <1>ServiceStarts, <1>ServiceStops, <1>Snapshot,
     <1>SnapshotFails, <1>Store, <1>SendConfig, <1>SendServiceLine, <1>SendServiceDone,
     <1>SendRaises, <1>ReadCurrent, <1>ReadFails, <1>Verify, <1>Clear, <1>NapalmPreview,
     <1>Approved, <1>NapalmBlocked, <1>NapalmSnapshot, <1>NapalmLine, <1>NapalmRejected,
     <1>NapalmDone, <1>Stutter DEF Next, Execute, Send, Rollback, Napalm

(* Together: every step keeps the types and the places. *)
LEMMA TypedStep == Typed /\ [Next]_vars => Typed'
  BY TypesStep, PlacedStep DEF Typed

(* A worker that changes a device disturbs every command but its own. *)
LEMMA ChangeEffect ==
  ASSUME Typed, NEW w \in Workers, NEW d \in Devices, NEW p \in Parts(todo[w]), Change(w, d, p)
  PROVE  /\ \A v \in Workers \ {w} : changed'[v] = changed[v]
         /\ changed[w] \subseteq changed'[w]
         /\ disturbed \subseteq disturbed'
         /\ running' # running => 1 .. made \ {work[w]} \subseteq disturbed'
<1>1. running' = running \/ Applied(running[d], p) # running[d]
  BY DEF Change, Typed, TypeOK
<1> QED
  BY <1>1 DEF Change, Typed, TypeOK, HistoryOK

(* At the start no worker has changed anything ... *)
LEMMA AuditedInit == Init => Audited
  BY DEF Init, Audited, Untouched, ChangesAudited, Idle

(* Every step accounts for what has been changed. *)
LEMMA AuditedStep == Typed /\ Audited /\ [Next]_vars => Audited'
<1>1. SUFFICES ASSUME Typed /\ Audited, [Next]_vars PROVE Audited'
  OBVIOUS
<1>2. USE ConfigCommandAssumption DEF Audited, Untouched, ChangesAudited, Idle, Numbers, None
<1>Connect. ASSUME NEW d \in Devices, Connect(d) PROVE Audited'
  BY <1>1, <1>Connect DEF Connect, Relinked, network, commands, Typed, TypeOK, HistoryOK, Placed, OverHandle
<1>Disconnect. ASSUME Disconnect PROVE Audited'
  BY <1>1, <1>Disconnect DEF Disconnect, Relinked, Alive, network, commands, Typed, TypeOK, HistoryOK, Placed, OverHandle
<1>ExecConfig. ASSUME NEW w \in Workers, NEW e \in Edits \ {NoEdit}, ExecConfig(w, e) PROVE Audited'
  BY <1>1, <1>ExecConfig DEF ExecConfig, Begin, Goto, Issue, Alive, network, commands, Typed, TypeOK, HistoryOK, Placed, OverHandle
<1>RunService. ASSUME NEW w \in Workers, NEW e \in Edits \ {NoEdit}, RunService(w, e) PROVE Audited'
  BY <1>1, <1>RunService DEF RunService, Begin, Goto, Issue, Alive, network, commands, Typed, TypeOK, HistoryOK, Placed, OverHandle
<1>RollbackLastConfig. ASSUME NEW w \in Workers, RollbackLastConfig(w) PROVE Audited'
  BY <1>1, <1>RollbackLastConfig DEF RollbackLastConfig, Begin, Goto, Alive, network, commands, Typed, TypeOK, HistoryOK, Placed, OverHandle
<1>PreviewGoesOn. ASSUME NEW w \in Workers, PreviewGoesOn(w) PROVE Audited'
  BY <1>1, <1>PreviewGoesOn DEF PreviewGoesOn, Goto, network, commands, Typed, TypeOK, HistoryOK, Placed, OverHandle
<1>PreviewStops. ASSUME NEW w \in Workers, PreviewStops(w) PROVE Audited'
  BY <1>1, <1>PreviewStops DEF PreviewStops, End, Goto, network, commands, Typed, TypeOK, HistoryOK, Placed, OverHandle
<1>ServiceStarts. ASSUME NEW w \in Workers, ServiceStarts(w) PROVE Audited'
  <2>1. changed' = changed /\ work' = work /\ service' = service /\ napalm' = napalm
    BY <1>ServiceStarts DEF ServiceStarts, commands, network
  <2>2. /\ \A v \in Workers \ {w} : pc'[v] = pc[v] /\ status'[v] = status[v]
        /\ pc'[w] \in {"loading", "snapshot"}
    BY <1>1, <1>ServiceStarts DEF ServiceStarts, End, Goto, Typed, TypeOK
  <2>3. pc[w] = "starting" /\ changed[w] = {}
    BY <1>1, <1>ServiceStarts DEF ServiceStarts, Typed, Placed, Audited, Untouched
  <2>4. Untouched'
    BY <1>1, <2>1, <2>2, <2>3
  <2>5. ChangesAudited'
    BY <1>1, <2>1, <2>2, <2>3
  <2> QED
    BY <2>4, <2>5
<1>ServiceStops. ASSUME NEW w \in Workers, ServiceStops(w) PROVE Audited'
  BY <1>1, <1>ServiceStops DEF ServiceStops, End, Goto, network, commands, Typed, TypeOK, HistoryOK, Placed, OverHandle
<1>Snapshot. ASSUME NEW w \in Workers, Snapshot(w) PROVE Audited'
  BY <1>1, <1>Snapshot DEF Snapshot, Goto, Reaches, Alive, network, commands, Typed, TypeOK, HistoryOK, Placed, OverHandle
<1>SnapshotFails. ASSUME NEW w \in Workers, SnapshotFails(w) PROVE Audited'
  BY <1>1, <1>SnapshotFails DEF SnapshotFails, Invalidate, End, Goto, network, commands, Typed, TypeOK, HistoryOK, Placed, OverHandle
<1>Store. ASSUME NEW w \in Workers, Store(w) PROVE Audited'
  BY <1>1, <1>Store DEF Store, End, Goto, network, commands, Typed, TypeOK, HistoryOK, Placed, OverHandle
<1>SendConfig. ASSUME NEW w \in Workers, SendConfig(w) PROVE Audited'
  <2>1. \A v \in Workers \ {w} : changed'[v] = changed[v]
    BY <1>1, <1>SendConfig DEF SendConfig, Change, Typed, HistoryOK
  <2> QED
    BY <1>1, <1>SendConfig, <2>1 DEF SendConfig, Goto, AfterSending, commands, Typed, TypeOK, HistoryOK, Placed
<1>SendServiceLine. ASSUME NEW w \in Workers, SendServiceLine(w) PROVE Audited'
  <2>1. \A v \in Workers \ {w} : changed'[v] = changed[v]
    BY <1>1, <1>SendServiceLine DEF SendServiceLine, Change, Typed, HistoryOK
  <2> QED
    BY <1>1, <1>SendServiceLine, <2>1 DEF SendServiceLine, Goto, AfterSending, commands, Typed, TypeOK, HistoryOK, Placed
<1>SendServiceDone. ASSUME NEW w \in Workers, SendServiceDone(w) PROVE Audited'
  BY <1>1, <1>SendServiceDone DEF SendServiceDone, Goto, AfterSending, network, commands, Typed, TypeOK, HistoryOK, Placed, OverHandle
<1>SendRaises. ASSUME NEW w \in Workers, SendRaises(w) PROVE Audited'
  <2>1. changed' = changed /\ work' = work /\ service' = service /\ napalm' = napalm /\ pc[w] = "sending"
    BY <1>SendRaises DEF SendRaises, commands, network
  <2>2. CASE pc' = [pc EXCEPT ![w] = "storing"] /\ status' = status
    BY <1>1, <2>1, <2>2 DEF Typed, TypeOK
  <2>3. CASE End(w, "error") \/ End(w, "partial")
    <3>1. /\ \A v \in Workers \ {w} : pc'[v] = pc[v] /\ status'[v] = status[v]
          /\ pc'[w] = "idle" /\ status'[w] \in {"error", "partial"}
      BY <1>1, <2>3 DEF End, Goto, Typed, TypeOK
    <3> QED
      BY <1>1, <2>1, <3>1 DEF Typed, Placed
  <2> QED
    BY <1>SendRaises, <2>2, <2>3 DEF SendRaises, Goto
<1>ReadCurrent. ASSUME NEW w \in Workers, ReadCurrent(w) PROVE Audited'
  BY <1>1, <1>ReadCurrent DEF ReadCurrent, Goto, Reaches, Alive, network, commands, Typed, TypeOK, HistoryOK, Placed, OverHandle
<1>ReadFails. ASSUME NEW w \in Workers, ReadFails(w) PROVE Audited'
  BY <1>1, <1>ReadFails DEF ReadFails, Invalidate, End, Goto, network, commands, Typed, TypeOK, HistoryOK, Placed, OverHandle
<1>Verify. ASSUME NEW w \in Workers, Verify(w) PROVE Audited'
  <2>1. changed' = changed /\ work' = work /\ service' = service /\ napalm' = napalm /\ pc[w] = "verifying"
    BY <1>Verify DEF Verify, commands, network
  <2>2. CASE pc' = [pc EXCEPT ![w] = "clearing"] /\ status' = status
    BY <1>1, <2>1, <2>2 DEF Typed, TypeOK
  <2>3. CASE End(w, "error") \/ End(w, "partial")
    <3>1. /\ \A v \in Workers \ {w} : pc'[v] = pc[v] /\ status'[v] = status[v]
          /\ pc'[w] = "idle" /\ status'[w] \in {"error", "partial"}
      BY <1>1, <2>3 DEF End, Goto, Typed, TypeOK
    <3> QED
      BY <1>1, <2>1, <3>1 DEF Typed, Placed
  <2> QED
    BY <1>Verify, <2>2, <2>3 DEF Verify, Goto
<1>Clear. ASSUME NEW w \in Workers, Clear(w) PROVE Audited'
  BY <1>1, <1>Clear DEF Clear, End, Goto, network, commands, Typed, TypeOK, HistoryOK, Placed, OverHandle
<1>NapalmPreview. ASSUME NEW w \in Workers, NapalmPreview(w) PROVE Audited'
  <2>1. changed' = changed /\ work' = work /\ service' = service /\ napalm' = napalm
    BY <1>NapalmPreview DEF NapalmPreview, commands, network
  <2>2. /\ \A v \in Workers \ {w} : pc'[v] = pc[v] /\ status'[v] = status[v]
        /\ pc'[w] \in {"idle", "asking"}
    BY <1>1, <1>NapalmPreview DEF NapalmPreview, End, Goto, Typed, TypeOK
  <2>3. pc[w] = "loading" /\ changed[w] = {}
    BY <1>1, <1>NapalmPreview DEF NapalmPreview, Typed, Placed, Audited, Untouched
  <2>4. Untouched'
    BY <1>1, <2>1, <2>2, <2>3
  <2>5. ChangesAudited'
    BY <1>1, <2>1, <2>2, <2>3
  <2> QED
    BY <2>4, <2>5
<1>Approved. ASSUME NEW w \in Workers, Approved(w) PROVE Audited'
  BY <1>1, <1>Approved DEF Approved, Goto, network, commands, Typed, TypeOK, HistoryOK, Placed, OverHandle
<1>NapalmBlocked. ASSUME NEW w \in Workers, NapalmBlocked(w) PROVE Audited'
  BY <1>1, <1>NapalmBlocked DEF NapalmBlocked, End, Goto, network, commands, Typed, TypeOK, HistoryOK, Placed, OverHandle
<1>NapalmSnapshot. ASSUME NEW w \in Workers, NapalmSnapshot(w) PROVE Audited'
  BY <1>1, <1>NapalmSnapshot DEF NapalmSnapshot, Goto, network, commands, Typed, TypeOK, HistoryOK, Placed, OverHandle
<1>NapalmLine. ASSUME NEW w \in Workers, NapalmLine(w) PROVE Audited'
  <2>1. \A v \in Workers \ {w} : changed'[v] = changed[v]
    BY <1>1, <1>NapalmLine DEF NapalmLine, Change, Typed, HistoryOK
  <2> QED
    BY <1>1, <1>NapalmLine, <2>1 DEF NapalmLine, Goto, AfterSending, commands, Typed, TypeOK, HistoryOK, Placed, OverHandle
<1>NapalmRejected. ASSUME NEW w \in Workers, NapalmRejected(w) PROVE Audited'
  BY <1>1, <1>NapalmRejected DEF NapalmRejected, End, Goto, network, commands, Typed, TypeOK, HistoryOK, Placed, OverHandle
<1>NapalmDone. ASSUME NEW w \in Workers, NapalmDone(w) PROVE Audited'
  <2>1. changed' = changed /\ work' = work /\ service' = service /\ napalm' = napalm
    BY <1>NapalmDone DEF NapalmDone, commands, network
  <2>2. /\ \A v \in Workers \ {w} : pc'[v] = pc[v] /\ status'[v] = status[v]
        /\ pc'[w] = "idle" /\ status'[w] \in {"error", "ok"}
    BY <1>1, <1>NapalmDone DEF NapalmDone, End, Goto, Typed, TypeOK
  <2>3. pc[w] = "typing"
    BY <1>1, <1>NapalmDone DEF NapalmDone, Typed, Placed
  <2>4. Untouched'
    BY <1>1, <2>1, <2>2, <2>3
  <2>5. ChangesAudited'
    BY <1>1, <2>1, <2>2, <2>3
  <2> QED
    BY <2>4, <2>5
<1>Stutter. ASSUME UNCHANGED vars PROVE Audited'
  BY <1>1, <1>Stutter DEF vars, network, commands, Typed, TypeOK, HistoryOK, Placed, OverHandle
<1> QED
  BY <1>1, <1>Connect, <1>Disconnect, <1>ExecConfig, <1>RunService, <1>RollbackLastConfig,
     <1>PreviewGoesOn, <1>PreviewStops, <1>ServiceStarts, <1>ServiceStops, <1>Snapshot,
     <1>SnapshotFails, <1>Store, <1>SendConfig, <1>SendServiceLine, <1>SendServiceDone,
     <1>SendRaises, <1>ReadCurrent, <1>ReadFails, <1>Verify, <1>Clear, <1>NapalmPreview,
     <1>Approved, <1>NapalmBlocked, <1>NapalmSnapshot, <1>NapalmLine, <1>NapalmRejected,
     <1>NapalmDone, <1>Stutter DEF Next, Execute, Send, Rollback, Napalm

(* ... none is rolling back ... *)
LEMMA TrackedInit == Init => Tracked
  BY DEF Init, Tracked

(* Every step keeps track of the slot. *)
LEMMA TrackedStep == Typed /\ Tracked /\ [Next]_vars => Tracked'
<1>1. SUFFICES ASSUME Typed /\ Tracked, [Next]_vars PROVE Tracked'
  OBVIOUS
<1>2. USE DEF Tracked, None
<1>Connect. ASSUME NEW d \in Devices, Connect(d) PROVE Tracked'
  BY <1>1, <1>Connect DEF Connect, Relinked, network, commands, Typed, TypeOK, Placed, Applying, Undoing
<1>Disconnect. ASSUME Disconnect PROVE Tracked'
  BY <1>1, <1>Disconnect DEF Disconnect, Relinked, Alive, network, commands, Typed, TypeOK, Placed, Applying, Undoing
<1>ExecConfig. ASSUME NEW w \in Workers, NEW e \in Edits \ {NoEdit}, ExecConfig(w, e) PROVE Tracked'
  BY <1>1, <1>ExecConfig DEF ExecConfig, Begin, Goto, Issue, Alive, network, commands, Typed, TypeOK, Placed, Applying, Undoing
<1>RunService. ASSUME NEW w \in Workers, NEW e \in Edits \ {NoEdit}, RunService(w, e) PROVE Tracked'
  BY <1>1, <1>RunService DEF RunService, Begin, Goto, Issue, Alive, network, commands, Typed, TypeOK, Placed, Applying, Undoing
<1>RollbackLastConfig. ASSUME NEW w \in Workers, RollbackLastConfig(w) PROVE Tracked'
  BY <1>1, <1>RollbackLastConfig DEF RollbackLastConfig, Begin, Goto, Alive, network, commands, Typed, TypeOK, Placed, Applying, Undoing
<1>PreviewGoesOn. ASSUME NEW w \in Workers, PreviewGoesOn(w) PROVE Tracked'
  BY <1>1, <1>PreviewGoesOn DEF PreviewGoesOn, Goto, network, commands, Typed, TypeOK, Placed, Applying, Undoing
<1>PreviewStops. ASSUME NEW w \in Workers, PreviewStops(w) PROVE Tracked'
  BY <1>1, <1>PreviewStops DEF PreviewStops, End, Goto, network, commands, Typed, TypeOK, Placed, Applying, Undoing
<1>ServiceStarts. ASSUME NEW w \in Workers, ServiceStarts(w) PROVE Tracked'
  BY <1>1, <1>ServiceStarts DEF ServiceStarts, Goto, Alive, network, commands, Typed, TypeOK, Placed, Applying, Undoing
<1>ServiceStops. ASSUME NEW w \in Workers, ServiceStops(w) PROVE Tracked'
  BY <1>1, <1>ServiceStops DEF ServiceStops, End, Goto, network, commands, Typed, TypeOK, Placed, Applying, Undoing
<1>Snapshot. ASSUME NEW w \in Workers, Snapshot(w) PROVE Tracked'
  BY <1>1, <1>Snapshot DEF Snapshot, Goto, Reaches, Alive, network, commands, Typed, TypeOK, Placed, Applying, Undoing
<1>SnapshotFails. ASSUME NEW w \in Workers, SnapshotFails(w) PROVE Tracked'
  BY <1>1, <1>SnapshotFails DEF SnapshotFails, Invalidate, End, Goto, network, commands, Typed, TypeOK, Placed, Applying, Undoing
<1>Store. ASSUME NEW w \in Workers, Store(w) PROVE Tracked'
  BY <1>1, <1>Store DEF Store, End, Goto, network, commands, Typed, TypeOK, Placed, Applying, Undoing
<1>SendConfig. ASSUME NEW w \in Workers, SendConfig(w) PROVE Tracked'
  BY <1>1, <1>SendConfig DEF SendConfig, Goto, AfterSending, Alive, network, commands, Typed, TypeOK, Placed, Applying, Undoing
<1>SendServiceLine. ASSUME NEW w \in Workers, SendServiceLine(w) PROVE Tracked'
  BY <1>1, <1>SendServiceLine DEF SendServiceLine, Alive, network, commands, Typed, TypeOK, Placed, Applying, Undoing
<1>SendServiceDone. ASSUME NEW w \in Workers, SendServiceDone(w) PROVE Tracked'
  BY <1>1, <1>SendServiceDone DEF SendServiceDone, Goto, AfterSending, network, commands, Typed, TypeOK, Placed, Applying, Undoing
<1>SendRaises. ASSUME NEW w \in Workers, SendRaises(w) PROVE Tracked'
  BY <1>1, <1>SendRaises DEF SendRaises, Invalidate, End, Goto, network, commands, Typed, TypeOK, Placed, Applying, Undoing
<1>ReadCurrent. ASSUME NEW w \in Workers, ReadCurrent(w) PROVE Tracked'
  BY <1>1, <1>ReadCurrent DEF ReadCurrent, Goto, Reaches, Alive, network, commands, Typed, TypeOK, Placed, Applying, Undoing
<1>ReadFails. ASSUME NEW w \in Workers, ReadFails(w) PROVE Tracked'
  BY <1>1, <1>ReadFails DEF ReadFails, Invalidate, End, Goto, network, commands, Typed, TypeOK, Placed, Applying, Undoing
<1>Verify. ASSUME NEW w \in Workers, Verify(w) PROVE Tracked'
  BY <1>1, <1>Verify DEF Verify, Goto, End, Reaches, Alive, network, commands, Typed, TypeOK, Placed, Applying, Undoing
<1>Clear. ASSUME NEW w \in Workers, Clear(w) PROVE Tracked'
  BY <1>1, <1>Clear DEF Clear, End, Goto, network, commands, Typed, TypeOK, Placed, Applying, Undoing
<1>NapalmPreview. ASSUME NEW w \in Workers, NapalmPreview(w) PROVE Tracked'
  BY <1>1, <1>NapalmPreview DEF NapalmPreview, End, Goto, network, commands, Typed, TypeOK, Placed, Applying, Undoing
<1>Approved. ASSUME NEW w \in Workers, Approved(w) PROVE Tracked'
  BY <1>1, <1>Approved DEF Approved, Goto, network, commands, Typed, TypeOK, Placed, Applying, Undoing
<1>NapalmBlocked. ASSUME NEW w \in Workers, NapalmBlocked(w) PROVE Tracked'
  BY <1>1, <1>NapalmBlocked DEF NapalmBlocked, End, Goto, network, commands, Typed, TypeOK, Placed, Applying, Undoing
<1>NapalmSnapshot. ASSUME NEW w \in Workers, NapalmSnapshot(w) PROVE Tracked'
  BY <1>1, <1>NapalmSnapshot DEF NapalmSnapshot, Goto, network, commands, Typed, TypeOK, Placed, Applying, Undoing
<1>NapalmLine. ASSUME NEW w \in Workers, NapalmLine(w) PROVE Tracked'
  BY <1>1, <1>NapalmLine DEF NapalmLine, HandleAlive, network, commands, Typed, TypeOK, Placed, Applying, Undoing
<1>NapalmRejected. ASSUME NEW w \in Workers, NapalmRejected(w) PROVE Tracked'
  BY <1>1, <1>NapalmRejected DEF NapalmRejected, End, Goto, network, commands, Typed, TypeOK, Placed, Applying, Undoing
<1>NapalmDone. ASSUME NEW w \in Workers, NapalmDone(w) PROVE Tracked'
  BY <1>1, <1>NapalmDone DEF NapalmDone, End, Goto, network, commands, Typed, TypeOK, Placed, Applying, Undoing
<1>Stutter. ASSUME UNCHANGED vars PROVE Tracked'
  BY <1>1, <1>Stutter DEF vars, network, commands, Typed, TypeOK, Placed, Applying, Undoing
<1> QED
  BY <1>1, <1>Connect, <1>Disconnect, <1>ExecConfig, <1>RunService, <1>RollbackLastConfig,
     <1>PreviewGoesOn, <1>PreviewStops, <1>ServiceStarts, <1>ServiceStops, <1>Snapshot,
     <1>SnapshotFails, <1>Store, <1>SendConfig, <1>SendServiceLine, <1>SendServiceDone,
     <1>SendRaises, <1>ReadCurrent, <1>ReadFails, <1>Verify, <1>Clear, <1>NapalmPreview,
     <1>Approved, <1>NapalmBlocked, <1>NapalmSnapshot, <1>NapalmLine, <1>NapalmRejected,
     <1>NapalmDone, <1>Stutter DEF Next, Execute, Send, Rollback, Napalm

(* ... none is applying a command ... *)
LEMMA OwnedInit == Init => Owned
  BY DEF Init, Owned, Executing

(* No step shares a command. *)
LEMMA OwnedStep == Typed /\ Owned /\ [Next]_vars => Owned'
<1>1. SUFFICES ASSUME Typed /\ Owned, [Next]_vars PROVE Owned'
  OBVIOUS
<1>2. USE DEF Owned, Executing, Stored, None
<1>Connect. ASSUME NEW d \in Devices, Connect(d) PROVE Owned'
  BY <1>1, <1>Connect DEF Connect, Relinked, network, commands, Typed, TypeOK, HistoryOK, Placed, Applying, Undoing
<1>Disconnect. ASSUME Disconnect PROVE Owned'
  BY <1>1, <1>Disconnect DEF Disconnect, Relinked, Alive, network, commands, Typed, TypeOK, HistoryOK, Placed, Applying, Undoing
<1>ExecConfig. ASSUME NEW w \in Workers, NEW e \in Edits \ {NoEdit}, ExecConfig(w, e) PROVE Owned'
  BY <1>1, <1>ExecConfig DEF ExecConfig, Begin, Goto, Issue, Alive, network, commands, Typed, TypeOK, HistoryOK, Placed, Applying, Undoing
<1>RunService. ASSUME NEW w \in Workers, NEW e \in Edits \ {NoEdit}, RunService(w, e) PROVE Owned'
  BY <1>1, <1>RunService DEF RunService, Begin, Goto, Issue, Alive, network, commands, Typed, TypeOK, HistoryOK, Placed, Applying, Undoing
<1>RollbackLastConfig. ASSUME NEW w \in Workers, RollbackLastConfig(w) PROVE Owned'
  BY <1>1, <1>RollbackLastConfig DEF RollbackLastConfig, Begin, Goto, Alive, network, commands, Typed, TypeOK, HistoryOK, Placed, Applying, Undoing
<1>PreviewGoesOn. ASSUME NEW w \in Workers, PreviewGoesOn(w) PROVE Owned'
  BY <1>1, <1>PreviewGoesOn DEF PreviewGoesOn, Goto, network, commands, Typed, TypeOK, HistoryOK, Placed, Applying, Undoing
<1>PreviewStops. ASSUME NEW w \in Workers, PreviewStops(w) PROVE Owned'
  BY <1>1, <1>PreviewStops DEF PreviewStops, End, Goto, network, commands, Typed, TypeOK, HistoryOK, Placed, Applying, Undoing
<1>ServiceStarts. ASSUME NEW w \in Workers, ServiceStarts(w) PROVE Owned'
  BY <1>1, <1>ServiceStarts DEF ServiceStarts, Goto, Alive, network, commands, Typed, TypeOK, HistoryOK, Placed, Applying, Undoing
<1>ServiceStops. ASSUME NEW w \in Workers, ServiceStops(w) PROVE Owned'
  BY <1>1, <1>ServiceStops DEF ServiceStops, End, Goto, network, commands, Typed, TypeOK, HistoryOK, Placed, Applying, Undoing
<1>Snapshot. ASSUME NEW w \in Workers, Snapshot(w) PROVE Owned'
  BY <1>1, <1>Snapshot DEF Snapshot, Goto, Reaches, Alive, network, commands, Typed, TypeOK, HistoryOK, Placed, Applying, Undoing
<1>SnapshotFails. ASSUME NEW w \in Workers, SnapshotFails(w) PROVE Owned'
  BY <1>1, <1>SnapshotFails DEF SnapshotFails, Invalidate, End, Goto, network, commands, Typed, TypeOK, HistoryOK, Placed, Applying, Undoing
<1>Store. ASSUME NEW w \in Workers, Store(w) PROVE Owned'
  BY <1>1, <1>Store DEF Store, End, Goto, network, commands, Typed, TypeOK, HistoryOK, Placed, Applying, Undoing
<1>SendConfig. ASSUME NEW w \in Workers, SendConfig(w) PROVE Owned'
  BY <1>1, <1>SendConfig DEF SendConfig, Goto, AfterSending, Alive, network, commands, Typed, TypeOK, HistoryOK, Placed, Applying, Undoing
<1>SendServiceLine. ASSUME NEW w \in Workers, SendServiceLine(w) PROVE Owned'
  BY <1>1, <1>SendServiceLine DEF SendServiceLine, Alive, network, commands, Typed, TypeOK, HistoryOK, Placed, Applying, Undoing
<1>SendServiceDone. ASSUME NEW w \in Workers, SendServiceDone(w) PROVE Owned'
  BY <1>1, <1>SendServiceDone DEF SendServiceDone, Goto, AfterSending, network, commands, Typed, TypeOK, HistoryOK, Placed, Applying, Undoing
<1>SendRaises. ASSUME NEW w \in Workers, SendRaises(w) PROVE Owned'
  <2>1. UNCHANGED <<slot, restored, work>>
    BY <1>SendRaises DEF SendRaises
  <2>2. CASE w \in rolling
    <3>1. pc'[w] = "idle" /\ rolling' = rolling \ {w} /\ \A v \in Workers \ {w} : pc'[v] = pc[v]
      BY <1>1, <1>SendRaises, <2>2 DEF SendRaises, End, Goto, Typed, TypeOK
    <3> QED
      BY <1>1, <2>1, <3>1
  <2>3. CASE w \notin rolling
    <3>1. /\ pc[w] = "sending" /\ pc'[w] = "storing" /\ rolling' = rolling
          /\ \A v \in Workers \ {w} : pc'[v] = pc[v]
      BY <1>1, <1>SendRaises, <2>3 DEF SendRaises, Goto, Typed, TypeOK
    <3> QED
      BY <1>1, <2>1, <3>1
  <2> QED
    BY <2>2, <2>3
<1>ReadCurrent. ASSUME NEW w \in Workers, ReadCurrent(w) PROVE Owned'
  BY <1>1, <1>ReadCurrent DEF ReadCurrent, Goto, Reaches, Alive, network, commands, Typed, TypeOK, HistoryOK, Placed, Applying, Undoing
<1>ReadFails. ASSUME NEW w \in Workers, ReadFails(w) PROVE Owned'
  BY <1>1, <1>ReadFails DEF ReadFails, Invalidate, End, Goto, network, commands, Typed, TypeOK, HistoryOK, Placed, Applying, Undoing
<1>Verify. ASSUME NEW w \in Workers, Verify(w) PROVE Owned'
  BY <1>1, <1>Verify DEF Verify, Goto, End, Reaches, Alive, network, commands, Typed, TypeOK, HistoryOK, Placed, Applying, Undoing
<1>Clear. ASSUME NEW w \in Workers, Clear(w) PROVE Owned'
  BY <1>1, <1>Clear DEF Clear, End, Goto, network, commands, Typed, TypeOK, HistoryOK, Placed, Applying, Undoing
<1>NapalmPreview. ASSUME NEW w \in Workers, NapalmPreview(w) PROVE Owned'
  BY <1>1, <1>NapalmPreview DEF NapalmPreview, End, Goto, network, commands, Typed, TypeOK, HistoryOK, Placed, Applying, Undoing
<1>Approved. ASSUME NEW w \in Workers, Approved(w) PROVE Owned'
  BY <1>1, <1>Approved DEF Approved, Goto, network, commands, Typed, TypeOK, HistoryOK, Placed, Applying, Undoing
<1>NapalmBlocked. ASSUME NEW w \in Workers, NapalmBlocked(w) PROVE Owned'
  BY <1>1, <1>NapalmBlocked DEF NapalmBlocked, End, Goto, network, commands, Typed, TypeOK, HistoryOK, Placed, Applying, Undoing
<1>NapalmSnapshot. ASSUME NEW w \in Workers, NapalmSnapshot(w) PROVE Owned'
  BY <1>1, <1>NapalmSnapshot DEF NapalmSnapshot, Goto, network, commands, Typed, TypeOK, HistoryOK, Placed, Applying, Undoing
<1>NapalmLine. ASSUME NEW w \in Workers, NapalmLine(w) PROVE Owned'
  BY <1>1, <1>NapalmLine DEF NapalmLine, HandleAlive, network, commands, Typed, TypeOK, HistoryOK, Placed, Applying, Undoing
<1>NapalmRejected. ASSUME NEW w \in Workers, NapalmRejected(w) PROVE Owned'
  BY <1>1, <1>NapalmRejected DEF NapalmRejected, End, Goto, network, commands, Typed, TypeOK, HistoryOK, Placed, Applying, Undoing
<1>NapalmDone. ASSUME NEW w \in Workers, NapalmDone(w) PROVE Owned'
  BY <1>1, <1>NapalmDone DEF NapalmDone, End, Goto, network, commands, Typed, TypeOK, HistoryOK, Placed, Applying, Undoing
<1>Stutter. ASSUME UNCHANGED vars PROVE Owned'
  BY <1>1, <1>Stutter DEF vars, network, commands, Typed, TypeOK, HistoryOK, Placed, Applying, Undoing
<1> QED
  BY <1>1, <1>Connect, <1>Disconnect, <1>ExecConfig, <1>RunService, <1>RollbackLastConfig,
     <1>PreviewGoesOn, <1>PreviewStops, <1>ServiceStarts, <1>ServiceStops, <1>Snapshot,
     <1>SnapshotFails, <1>Store, <1>SendConfig, <1>SendServiceLine, <1>SendServiceDone,
     <1>SendRaises, <1>ReadCurrent, <1>ReadFails, <1>Verify, <1>Clear, <1>NapalmPreview,
     <1>Approved, <1>NapalmBlocked, <1>NapalmSnapshot, <1>NapalmLine, <1>NapalmRejected,
     <1>NapalmDone, <1>Stutter DEF Next, Execute, Send, Rollback, Napalm

(* ... and none has lines to put back. *)
LEMMA SendsBackInit == Init => SendsBack
  BY DEF Init, SendsBack

(* No rollback comes by other lines. *)
LEMMA SendsBackStep == Typed /\ Owned /\ SendsBack /\ [Next]_vars => SendsBack'
<1>1. SUFFICES ASSUME Typed /\ Owned /\ SendsBack, [Next]_vars PROVE SendsBack'
  OBVIOUS
<1>2. USE DEF SendsBack, None
<1>Connect. ASSUME NEW d \in Devices, Connect(d) PROVE SendsBack'
  BY <1>1, <1>Connect DEF Connect, Relinked, network, commands, Typed, TypeOK, HistoryOK, Placed, Applying, Undoing, Owned, Executing, Stored, NoEdit, Numbers, OneLine, Parts, Without
<1>Disconnect. ASSUME Disconnect PROVE SendsBack'
  BY <1>1, <1>Disconnect DEF Disconnect, Relinked, Alive, network, commands, Typed, TypeOK, HistoryOK, Placed, Applying, Undoing, Owned, Executing, Stored, NoEdit, Numbers, OneLine, Parts, Without
<1>ExecConfig. ASSUME NEW w \in Workers, NEW e \in Edits \ {NoEdit}, ExecConfig(w, e) PROVE SendsBack'
  BY <1>1, <1>ExecConfig DEF ExecConfig, Begin, Goto, Issue, Alive, network, commands, Typed, TypeOK, HistoryOK, Placed, Applying, Undoing, Owned, Executing, Stored, NoEdit, Numbers, OneLine, Parts, Without
<1>RunService. ASSUME NEW w \in Workers, NEW e \in Edits \ {NoEdit}, RunService(w, e) PROVE SendsBack'
  BY <1>1, <1>RunService DEF RunService, Begin, Goto, Issue, Alive, network, commands, Typed, TypeOK, HistoryOK, Placed, Applying, Undoing, Owned, Executing, Stored, NoEdit, Numbers, OneLine, Parts, Without
<1>RollbackLastConfig. ASSUME NEW w \in Workers, RollbackLastConfig(w) PROVE SendsBack'
  BY <1>1, <1>RollbackLastConfig DEF RollbackLastConfig, Begin, Goto, Alive, network, commands, Typed, TypeOK, HistoryOK, Placed, Applying, Undoing, Owned, Executing, Stored, NoEdit, Numbers, OneLine, Parts, Without
<1>PreviewGoesOn. ASSUME NEW w \in Workers, PreviewGoesOn(w) PROVE SendsBack'
  BY <1>1, <1>PreviewGoesOn DEF PreviewGoesOn, Goto, network, commands, Typed, TypeOK, HistoryOK, Placed, Applying, Undoing, Owned, Executing, Stored, NoEdit, Numbers, OneLine, Parts, Without
<1>PreviewStops. ASSUME NEW w \in Workers, PreviewStops(w) PROVE SendsBack'
  BY <1>1, <1>PreviewStops DEF PreviewStops, End, Goto, network, commands, Typed, TypeOK, HistoryOK, Placed, Applying, Undoing, Owned, Executing, Stored, NoEdit, Numbers, OneLine, Parts, Without
<1>ServiceStarts. ASSUME NEW w \in Workers, ServiceStarts(w) PROVE SendsBack'
  BY <1>1, <1>ServiceStarts DEF ServiceStarts, Goto, Alive, network, commands, Typed, TypeOK, HistoryOK, Placed, Applying, Undoing, Owned, Executing, Stored, NoEdit, Numbers, OneLine, Parts, Without
<1>ServiceStops. ASSUME NEW w \in Workers, ServiceStops(w) PROVE SendsBack'
  BY <1>1, <1>ServiceStops DEF ServiceStops, End, Goto, network, commands, Typed, TypeOK, HistoryOK, Placed, Applying, Undoing, Owned, Executing, Stored, NoEdit, Numbers, OneLine, Parts, Without
<1>Snapshot. ASSUME NEW w \in Workers, Snapshot(w) PROVE SendsBack'
  BY <1>1, <1>Snapshot DEF Snapshot, Goto, Reaches, Alive, network, commands, Typed, TypeOK, HistoryOK, Placed, Applying, Undoing, Owned, Executing, Stored, NoEdit, Numbers, OneLine, Parts, Without
<1>SnapshotFails. ASSUME NEW w \in Workers, SnapshotFails(w) PROVE SendsBack'
  BY <1>1, <1>SnapshotFails DEF SnapshotFails, Invalidate, End, Goto, network, commands, Typed, TypeOK, HistoryOK, Placed, Applying, Undoing, Owned, Executing, Stored, NoEdit, Numbers, OneLine, Parts, Without
<1>Store. ASSUME NEW w \in Workers, Store(w) PROVE SendsBack'
  BY <1>1, <1>Store DEF Store, End, Goto, network, commands, Typed, TypeOK, HistoryOK, Placed, Applying, Undoing, Owned, Executing, Stored, NoEdit, Numbers, OneLine, Parts, Without
<1>SendConfig. ASSUME NEW w \in Workers, SendConfig(w) PROVE SendsBack'
  BY <1>1, <1>SendConfig DEF SendConfig, Goto, AfterSending, Alive, network, commands, Typed, TypeOK, HistoryOK, Placed, Applying, Undoing, Owned, Executing, Stored, NoEdit, Numbers, OneLine, Parts, Without
<1>SendServiceLine. ASSUME NEW w \in Workers, SendServiceLine(w) PROVE SendsBack'
  BY <1>1, <1>SendServiceLine DEF SendServiceLine, Alive, network, commands, Typed, TypeOK, HistoryOK, Placed, Applying, Undoing, Owned, Executing, Stored, NoEdit, Numbers, OneLine, Parts, Without
<1>SendServiceDone. ASSUME NEW w \in Workers, SendServiceDone(w) PROVE SendsBack'
  BY <1>1, <1>SendServiceDone DEF SendServiceDone, Goto, AfterSending, network, commands, Typed, TypeOK, HistoryOK, Placed, Applying, Undoing, Owned, Executing, Stored, NoEdit, Numbers, OneLine, Parts, Without
<1>SendRaises. ASSUME NEW w \in Workers, SendRaises(w) PROVE SendsBack'
  BY <1>1, <1>SendRaises DEF SendRaises, Invalidate, End, Goto, network, commands, Typed, TypeOK, HistoryOK, Placed, Applying, Undoing, Owned, Executing, Stored, NoEdit, Numbers, OneLine, Parts, Without
<1>ReadCurrent. ASSUME NEW w \in Workers, ReadCurrent(w) PROVE SendsBack'
  BY <1>1, <1>ReadCurrent DEF ReadCurrent, Goto, Reaches, Alive, network, commands, Typed, TypeOK, HistoryOK, Placed, Applying, Undoing, Owned, Executing, Stored, NoEdit, Numbers, OneLine, Parts, Without
<1>ReadFails. ASSUME NEW w \in Workers, ReadFails(w) PROVE SendsBack'
  BY <1>1, <1>ReadFails DEF ReadFails, Invalidate, End, Goto, network, commands, Typed, TypeOK, HistoryOK, Placed, Applying, Undoing, Owned, Executing, Stored, NoEdit, Numbers, OneLine, Parts, Without
<1>Verify. ASSUME NEW w \in Workers, Verify(w) PROVE SendsBack'
  BY <1>1, <1>Verify DEF Verify, Goto, End, Reaches, Alive, network, commands, Typed, TypeOK, HistoryOK, Placed, Applying, Undoing, Owned, Executing, Stored, NoEdit, Numbers, OneLine, Parts, Without
<1>Clear. ASSUME NEW w \in Workers, Clear(w) PROVE SendsBack'
  BY <1>1, <1>Clear DEF Clear, End, Goto, network, commands, Typed, TypeOK, HistoryOK, Placed, Applying, Undoing, Owned, Executing, Stored, NoEdit, Numbers, OneLine, Parts, Without
<1>NapalmPreview. ASSUME NEW w \in Workers, NapalmPreview(w) PROVE SendsBack'
  BY <1>1, <1>NapalmPreview DEF NapalmPreview, End, Goto, network, commands, Typed, TypeOK, HistoryOK, Placed, Applying, Undoing, Owned, Executing, Stored, NoEdit, Numbers, OneLine, Parts, Without
<1>Approved. ASSUME NEW w \in Workers, Approved(w) PROVE SendsBack'
  BY <1>1, <1>Approved DEF Approved, Goto, network, commands, Typed, TypeOK, HistoryOK, Placed, Applying, Undoing, Owned, Executing, Stored, NoEdit, Numbers, OneLine, Parts, Without
<1>NapalmBlocked. ASSUME NEW w \in Workers, NapalmBlocked(w) PROVE SendsBack'
  BY <1>1, <1>NapalmBlocked DEF NapalmBlocked, End, Goto, network, commands, Typed, TypeOK, HistoryOK, Placed, Applying, Undoing, Owned, Executing, Stored, NoEdit, Numbers, OneLine, Parts, Without
<1>NapalmSnapshot. ASSUME NEW w \in Workers, NapalmSnapshot(w) PROVE SendsBack'
  BY <1>1, <1>NapalmSnapshot DEF NapalmSnapshot, Goto, network, commands, Typed, TypeOK, HistoryOK, Placed, Applying, Undoing, Owned, Executing, Stored, NoEdit, Numbers, OneLine, Parts, Without
<1>NapalmLine. ASSUME NEW w \in Workers, NapalmLine(w) PROVE SendsBack'
  BY <1>1, <1>NapalmLine DEF NapalmLine, HandleAlive, network, commands, Typed, TypeOK, HistoryOK, Placed, Applying, Undoing, Owned, Executing, Stored, NoEdit, Numbers, OneLine, Parts, Without
<1>NapalmRejected. ASSUME NEW w \in Workers, NapalmRejected(w) PROVE SendsBack'
  BY <1>1, <1>NapalmRejected DEF NapalmRejected, End, Goto, network, commands, Typed, TypeOK, HistoryOK, Placed, Applying, Undoing, Owned, Executing, Stored, NoEdit, Numbers, OneLine, Parts, Without
<1>NapalmDone. ASSUME NEW w \in Workers, NapalmDone(w) PROVE SendsBack'
  BY <1>1, <1>NapalmDone DEF NapalmDone, End, Goto, network, commands, Typed, TypeOK, HistoryOK, Placed, Applying, Undoing, Owned, Executing, Stored, NoEdit, Numbers, OneLine, Parts, Without
<1>Stutter. ASSUME UNCHANGED vars PROVE SendsBack'
  BY <1>1, <1>Stutter DEF vars, network, commands, Typed, TypeOK, HistoryOK, Placed, Applying, Undoing, Owned, Executing, Stored, NoEdit, Numbers, OneLine, Parts, Without
<1> QED
  BY <1>1, <1>Connect, <1>Disconnect, <1>ExecConfig, <1>RunService, <1>RollbackLastConfig,
     <1>PreviewGoesOn, <1>PreviewStops, <1>ServiceStarts, <1>ServiceStops, <1>Snapshot,
     <1>SnapshotFails, <1>Store, <1>SendConfig, <1>SendServiceLine, <1>SendServiceDone,
     <1>SendRaises, <1>ReadCurrent, <1>ReadFails, <1>Verify, <1>Clear, <1>NapalmPreview,
     <1>Approved, <1>NapalmBlocked, <1>NapalmSnapshot, <1>NapalmLine, <1>NapalmRejected,
     <1>NapalmDone, <1>Stutter DEF Next, Execute, Send, Rollback, Napalm

(***************************************************************************)
(* Undisturbed commands.  Most steps leave the devices alone and only move *)
(* a worker on: none comes to an early place, or to "clearing".            *)
(***************************************************************************)
Early == {"preview", "starting", "snapshot"}

(* A step that only moves workers on keeps what is known. *)
LEMMA AloneFrame ==
  ASSUME Alone, UNCHANGED <<running, link, made, origin, snapshot, before, restored>>,
         disturbed \subseteq disturbed',
         \A w \in Workers :
           /\ pc'[w] \in Early => pc[w] \in Early /\ work'[w] = work[w]
           /\ pc'[w] = "clearing" => pc[w] = "clearing" /\ work'[w] = work[w]
  PROVE  Alone'
  BY DEF Alone, Undisturbed, Early

(* A new command finds the device as it is. *)
LEMMA AloneIssue ==
  ASSUME Typed, Owned, Alone, NEW w \in Workers, NEW e, NEW s, NEW label \in {"preview", "starting"},
         Begin(w, label), Issue(w, e, s)
  PROVE  Alone'
<1>1. /\ made' = made + 1 /\ made' \in Numbers /\ made \in Nat
      /\ before'[made'] = running[link.dev]
      /\ \A k \in Numbers : k # made' => before'[k] = before[k]
      /\ work'[w] = made' /\ \A v \in Workers \ {w} : work'[v] = work[v] /\ pc'[v] = pc[v]
      /\ pc'[w] = label
  BY ConfigCommandAssumption DEF Begin, Goto, Issue, Typed, TypeOK, HistoryOK, Numbers
<1>2. UNCHANGED <<running, link, snapshot, origin, disturbed, restored>> /\ link # NoLink
  BY DEF Begin, Alive
<1>3. ASSUME NEW k \in 1 .. made' \ disturbed' PROVE Undisturbed(k)'
  <2>1. CASE k = made'
    <3>1. origin[k] = {}
      BY <1>1, <2>1 DEF Alone
    <3>2. k \notin restored /\ \A v \in Workers \ {w} : work[v] # k
      BY <1>1, <2>1 DEF Typed, TypeOK, HistoryOK
    <3> QED
      BY <1>1, <1>2, <2>1, <3>1, <3>2 DEF Undisturbed
  <2>2. CASE k # made'
    <3>1. k \in 1 .. made \ disturbed /\ k \in Numbers
      BY <1>1, <1>2, <2>2, ConfigCommandAssumption DEF Typed, TypeOK, Numbers
    <3>2. Undisturbed(k)
      BY <3>1 DEF Alone
    <3> QED
      BY <1>1, <1>2, <2>2, <3>1, <3>2 DEF Undisturbed
  <2> QED
    BY <2>1, <2>2
<1>4. \A k \in Numbers : k > made' => origin'[k] = {}
  BY <1>1, <1>2 DEF Alone, Numbers
<1> QED
  BY <1>3, <1>4 DEF Alone

(* A worker that sends changes nothing that matters to a command that stays  *)
(* undisturbed: the command is its own, and it is either still sending the   *)
(* command's lines or putting back lines that are there already.             *)
LEMMA AloneSend ==
  ASSUME Typed, Owned, SendsBack, Alone, link # NoLink,
         NEW w \in Workers, NEW p \in Parts(todo[w]), Change(w, link.dev, p),
         pc[w] \in {"sending", "typing"},
         UNCHANGED <<link, made, origin, snapshot, before, restored, work>>,
         \A v \in Workers \ {w} : pc'[v] = pc[v],
         pc'[w] \in {"sending", "typing", "storing", "verifying"}
  PROVE  Alone'
<1>1. link.dev \in Devices
  BY DEF Typed, TypeOK, Link, NoLink
<1>2. disturbed \subseteq disturbed' /\ (running' # running => 1 .. made \ {work[w]} \subseteq disturbed')
  BY <1>1, ChangeEffect
<1>3. CASE running' = running
  BY <1>2, <1>3, AloneFrame DEF Early
<1>4. CASE running' # running
  <2>1. ASSUME NEW k \in 1 .. made' \ disturbed' PROVE Undisturbed(k)'
    <3>1. k = work[w] /\ k \in 1 .. made \ disturbed
      BY <1>2, <1>4
    <3>2. Undisturbed(k)
      BY <3>1 DEF Alone
    <3>3. ASSUME NEW v \in Workers, work[v] = k, pc'[v] \in Early PROVE FALSE
      <4>1. v # w /\ pc[v] \in Early
        BY <3>3 DEF Early
      <4>2. Executing(v)
        BY <4>1 DEF Executing, Typed, Placed, Applying, Early
      <4>3. w \notin rolling
        BY <3>1, <3>3, <4>2 DEF Owned, Stored
      <4> QED
        BY <3>1, <3>3, <4>1, <4>2, <4>3 DEF Owned, Executing
    <3>4. ASSUME k \in restored \/ \E v \in Workers : work[v] = k /\ pc'[v] = "clearing" PROVE FALSE
      <4>1. running[link.dev] = snapshot[k] /\ Stored(k)
        BY <3>2, <3>4 DEF Undisturbed, Stored, Typed, Placed, Undoing
      <4>2. w \in rolling
        BY <3>1, <4>1 DEF Owned, Executing
      <4>3. p.del = {} /\ p.add \subseteq snapshot[k]
        BY <3>1, <4>2, EditParts DEF SendsBack, Typed, TypeOK
      <4>4. Applied(running[link.dev], p) = running[link.dev]
        BY <4>1, <4>3 DEF Applied
      <4> QED
        BY <1>1, <1>4, <4>4 DEF Change, Typed, TypeOK
    <3> QED
      BY <3>2, <3>3, <3>4 DEF Undisturbed, Early
  <2> QED
    BY <2>1 DEF Alone
<1> QED
  BY <1>3, <1>4

(* No command, nothing to disturb. *)
LEMMA AloneInit == Init => Alone
  BY ConfigCommandAssumption DEF Init, Alone, Numbers

(* Every step keeps what is known of undisturbed commands. *)
LEMMA AloneStep == Typed /\ Owned /\ SendsBack /\ Alone /\ [Next]_vars => Alone'
<1>1. SUFFICES ASSUME Typed /\ Owned /\ SendsBack /\ Alone, [Next]_vars PROVE Alone'
  OBVIOUS
<1>Connect. ASSUME NEW d \in Devices, Connect(d) PROVE Alone'
  <2>1. disturbed' = 1 .. made'
    BY <1>1, <1>Connect DEF Connect, Relinked, commands, Typed, HistoryOK
  <2> QED
    BY <1>1, <1>Connect, <2>1 DEF Connect, commands, Alone
<1>Disconnect. ASSUME Disconnect PROVE Alone'
  <2>1. disturbed' = 1 .. made'
    BY <1>1, <1>Disconnect DEF Disconnect, Relinked, commands, Typed, HistoryOK
  <2> QED
    BY <1>1, <1>Disconnect, <2>1 DEF Disconnect, commands, Alone
<1>ExecConfig. ASSUME NEW w \in Workers, NEW e \in Edits \ {NoEdit}, ExecConfig(w, e) PROVE Alone'
  BY <1>1, <1>ExecConfig, AloneIssue DEF ExecConfig
<1>RunService. ASSUME NEW w \in Workers, NEW e \in Edits \ {NoEdit}, RunService(w, e) PROVE Alone'
  BY <1>1, <1>RunService, AloneIssue DEF RunService
<1>RollbackLastConfig. ASSUME NEW w \in Workers, RollbackLastConfig(w) PROVE Alone'
  BY <1>1, <1>RollbackLastConfig, AloneFrame DEF RollbackLastConfig, Begin, Goto, Alive, network, commands, Early, Typed, TypeOK, HistoryOK
<1>PreviewGoesOn. ASSUME NEW w \in Workers, PreviewGoesOn(w) PROVE Alone'
  BY <1>1, <1>PreviewGoesOn, AloneFrame DEF PreviewGoesOn, Goto, network, commands, Early, Typed, TypeOK, HistoryOK
<1>PreviewStops. ASSUME NEW w \in Workers, PreviewStops(w) PROVE Alone'
  BY <1>1, <1>PreviewStops, AloneFrame DEF PreviewStops, End, Goto, network, commands, Early, Typed, TypeOK, HistoryOK
<1>ServiceStarts. ASSUME NEW w \in Workers, ServiceStarts(w) PROVE Alone'
  BY <1>1, <1>ServiceStarts, AloneFrame DEF ServiceStarts, Goto, Alive, network, commands, Early, Typed, TypeOK, HistoryOK
<1>ServiceStops. ASSUME NEW w \in Workers, ServiceStops(w) PROVE Alone'
  BY <1>1, <1>ServiceStops, AloneFrame DEF ServiceStops, End, Goto, network, commands, Early, Typed, TypeOK, HistoryOK
<1>Snapshot. ASSUME NEW w \in Workers, Snapshot(w) PROVE Alone'
  <2>0. work[w] \in Numbers /\ work[w] \in 1 .. made
    BY <1>1, <1>Snapshot, ConfigCommandAssumption DEF Snapshot, Typed, TypeOK, Placed, Numbers, None
  <2>1. /\ work[w] \in Numbers /\ work[w] \in 1 .. made
        /\ snapshot'[work[w]] = running[link.dev] /\ origin'[work[w]] = {link.dev}
        /\ \A k \in Numbers : k # work[w] => snapshot'[k] = snapshot[k] /\ origin'[k] = origin[k]
        /\ \A v \in Workers \ {w} : pc'[v] = pc[v]
        /\ pc[w] = "snapshot" /\ pc'[w] = "sending"
        /\ UNCHANGED <<running, link, made, before, disturbed, restored, work>>
    BY <1>1, <1>Snapshot, <2>0 DEF Snapshot, Goto, network, Typed, TypeOK, HistoryOK
  <2>2. ~Stored(work[w]) /\ Executing(w)
    BY <1>1, <2>1 DEF Owned, Executing, Typed, Placed, Applying
  <2>3. \A v \in Workers : work[v] = work[w] => pc[v] # "clearing"
    BY <1>1, <2>2 DEF Stored, Typed, Placed, Undoing
  <2>4. ASSUME NEW k \in 1 .. made' \ disturbed' PROVE Undisturbed(k)'
    <3>1. k \in 1 .. made \ disturbed /\ k \in Numbers
      BY <1>1, <2>1, ConfigCommandAssumption DEF Typed, TypeOK, Numbers
    <3>2. Undisturbed(k)
      BY <1>1, <3>1 DEF Alone
    <3>3. CASE k = work[w]
      <4>1. running[link.dev] = before[k] /\ k \notin restored
        BY <2>1, <2>2, <3>2, <3>3 DEF Undisturbed, Stored
      <4> QED
        BY <2>1, <2>3, <3>2, <3>3, <4>1 DEF Undisturbed
    <3>4. CASE k # work[w]
      BY <2>1, <3>1, <3>2, <3>4 DEF Undisturbed
    <3> QED
      BY <3>3, <3>4
  <2>5. \A k \in Numbers : k > made' => origin'[k] = {}
    BY <1>1, <2>1 DEF Alone, Typed, TypeOK
  <2> QED
    BY <2>4, <2>5 DEF Alone
<1>SnapshotFails. ASSUME NEW w \in Workers, SnapshotFails(w) PROVE Alone'
  BY <1>1, <1>SnapshotFails, AloneFrame DEF SnapshotFails, Invalidate, End, Goto, network, commands, Early, Typed, TypeOK, HistoryOK
<1>Store. ASSUME NEW w \in Workers, Store(w) PROVE Alone'
  BY <1>1, <1>Store, AloneFrame DEF Store, End, Goto, network, commands, Early, Typed, TypeOK, HistoryOK
<1>SendConfig. ASSUME NEW w \in Workers, SendConfig(w) PROVE Alone'
  <2>1. CASE Alive
    <3>1. PICK p \in Parts(todo[w]) : Change(w, link.dev, p)
      BY <1>SendConfig, <2>1 DEF SendConfig
    <3>2. /\ \A v \in Workers \ {w} : pc'[v] = pc[v]
          /\ pc'[w] \in {"storing", "verifying"}
      BY <1>1, <1>SendConfig DEF SendConfig, Goto, AfterSending, Typed, TypeOK
    <3> QED
      BY <1>1, <1>SendConfig, <2>1, <3>1, <3>2, AloneSend DEF SendConfig, Alive, commands
  <2>2. CASE ~Alive
    BY <1>1, <1>SendConfig, <2>2, AloneFrame DEF SendConfig, Goto, AfterSending, commands, Early, Typed, TypeOK
  <2> QED
    BY <2>1, <2>2
<1>SendServiceLine. ASSUME NEW w \in Workers, SendServiceLine(w) PROVE Alone'
  <2>1. CASE UNCHANGED <<running, changed, disturbed>>
    BY <1>1, <1>SendServiceLine, <2>1, AloneFrame DEF SendServiceLine, commands
  <2>2. CASE \E p \in OneLine(todo[w]) : Alive /\ Change(w, link.dev, p)
    <3>1. PICK p \in OneLine(todo[w]) : Alive /\ Change(w, link.dev, p)
      BY <2>2
    <3> QED
      BY <1>1, <1>SendServiceLine, <3>1, AloneSend DEF SendServiceLine, OneLine, Alive, commands
  <2> QED
    BY <1>SendServiceLine, <2>1, <2>2 DEF SendServiceLine
<1>SendServiceDone. ASSUME NEW w \in Workers, SendServiceDone(w) PROVE Alone'
  BY <1>1, <1>SendServiceDone, AloneFrame DEF SendServiceDone, Goto, AfterSending, network, commands, Early, Typed, TypeOK, HistoryOK
<1>SendRaises. ASSUME NEW w \in Workers, SendRaises(w) PROVE Alone'
  BY <1>1, <1>SendRaises, AloneFrame DEF SendRaises, Invalidate, End, Goto, network, commands, Early, Typed, TypeOK, HistoryOK
<1>ReadCurrent. ASSUME NEW w \in Workers, ReadCurrent(w) PROVE Alone'
  <2>1. /\ \A v \in Workers \ {w} : pc'[v] = pc[v]
        /\ pc'[w] \notin Early
        /\ pc'[w] = "clearing" => running[link.dev] = snapshot[work[w]]
        /\ UNCHANGED <<running, link, made, origin, snapshot, before, disturbed, restored, work>>
    BY <1>1, <1>ReadCurrent DEF ReadCurrent, Goto, network, commands, Early, Typed, TypeOK
  <2>2. ASSUME NEW k \in 1 .. made' \ disturbed' PROVE Undisturbed(k)'
    <3>1. Undisturbed(k)
      BY <1>1, <2>1 DEF Alone
    <3> QED
      BY <2>1, <3>1 DEF Undisturbed, Early
  <2> QED
    BY <1>1, <2>1, <2>2 DEF Alone
<1>ReadFails. ASSUME NEW w \in Workers, ReadFails(w) PROVE Alone'
  BY <1>1, <1>ReadFails, AloneFrame DEF ReadFails, Invalidate, End, Goto, network, commands, Early, Typed, TypeOK, HistoryOK
<1>Verify. ASSUME NEW w \in Workers, Verify(w) PROVE Alone'
  <2>1. /\ \A v \in Workers \ {w} : pc'[v] = pc[v]
        /\ pc'[w] \notin Early
        /\ pc'[w] = "clearing" => running[link.dev] = snapshot[work[w]]
        /\ UNCHANGED <<running, link, made, origin, snapshot, before, disturbed, restored, work>>
    BY <1>1, <1>Verify DEF Verify, Goto, End, network, commands, Early, Typed, TypeOK, Pending
  <2>2. ASSUME NEW k \in 1 .. made' \ disturbed' PROVE Undisturbed(k)'
    <3>1. Undisturbed(k)
      BY <1>1, <2>1 DEF Alone
    <3> QED
      BY <2>1, <3>1 DEF Undisturbed, Early
  <2> QED
    BY <1>1, <2>1, <2>2 DEF Alone
<1>Clear. ASSUME NEW w \in Workers, Clear(w) PROVE Alone'
  <2>1. /\ \A v \in Workers \ {w} : pc'[v] = pc[v]
        /\ pc[w] = "clearing" /\ pc'[w] = "idle" /\ restored' = restored \cup {work[w]}
        /\ UNCHANGED <<running, link, made, origin, snapshot, before, disturbed, work>>
    BY <1>1, <1>Clear DEF Clear, Goto, End, network, commands, Typed, TypeOK
  <2>2. ASSUME NEW k \in 1 .. made' \ disturbed' PROVE Undisturbed(k)'
    <3>1. Undisturbed(k)
      BY <1>1, <2>1 DEF Alone
    <3> QED
      BY <2>1, <3>1 DEF Undisturbed
  <2> QED
    BY <1>1, <2>1, <2>2 DEF Alone
<1>NapalmPreview. ASSUME NEW w \in Workers, NapalmPreview(w) PROVE Alone'
  BY <1>1, <1>NapalmPreview, AloneFrame DEF NapalmPreview, End, Goto, network, commands, Early, Typed, TypeOK, HistoryOK
<1>Approved. ASSUME NEW w \in Workers, Approved(w) PROVE Alone'
  BY <1>1, <1>Approved, AloneFrame DEF Approved, Goto, network, commands, Early, Typed, TypeOK, HistoryOK
<1>NapalmBlocked. ASSUME NEW w \in Workers, NapalmBlocked(w) PROVE Alone'
  BY <1>1, <1>NapalmBlocked, AloneFrame DEF NapalmBlocked, End, Goto, network, commands, Early, Typed, TypeOK, HistoryOK
<1>NapalmSnapshot. ASSUME NEW w \in Workers, NapalmSnapshot(w) PROVE Alone'
  BY <1>1, <1>NapalmSnapshot, AloneFrame DEF NapalmSnapshot, Goto, network, commands, Early, Typed, TypeOK, HistoryOK
<1>NapalmLine. ASSUME NEW w \in Workers, NapalmLine(w) PROVE Alone'
  <2>1. PICK p \in OneLine(todo[w]) : Change(w, link.dev, p)
    BY <1>NapalmLine DEF NapalmLine
  <2>2. link # NoLink
    BY <1>1, <1>NapalmLine DEF NapalmLine, HandleAlive, Typed, Placed, OverHandle
  <2> QED
    BY <1>1, <1>NapalmLine, <2>1, <2>2, AloneSend DEF NapalmLine, OneLine, commands
<1>NapalmRejected. ASSUME NEW w \in Workers, NapalmRejected(w) PROVE Alone'
  BY <1>1, <1>NapalmRejected, AloneFrame DEF NapalmRejected, End, Goto, network, commands, Early, Typed, TypeOK, HistoryOK
<1>NapalmDone. ASSUME NEW w \in Workers, NapalmDone(w) PROVE Alone'
  BY <1>1, <1>NapalmDone, AloneFrame DEF NapalmDone, End, Goto, network, commands, Early, Typed, TypeOK, HistoryOK
<1>Stutter. ASSUME UNCHANGED vars PROVE Alone'
  BY <1>1, <1>Stutter, AloneFrame DEF vars, network, commands, Early
<1> QED
  BY <1>1, <1>Connect, <1>Disconnect, <1>ExecConfig, <1>RunService, <1>RollbackLastConfig,
     <1>PreviewGoesOn, <1>PreviewStops, <1>ServiceStarts, <1>ServiceStops, <1>Snapshot,
     <1>SnapshotFails, <1>Store, <1>SendConfig, <1>SendServiceLine, <1>SendServiceDone,
     <1>SendRaises, <1>ReadCurrent, <1>ReadFails, <1>Verify, <1>Clear, <1>NapalmPreview,
     <1>Approved, <1>NapalmBlocked, <1>NapalmSnapshot, <1>NapalmLine, <1>NapalmRejected,
     <1>NapalmDone, <1>Stutter DEF Next, Execute, Send, Rollback, Napalm

-----------------------------------------------------------------------------
(* Everything together holds at the start. *)
LEMMA ConfigInvInit == Init => ConfigInv
  BY TypedInit, AuditedInit, TrackedInit, OwnedInit, SendsBackInit, AloneInit DEF ConfigInv

(* Every step of every worker, and of the user, keeps it. *)
LEMMA ConfigInvStep == ConfigInv /\ [Next]_vars => ConfigInv'
  BY TypedStep, AuditedStep, TrackedStep, OwnedStep, SendsBackStep, AloneStep DEF ConfigInv

(* So it holds in every reachable state. *)
LEMMA ConfigInvariant == Spec => []ConfigInv
  BY ConfigInvInit, ConfigInvStep, PTL DEF Spec

(* command.py, the editor and the services keep their types. *)
THEOREM ConfigTypeCorrect == Spec => []TypeOK
<1>1. ConfigInv => TypeOK
  BY DEF ConfigInv, Typed
<1> QED
  BY <1>1, ConfigInvariant, PTL

(* No operation of the editor, a service or a rollback changes a device and  *)
(* ends without an entry in the audit log, or with the entry that says that  *)
(* nothing was applied, but for the NAPALM batch that stops half way.        *)
THEOREM ConfigAudited == Spec => []ChangesAudited
<1>1. ConfigInv => ChangesAudited
  BY DEF ConfigInv, Audited
<1> QED
  BY <1>1, ConfigInvariant, PTL

(* A rollback that reports ok has put the device back as it was before the   *)
(* command, if nobody else changed it or the connection since.               *)
THEOREM ConfigRestored == Spec => []RestoredWhenAlone
<1>1. ConfigInv => RestoredWhenAlone
  <2>1. SUFFICES ASSUME ConfigInv, NEW k \in restored \ disturbed, NEW d \in origin[k]
                 PROVE  running[d] = before[k]
    BY DEF RestoredWhenAlone
  <2>2. k \in 1 .. made \ disturbed
    BY <2>1 DEF ConfigInv, Typed, HistoryOK
  <2>3. Undisturbed(k)
    BY <2>1, <2>2 DEF ConfigInv, Alone
  <2> QED
    BY <2>1, <2>3 DEF Undisturbed
<1> QED
  BY <1>1, ConfigInvariant, PTL

(* The slot loses a command only to a newer one, to its own complete         *)
(* rollback, or to a rollback that was running when it was stored.           *)
THEOREM ConfigKeepsUndo == Spec => UndoKept
<1>1. ConfigInv /\ [Next]_vars =>
        [slot # None /\ slot' = None =>
           \/ slot \in overlapped
           \/ \E w \in Workers : pc[w] = "clearing" /\ Idle(w)' /\ work[w] = slot]_vars
  <2>1. SUFFICES ASSUME ConfigInv, Next, slot # None, slot' = None
                 PROVE  \/ slot \in overlapped
                        \/ \E w \in Workers : pc[w] = "clearing" /\ Idle(w)' /\ work[w] = slot
    OBVIOUS
  <2>2. ASSUME NEW w \in Workers, Store(w) PROVE FALSE
    BY <2>1, <2>2 DEF Store, ConfigInv, Typed, Placed
  <2>3. ASSUME NEW w \in Workers, Execute(w) \/ Send(w) \/ Napalm(w) PROVE FALSE
    <3>1. CASE Execute(w)
      BY <2>1, <2>2, <3>1 DEF Execute, PreviewGoesOn, PreviewStops, ServiceStarts, ServiceStops,
         Snapshot, SnapshotFails
    <3>2. CASE Send(w)
      BY <2>1, <3>2 DEF Send, SendConfig, SendServiceLine, SendServiceDone, SendRaises
    <3>3. CASE Napalm(w)
      BY <2>1, <3>3 DEF Napalm, NapalmPreview, Approved, NapalmBlocked, NapalmSnapshot, NapalmLine,
         NapalmRejected, NapalmDone
    <3> QED
      BY <2>3, <3>1, <3>2, <3>3
  <2>4. PICK w \in Workers : Clear(w)
    BY <2>1, <2>3 DEF Next, Connect, Disconnect, ExecConfig, RunService, RollbackLastConfig, Begin,
       Rollback, ReadCurrent, ReadFails, Verify
  <2>5. pc[w] = "clearing" /\ w \in rolling
    BY <2>1, <2>4 DEF Clear, ConfigInv, Typed, Placed, Undoing
  <2>6. Idle(w)'
    BY <2>1, <2>4 DEF Clear, End, Goto, Idle, ConfigInv, Typed, TypeOK
  <2> QED
    BY <2>1, <2>5, <2>6 DEF ConfigInv, Tracked
<1> QED
  BY <1>1, ConfigInvariant, PTL DEF Spec, UndoKept

=============================================================================
