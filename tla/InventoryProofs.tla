--------------------------- MODULE InventoryProofs ---------------------------
(***************************************************************************)
(* Proofs about the devices: the table they are kept in, and the polling   *)
(* of those that are online, each with its own specification and for any   *)
(* constants.                                                              *)
(***************************************************************************)
EXTENDS Inventory, Polling, FiniteSetTheorems, WellFoundedInduction, TLAPS

(* Among some naturals one is the least: the only induction these proofs      *)
(* need, in the form the library has of it.                                   *)
LEMMA LeastNatural ==
  ASSUME NEW S \in SUBSET Nat, S # {}
  PROVE  \E least \in S : \A k \in S : least <= k
<1> DEFINE R == OpToRel(<, Nat)
<1>1. IsWellFoundedOn(R, Nat)
  BY NatLessThanWellFounded
<1>2. R = {p \in Nat \X Nat : p[1] < p[2]}
  BY DEF OpToRel
<1> HIDE DEF R
<1>3. PICK least \in S : \A y \in S : ~ (<<y, least>> \in R)
  BY <1>1, WFMin
<1>4. \A k \in S : ~(k < least)
  BY <1>2, <1>3
<1> QED
  BY <1>3, <1>4

(* The greatest of some naturals up to n is the one Max chooses. *)
LEMMA GreatestNatural ==
  ASSUME NEW n \in Nat, NEW S \in SUBSET (0 .. n), S # {}
  PROVE  /\ Max(S) \in S /\ \A k \in S : k <= Max(S)
<1> DEFINE T == {n - k : k \in S}
<1>1. T \in SUBSET Nat /\ T # {}
  <2>1. \A k \in S : n - k \in Nat
    OBVIOUS
  <2>2. PICK k \in S : TRUE
    OBVIOUS
  <2>3. n - k \in T
    OBVIOUS
  <2> QED
    BY <2>1, <2>3
<1>2. PICK least \in T : \A t \in T : least <= t
  BY <1>1, LeastNatural
<1>3. PICK m \in S : least = n - m
  OBVIOUS
<1>4. ASSUME NEW k \in S
      PROVE  m >= k
  <2>1. n - k \in T /\ k \in Nat /\ m \in Nat
    OBVIOUS
  <2> QED
    BY <1>2, <1>3, <2>1
<1>5. \E x \in S : \A y \in S : x >= y
  BY <1>4
<1>6. Max(S) \in S /\ \A y \in S : Max(S) >= y
  BY <1>5 DEF Max
<1> QED
  BY <1>6

-----------------------------------------------------------------------------
(***************************************************************************)
(* Inventory: the user's changes and the refreshes.                        *)
(*                                                                         *)
(* That a saved change is in the table rests on what every saver is about  *)
(* to write.  With no change under way (AtRest), whatever list a refresh   *)
(* holds is the table, so that all its upserts and deletes write nothing;  *)
(* during a change (Saving) no refresh holds a list, and the table agrees  *)
(* with the list being saved except where the save has still to go.  Both  *)
(* need the stamps of a table to differ, or else an edit or a deletion of  *)
(* one device could take another's stamp with it.                          *)
(***************************************************************************)
(* Types, with what the bound on tasks rests on: a change that is not saved   *)
(* yet has not submitted its refresh.                                         *)
SaverTypes ==
  /\ pc[Gui] \in {"idle", "listing", "upserting", "deleting"}
  /\ pc[Gui] # "idle" => stamp > MaxId
  /\ tasks + (IF pc[Gui] = "idle" THEN 0 ELSE 1) <= MaxTasks + (stamp - MaxId)

(* Stamps the user was given so far *)
Given == wanted \subseteq 1 .. stamp

Stamps(list) == {list[i] : i \in Present(list)}

Distinct(list) == \A i, j \in Present(list) : list[i] = list[j] => i = j

(* The list a saver is half way through writing to the table *)
Written(s) ==
  CASE pc[s] = "upserting" ->
         /\ todo[s] \subseteq Present(devices[s])
         /\ \A i \in Present(devices[s]) \ todo[s] : db[i] = devices[s][i]
         /\ \A i \in Ids \ (existing[s] \cup Present(devices[s])) : db[i] = Absent
    [] pc[s] = "deleting" ->
         /\ todo[s] \cap Present(devices[s]) = {}
         /\ \A i \in Ids \ todo[s] : db[i] = devices[s][i]
    [] OTHER -> TRUE

(* Between two changes: the table is what the user asked for, and what any    *)
(* refresh is about to write back is the table as it is.                      *)
AtRest ==
  /\ Stamps(db) = wanted /\ Distinct(db)
  /\ \A w \in Workers : HoldsList(w) => devices[w] = db
  /\ \A w \in Workers : pc[w] = "upserting" => existing[w] = Present(db) /\ todo[w] \subseteq Present(db)
  /\ \A w \in Workers : pc[w] = "deleting" => todo[w] = {}

(* During one: the list to save is, and no refresh holds any other.           *)
Saving ==
  /\ Stamps(devices[Gui]) = wanted /\ Distinct(devices[Gui])
  /\ \A w \in Workers : ~HoldsList(w)
  /\ Written(Gui)

Undisturbed == ~raced /\ ~failed => IF pc[Gui] = "idle" THEN AtRest ELSE Saving

InventoryInv == TypeOK /\ SaverTypes /\ Given /\ Undisturbed

(* A new number is not in use. *)
LEMMA NewNumber ==
  ASSUME NEW list \in Table
  PROVE  NextId(list) \notin Present(list)
<1> DEFINE used == Present(list) \cup {0}
<1>1. used \in SUBSET (0 .. MaxId) /\ used # {}
  BY InventoryAssumption DEF Present, Ids
<1>2. Max(used) \in used /\ \A k \in used : k <= Max(used)
  BY <1>1, InventoryAssumption, GreatestNatural
<1>3. Max(used) \in Nat
  BY <1>1, <1>2
<1>4. ASSUME NextId(list) \in Present(list)
      PROVE  FALSE
  <2>1. 1 + Max(used) <= Max(used)
    BY <1>2, <1>4 DEF NextId
  <2> QED
    BY <1>3, <2>1
<1> QED
  BY <1>4

(* A list with different stamps has as many stamps as rows. *)
LEMMA RowsCounted ==
  ASSUME NEW list \in Table, Distinct(list)
  PROVE  Cardinality(Present(list)) = Cardinality(Stamps(list))
<1> DEFINE S == Present(list)
           T == Stamps(list)
           f == [i \in S |-> list[i]]
<1>1. IsFiniteSet(S)
  <2>1. MaxId \in Int /\ 1 \in Int
    BY InventoryAssumption
  <2>2. IsFiniteSet(Ids)
    BY <2>1, FS_Interval DEF Ids
  <2> QED
    BY <2>2, FS_Subset DEF Present
<1>2. f \in Bijection(S, T)
  <2>1. f \in [S -> T]
    BY DEF Stamps
  <2>2. \A t \in T : \E i \in S : f[i] = t
    BY DEF Stamps
  <2>3. \A i, j \in S : f[i] = f[j] => i = j
    BY DEF Distinct
  <2> QED
    BY <2>1, <2>2, <2>3 DEF Bijection, Injection, Surjection, IsInjective
<1>3. ExistsBijection(S, T)
  BY <1>2 DEF ExistsBijection
<1> QED
  BY <1>1, <1>3, FS_Bijection

(* What the three changes of the user make of a list with different stamps:   *)
(* a stamp is added, replaced or removed, and they still differ.              *)
LEMMA StampSet ==
  ASSUME NEW list \in Table, Distinct(list), NEW i \in Ids, NEW s \in Nat \ {0},
         s \notin Stamps(list), NEW changed \in Table, changed[i] = s,
         \A j \in Ids \ {i} : changed[j] = list[j]
  PROVE  /\ Distinct(changed)
         /\ i \notin Present(list) => Stamps(changed) = Stamps(list) \cup {s}
         /\ i \in Present(list) => Stamps(changed) = (Stamps(list) \ {list[i]}) \cup {s}
<1>2. /\ Present(changed) = Present(list) \cup {i} /\ changed[i] = s
      /\ \A j \in Present(list) : j # i => changed[j] = list[j]
  BY DEF Present, Table, Absent
<1>3. \A j \in Present(list) : list[j] \in Stamps(list) /\ list[j] # s
  BY DEF Stamps
<1>4. Distinct(changed)
  <2>1. ASSUME NEW j \in Present(changed), NEW k \in Present(changed), changed[j] = changed[k]
        PROVE  j = k
    BY <1>2, <1>3, <2>1 DEF Distinct
  <2> QED
    BY <2>1 DEF Distinct
<1>5. ASSUME i \notin Present(list)
      PROVE  Stamps(changed) = Stamps(list) \cup {s}
  <2>1. \A t \in Stamps(changed) : t = s \/ t \in Stamps(list)
    BY <1>2, <1>5 DEF Stamps
  <2>2. \A t \in Stamps(list) : t \in Stamps(changed)
    BY <1>2, <1>5 DEF Stamps
  <2>3. s \in Stamps(changed)
    BY <1>2 DEF Stamps
  <2> QED
    BY <2>1, <2>2, <2>3
<1>6. ASSUME i \in Present(list)
      PROVE  Stamps(changed) = (Stamps(list) \ {list[i]}) \cup {s}
  <2>1. \A t \in Stamps(changed) : t = s \/ t \in Stamps(list) \ {list[i]}
    <3>1. ASSUME NEW j \in Present(changed), j # i
          PROVE  changed[j] \in Stamps(list) \ {list[i]}
      BY <1>2, <1>3, <1>6, <3>1 DEF Distinct
    <3> QED
      BY <1>2, <3>1 DEF Stamps
  <2>2. \A t \in Stamps(list) \ {list[i]} : t \in Stamps(changed)
    BY <1>2 DEF Stamps
  <2>3. s \in Stamps(changed)
    BY <1>2 DEF Stamps
  <2> QED
    BY <2>1, <2>2, <2>3
<1> QED
  BY <1>4, <1>5, <1>6

(* ... and for a deletion. *)
LEMMA StampRemoved ==
  ASSUME NEW list \in Table, Distinct(list), NEW i \in Ids,
         NEW changed \in Table, changed[i] = Absent, \A j \in Ids \ {i} : changed[j] = list[j]
  PROVE  Distinct(changed) /\ Stamps(changed) = Stamps(list) \ {list[i]}
<1>2. /\ Present(changed) = Present(list) \ {i}
      /\ \A j \in Present(changed) : changed[j] = list[j]
  BY DEF Present, Table
<1>3. Distinct(changed)
  BY <1>2 DEF Distinct
<1>4. \A t \in Stamps(changed) : t \in Stamps(list) \ {list[i]}
  <2>1. ASSUME NEW j \in Present(changed)
        PROVE  list[j] # list[i]
    BY <1>2 DEF Distinct, Present
  <2> QED
    BY <1>2, <2>1 DEF Stamps
<1>5. \A t \in Stamps(list) \ {list[i]} : t \in Stamps(changed)
  BY <1>2 DEF Stamps
<1> QED
  BY <1>3, <1>4, <1>5

(* The user's change starts from the table at rest, with a stamp of its own.  *)
LEMMA ChangeKeeps ==
  ASSUME InventoryInv, NEW list \in Table, NEW stamps, Change(list, stamps),
         stamps \subseteq wanted \cup {stamp + 1},
         AtRest => Stamps(list) = stamps /\ Distinct(list)
  PROVE  InventoryInv'
<1>1. TypeOK /\ SaverTypes /\ Given /\ Undisturbed
  BY DEF InventoryInv
<1>2. Gui \in Savers /\ Gui \notin Workers /\ \A w \in Workers : w \in Savers /\ w # Gui
  BY InventoryAssumption DEF Savers
<1>3. /\ pc[Gui] = "idle" /\ stamp < MaxId + MaxChanges /\ stamp' = stamp + 1
      /\ devices' = [devices EXCEPT ![Gui] = list] /\ wanted' = stamps
      /\ raced' = (raced \/ \E w \in Workers : HoldsList(w))
      /\ pc' = [pc EXCEPT ![Gui] = "listing"]
      /\ UNCHANGED <<db, ui, uiQueue, lock, tasks, existing, todo, failed>>
  BY DEF Change
<1>4. MaxId \in Nat /\ MaxChanges \in Nat /\ MaxTasks \in Nat /\ stamp \in Nat /\ tasks \in Nat
  BY <1>1, InventoryAssumption DEF TypeOK
<1>5. pc'[Gui] = "listing" /\ devices'[Gui] = list /\ \A w \in Workers : pc'[w] = pc[w]
  BY <1>1, <1>2, <1>3 DEF TypeOK
<1>6. TypeOK'
  <2>1. stamp' \in MaxId .. MaxId + MaxChanges
    BY <1>1, <1>3, <1>4 DEF TypeOK
  <2>2. pc' \in [Savers -> {"idle", "loading", "probing", "listing", "upserting", "deleting"}]
    BY <1>1, <1>3 DEF TypeOK
  <2>3. devices' \in [Savers -> Table]
    BY <1>1, <1>3 DEF TypeOK
  <2> QED
    BY <1>1, <1>3, <2>1, <2>2, <2>3 DEF TypeOK
<1>7. SaverTypes'
  <2>1. stamp >= MaxId /\ tasks <= MaxTasks + (stamp - MaxId)
    BY <1>1, <1>3, <1>4 DEF TypeOK, SaverTypes
  <2>2. stamp' > MaxId /\ tasks' + 1 <= MaxTasks + (stamp' - MaxId)
    BY <1>3, <1>4, <2>1
  <2> QED
    BY <1>5, <2>2 DEF SaverTypes
<1>8. Given'
  BY <1>1, <1>3, <1>4 DEF Given
<1>9. ASSUME ~raced', ~failed'
      PROVE  Saving'
  <2>1. AtRest /\ \A w \in Workers : ~HoldsList(w)
    BY <1>1, <1>3, <1>9 DEF Undisturbed
  <2>2. Stamps(list) = stamps /\ Distinct(list)
    BY <2>1
  <2>3. Stamps(devices'[Gui]) = wanted' /\ Distinct(devices'[Gui])
    BY <1>3, <1>5, <2>2
  <2>4. \A w \in Workers : ~HoldsList(w)'
    BY <1>5, <2>1 DEF HoldsList
  <2>5. Written(Gui)'
    BY <1>5 DEF Written
  <2> QED
    BY <2>3, <2>4, <2>5 DEF Saving, Stamps, Distinct, Present
<1> QED
  BY <1>5, <1>6, <1>7, <1>8, <1>9 DEF InventoryInv, Undisturbed

(* AddDevice, EditDevice and DeleteDevice, on top of the table at rest *)
LEMMA ChangesKeep ==
  ASSUME InventoryInv, AddDevice \/ \E i \in Ids : EditDevice(i) \/ DeleteDevice(i)
  PROVE  InventoryInv'
<1>1. db \in Table /\ stamp \in Nat /\ wanted \subseteq 1 .. stamp /\ MaxId \in Nat /\ MaxChanges \in Nat
      /\ stamp >= MaxId
  BY InventoryAssumption DEF InventoryInv, TypeOK, Given
<1>2. ASSUME stamp < MaxId + MaxChanges, NEW i \in Ids
      PROVE  [db EXCEPT ![i] = stamp + 1] \in Table /\ [db EXCEPT ![i] = Absent] \in Table
  BY <1>1, <1>2 DEF Table, Absent
<1>3. ASSUME AtRest
      PROVE  Stamps(db) = wanted /\ Distinct(db) /\ stamp + 1 \notin Stamps(db) /\ stamp + 1 \in Nat \ {0}
  BY <1>1, <1>3 DEF AtRest
<1>4. CASE AddDevice
  <2>1. PICK i \in Ids : i = NextId(db) /\ Change([db EXCEPT ![i] = stamp + 1], wanted \cup {stamp + 1})
    BY <1>4 DEF AddDevice
  <2>2. i \notin Present(db)
    BY <1>1, <2>1, NewNumber
  <2>3. stamp < MaxId + MaxChanges
    BY <2>1 DEF Change
  <2>4. PICK list \in Table : list = [db EXCEPT ![i] = stamp + 1]
    BY <1>2, <2>3
  <2>5. ASSUME AtRest
        PROVE  Stamps(list) = wanted \cup {stamp + 1} /\ Distinct(list)
    <3>1. PICK s \in Nat \ {0} : s = stamp + 1
      BY <1>3, <2>5
    <3>2. Stamps(db) = wanted /\ Distinct(db) /\ s \notin Stamps(db)
          /\ list[i] = s /\ \A j \in Ids \ {i} : list[j] = db[j]
      BY <1>1, <1>3, <2>4, <2>5, <3>1 DEF Table
    <3>3. Distinct(list) /\ Stamps(list) = Stamps(db) \cup {s}
      BY <1>1, <2>2, <3>2, StampSet
    <3> QED
      BY <3>1, <3>2, <3>3
  <2>6. Change(list, wanted \cup {stamp + 1})
    BY <2>1, <2>4
  <2> QED
    BY <2>5, <2>6, ChangeKeeps
<1>5. ASSUME NEW i \in Ids, EditDevice(i)
      PROVE  InventoryInv'
  <2>1. CASE i \in Present(db)
    <3>1. Change([db EXCEPT ![i] = stamp + 1], (wanted \ {db[i]}) \cup {stamp + 1})
      BY <1>5, <2>1 DEF EditDevice
    <3>2. stamp < MaxId + MaxChanges
      BY <3>1 DEF Change
    <3>3. PICK list \in Table : list = [db EXCEPT ![i] = stamp + 1]
      BY <1>2, <3>2
    <3>4. ASSUME AtRest
          PROVE  Stamps(list) = (wanted \ {db[i]}) \cup {stamp + 1} /\ Distinct(list)
      <4>1. PICK s \in Nat \ {0} : s = stamp + 1
        BY <1>3, <3>4
      <4>2. Stamps(db) = wanted /\ Distinct(db) /\ s \notin Stamps(db)
            /\ list[i] = s /\ \A j \in Ids \ {i} : list[j] = db[j]
        BY <1>1, <1>3, <3>3, <3>4, <4>1 DEF Table
      <4>3. Distinct(list) /\ Stamps(list) = (Stamps(db) \ {db[i]}) \cup {s}
        BY <1>1, <2>1, <4>2, StampSet
      <4> QED
        BY <4>1, <4>2, <4>3
    <3>5. Change(list, (wanted \ {db[i]}) \cup {stamp + 1})
      BY <3>1, <3>3
    <3> QED
      BY <3>4, <3>5, ChangeKeeps
  <2>2. CASE i \notin Present(db)
    <3>1. Change(db, wanted)
      BY <1>5, <2>2 DEF EditDevice
    <3> QED
      BY <1>1, <1>3, <3>1, ChangeKeeps
  <2> QED
    BY <2>1, <2>2
<1>6. ASSUME NEW i \in Ids, DeleteDevice(i)
      PROVE  InventoryInv'
  <2>1. Change([db EXCEPT ![i] = Absent], wanted \ {db[i]})
    BY <1>6 DEF DeleteDevice
  <2>2. stamp < MaxId + MaxChanges
    BY <2>1 DEF Change
  <2>3. PICK list \in Table : list = [db EXCEPT ![i] = Absent]
    BY <1>2, <2>2
  <2>4. ASSUME AtRest
        PROVE  Stamps(list) = wanted \ {db[i]} /\ Distinct(list)
    <3>1. list[i] = Absent /\ \A j \in Ids \ {i} : list[j] = db[j]
      BY <1>1, <2>3 DEF Table
    <3> QED
      BY <1>1, <1>3, <2>4, <3>1, StampRemoved
  <2>5. Change(list, wanted \ {db[i]})
    BY <2>1, <2>3
  <2> QED
    BY <2>4, <2>5, ChangeKeeps
<1> QED
  BY <1>4, <1>5, <1>6

(* A step that changes neither the table nor any list of a saver: at most one *)
(* worker moves, to a place where it holds no list.                           *)
LEMMA ListsUntouched ==
  ASSUME InventoryInv, TypeOK', SaverTypes', UNCHANGED <<db, devices, existing, todo, stamp, wanted, failed>>,
         raced' = raced, pc'[Gui] = pc[Gui],
         \A w \in Workers : pc'[w] = pc[w] \/ pc'[w] \in {"idle", "loading"}
  PROVE  InventoryInv'
<1>1. Given' /\ Undisturbed
  BY DEF InventoryInv, Given
<1>2. \A w \in Workers : HoldsList(w)' => HoldsList(w) /\ pc'[w] = pc[w]
  BY DEF HoldsList
<1>3. AtRest => AtRest'
  BY <1>2 DEF AtRest, Stamps, Distinct, Present, HoldsList
<1>4. Saving => Saving'
  <2>1. Written(Gui) => Written(Gui)'
    BY DEF Written, Present
  <2> QED
    BY <1>2, <2>1 DEF Saving, Stamps, Distinct, Present
<1> QED
  BY <1>1, <1>3, <1>4 DEF InventoryInv, Undisturbed

(* The initial table is what the user expects. *)
LEMMA InventoryInit ==
  ASSUME Init
  PROVE  InventoryInv
<1> USE DEF Init
<1>1. MaxId \in Nat /\ MaxChanges \in Nat /\ MaxTasks \in Nat /\ UiMax \in Nat /\ Stored \subseteq 1 .. MaxId
  BY InventoryAssumption DEF Ids
<1>2. Gui \in Savers /\ \A w \in Workers : w \in Savers
  BY DEF Savers
<1>3. db \in Table /\ ui \in Table /\ devices \in [Savers -> Table]
  BY <1>1 DEF Table, Empty, Ids, Absent
<1>4. TypeOK
  <2>1. uiQueue \in Seq(Table) /\ Len(uiQueue) <= UiMax /\ tasks \in 0 .. MaxTasks + MaxChanges
        /\ stamp \in MaxId .. MaxId + MaxChanges
    BY <1>1
  <2> QED
    BY <1>3, <2>1 DEF TypeOK
<1>5. SaverTypes /\ Given
  BY <1>1, <1>2 DEF SaverTypes, Given
<1>6. AtRest
  <2>1. Present(db) = Stored /\ \A i \in Stored : db[i] = i
    <3>1. \A i \in Ids : i # 0 /\ db[i] = IF i \in Stored THEN i ELSE 0
      BY <1>1 DEF Ids, Absent
    <3>2. \A i \in Stored : i \in Ids
      BY <1>1 DEF Ids
    <3> QED
      BY <3>1, <3>2 DEF Present, Absent
  <2>2. Stamps(db) = wanted /\ Distinct(db)
    <3>1. Stamps(db) \subseteq Stored /\ Stored \subseteq Stamps(db)
      BY <2>1 DEF Stamps
    <3>2. Distinct(db)
      BY <2>1 DEF Distinct
    <3> QED
      BY <3>1, <3>2
  <2> QED
    BY <1>2, <2>2 DEF AtRest, HoldsList
<1> QED
  BY <1>2, <1>4, <1>5, <1>6 DEF InventoryInv, Undisturbed

(* The types, in every step but a change of the user *)
LEMMA StepTypes ==
  ASSUME TypeOK, SaverTypes,
         \/ TickDevices \/ UpdateDevicesUi \/ (\E w \in Workers : StartRefresh(w) \/ Load(w) \/ Probe(w))
         \/ (\E s \in Savers : SaveStep(s)) \/ UNCHANGED vars
  PROVE  TypeOK' /\ SaverTypes'
<1> DEFINE Places == {"idle", "loading", "probing", "listing", "upserting", "deleting"}
<1>1. MaxId \in Nat /\ MaxChanges \in Nat /\ MaxTasks \in Nat \ {0} /\ UiMax \in Nat \ {0} /\ stamp \in Nat
      /\ stamp >= MaxId /\ stamp <= MaxId + MaxChanges /\ tasks \in Nat
  BY InventoryAssumption DEF TypeOK
<1>2. Gui \in Savers /\ Gui \notin Workers /\ \A w \in Workers : w \in Savers /\ w # Gui
  BY InventoryAssumption DEF Savers
<1>3. CASE TickDevices
  <2>1. tasks < MaxTasks /\ tasks' = tasks + 1 /\ UNCHANGED <<db, ui, uiQueue, lock, pc, devices, existing, todo, stamp>>
    BY <1>3 DEF TickDevices, saveVars
  <2>2. tasks' \in 0 .. MaxTasks + MaxChanges
    BY <1>1, <2>1
  <2>3. TypeOK'
    BY <2>1, <2>2 DEF TypeOK
  <2>4. SaverTypes'
    BY <1>1, <2>1 DEF SaverTypes
  <2> QED
    BY <2>3, <2>4
<1>4. CASE UpdateDevicesUi
  <2>1. /\ uiQueue # <<>> /\ ui' = Head(uiQueue) /\ uiQueue' = Tail(uiQueue)
        /\ UNCHANGED <<db, lock, tasks, pc, devices, existing, todo, stamp>>
    BY <1>4 DEF UpdateDevicesUi, saveVars
  <2>2. uiQueue \in Seq(Table) /\ Len(uiQueue) <= UiMax
    BY DEF TypeOK
  <2>3. ui' \in Table /\ uiQueue' \in Seq(Table) /\ Len(uiQueue') <= UiMax
    BY <1>1, <2>1, <2>2
  <2>4. TypeOK'
    BY <2>1, <2>3 DEF TypeOK
  <2>5. SaverTypes'
    BY <2>1 DEF SaverTypes
  <2> QED
    BY <2>4, <2>5
<1>5. ASSUME NEW w \in Workers, StartRefresh(w)
      PROVE  TypeOK' /\ SaverTypes'
  <2>1. /\ tasks > 0 /\ tasks' = tasks - 1 /\ lock' = TRUE
        /\ pc' = IF lock THEN pc ELSE [pc EXCEPT ![w] = "loading"]
        /\ UNCHANGED <<db, ui, uiQueue, devices, existing, todo, stamp>>
    BY <1>5 DEF StartRefresh, saveVars
  <2>2. tasks' \in 0 .. MaxTasks + MaxChanges
    BY <1>1, <2>1 DEF TypeOK
  <2>3. pc' \in [Savers -> Places] /\ pc'[Gui] = pc[Gui]
    BY <1>2, <2>1 DEF TypeOK
  <2>4. TypeOK'
    BY <2>1, <2>2, <2>3 DEF TypeOK
  <2>5. SaverTypes'
    BY <1>1, <2>1, <2>3 DEF SaverTypes
  <2> QED
    BY <2>4, <2>5
<1>6. ASSUME NEW w \in Workers, Load(w) \/ Probe(w)
      PROVE  TypeOK' /\ SaverTypes'
  <2>1. UNCHANGED <<db, ui, uiQueue, tasks, existing, todo, stamp>>
    BY <1>6 DEF Load, Probe, saveVars
  <2>2. pc' \in [Savers -> Places] /\ pc'[Gui] = pc[Gui]
    BY <1>2, <1>6 DEF TypeOK, Load, Probe
  <2>3. devices' \in [Savers -> Table] /\ lock' \in BOOLEAN
    BY <1>6 DEF TypeOK, Load, Probe, saveVars
  <2>4. TypeOK'
    BY <2>1, <2>2, <2>3 DEF TypeOK
  <2>5. SaverTypes'
    BY <2>1, <2>2 DEF SaverTypes
  <2> QED
    BY <2>4, <2>5
<1>7. ASSUME NEW s \in Savers, ListStored(s) \/ UpsertRow(s) \/ UpsertsDone(s) \/ DeleteRow(s)
      PROVE  TypeOK' /\ SaverTypes'
  <2>1. UNCHANGED <<ui, uiQueue, lock, tasks, devices, stamp>>
    BY <1>7 DEF ListStored, UpsertRow, UpsertsDone, DeleteRow
  <2>2. /\ pc' \in [Savers -> Places] /\ (pc'[Gui] = "idle" <=> pc[Gui] = "idle")
        /\ pc'[Gui] \in {"idle", "listing", "upserting", "deleting"}
    <3>1. \/ pc' = pc
          \/ \E p \in {"upserting", "deleting"} : pc[s] # "idle" /\ pc' = [pc EXCEPT ![s] = p]
      BY <1>7 DEF ListStored, UpsertRow, UpsertsDone, DeleteRow
    <3> QED
      BY <1>2, <3>1 DEF TypeOK, SaverTypes
  <2>3. existing' \in [Savers -> SUBSET Ids]
    <3>1. existing' = existing \/ existing' = [existing EXCEPT ![s] = Present(db)]
      BY <1>7 DEF ListStored, UpsertRow, UpsertsDone, DeleteRow
    <3>2. Present(db) \in SUBSET Ids
      BY DEF Present
    <3> QED
      BY <3>1, <3>2 DEF TypeOK
  <2>4. todo' \in [Savers -> SUBSET Ids]
    <3>1. PICK rest : /\ todo' = [todo EXCEPT ![s] = rest]
                      /\ \/ rest = Present(devices[s]) \/ rest = existing[s] \ Present(devices[s])
                         \/ \E i \in Ids : rest = todo[s] \ {i}
      BY <1>7 DEF ListStored, UpsertRow, UpsertsDone, DeleteRow, TypeOK
    <3>2. rest \in SUBSET Ids
      BY <3>1 DEF Present, TypeOK
    <3> QED
      BY <3>1, <3>2 DEF TypeOK
  <2>5. db' \in Table
    <3>1. db' = db \/ \E i \in Ids : db' = [db EXCEPT ![i] = devices[s][i]] \/ db' = [db EXCEPT ![i] = Absent]
      BY <1>7 DEF ListStored, UpsertRow, UpsertsDone, DeleteRow, TypeOK
    <3>2. \A i \in Ids : devices[s][i] \in 0 .. MaxId + MaxChanges /\ Absent \in 0 .. MaxId + MaxChanges
      BY <1>1 DEF TypeOK, Table, Absent
    <3> QED
      BY <3>1, <3>2 DEF TypeOK, Table
  <2>6. TypeOK'
    BY <2>1, <2>2, <2>3, <2>4, <2>5 DEF TypeOK
  <2>7. SaverTypes'
    BY <2>1, <2>2 DEF SaverTypes
  <2> QED
    BY <2>6, <2>7
<1>8. ASSUME NEW s \in Savers, SaveDone(s) \/ SaveFails(s)
      PROVE  TypeOK' /\ SaverTypes'
  <2>1. PICK ok \in BOOLEAN : pc[s] # "idle" /\ Leave(s, ok)
    BY <1>8 DEF SaveDone, SaveFails
  <2>2. UNCHANGED <<db, ui, lock, stamp>>
    BY <2>1 DEF Leave
  <2>3. pc' \in [Savers -> Places] /\ existing' \in [Savers -> SUBSET Ids] /\ todo' \in [Savers -> SUBSET Ids]
    BY <2>1 DEF Leave, TypeOK
  <2>4. devices' \in [Savers -> Table]
    <3>1. Empty \in Table
      BY <1>1 DEF Empty, Table, Absent
    <3> QED
      BY <2>1, <3>1 DEF Leave, TypeOK
  <2>5. CASE s = Gui
    <3>1. tasks' = (IF ok THEN tasks + 1 ELSE tasks) /\ UNCHANGED uiQueue /\ pc'[Gui] = "idle"
      BY <1>2, <2>1, <2>5 DEF Leave, AfterChange, TypeOK
    <3>2. pc[Gui] # "idle" /\ tasks + 1 <= MaxTasks + (stamp - MaxId)
      BY <2>1, <2>5 DEF SaverTypes
    <3>3. tasks' \in 0 .. MaxTasks + MaxChanges /\ tasks' <= MaxTasks + (stamp - MaxId)
      BY <1>1, <3>1, <3>2
    <3>4. TypeOK'
      BY <2>2, <2>3, <2>4, <3>1, <3>3 DEF TypeOK
    <3>5. SaverTypes'
      <4>1. tasks' \in Nat
        BY <1>1, <3>1
      <4>2. tasks' + 0 <= MaxTasks + (stamp' - MaxId)
        BY <2>2, <3>3, <4>1
      <4> QED
        BY <3>1, <4>2 DEF SaverTypes
    <3> QED
      BY <3>4, <3>5
  <2>6. CASE s # Gui
    <3>1. UNCHANGED tasks /\ pc'[Gui] = pc[Gui]
      BY <1>2, <2>1, <2>6 DEF Leave, AfterRefresh, TypeOK
    <3>2. uiQueue' \in Seq(Table) /\ Len(uiQueue') <= UiMax
      <4>1. uiQueue \in Seq(Table) /\ Len(uiQueue) <= UiMax /\ devices[s] \in Table
        BY DEF TypeOK
      <4>2. uiQueue' = IF Len(uiQueue) < UiMax THEN Append(uiQueue, devices[s]) ELSE uiQueue
        BY <2>1, <2>6 DEF Leave, AfterRefresh
      <4> QED
        BY <1>1, <4>1, <4>2
    <3>3. TypeOK'
      BY <2>2, <2>3, <2>4, <3>1, <3>2 DEF TypeOK
    <3>4. SaverTypes'
      BY <2>2, <3>1 DEF SaverTypes
    <3> QED
      BY <3>3, <3>4
  <2> QED
    BY <2>5, <2>6
<1>9. CASE UNCHANGED vars
  <2>1. UNCHANGED <<db, ui, uiQueue, lock, tasks, pc, devices, existing, todo, stamp>>
    BY <1>9 DEF vars, saveVars
  <2> QED
    BY <2>1 DEF TypeOK, SaverTypes
<1> QED
  BY <1>3, <1>4, <1>5, <1>6, <1>7, <1>8, <1>9 DEF SaveStep

(* A refresh reads the table at rest, or has overlapped a change. *)
LEMMA LoadKeeps ==
  ASSUME InventoryInv, TypeOK', SaverTypes', NEW w \in Workers, Load(w)
  PROVE  InventoryInv'
<1>1. TypeOK /\ Given /\ Undisturbed /\ w \in Savers /\ w # Gui /\ Gui \in Savers
      /\ \A v \in Workers : v \in Savers
  BY InventoryAssumption DEF InventoryInv, Savers
<1>2. /\ devices' = [devices EXCEPT ![w] = db] /\ raced' = (raced \/ pc[Gui] # "idle")
      /\ pc[w] = "loading" /\ pc' = [pc EXCEPT ![w] = "probing"]
      /\ UNCHANGED <<db, existing, todo, stamp, wanted, failed>>
  BY DEF Load
<1>3. pc'[w] = "probing" /\ devices'[w] = db /\ pc'[Gui] = pc[Gui]
      /\ \A v \in Workers : v # w => pc'[v] = pc[v] /\ devices'[v] = devices[v]
  BY <1>1, <1>2 DEF TypeOK
<1>4. Given'
  BY <1>1, <1>2 DEF Given
<1>5. ASSUME ~raced', ~failed'
      PROVE  pc'[Gui] = "idle" /\ AtRest'
  <2>1. pc[Gui] = "idle" /\ AtRest
    BY <1>1, <1>2, <1>5 DEF Undisturbed
  <2>2. Stamps(db') = wanted' /\ Distinct(db')
    BY <1>2, <2>1 DEF AtRest
  <2>3. \A v \in Workers : HoldsList(v)' => devices'[v] = db'
    BY <1>2, <1>3, <2>1 DEF AtRest, HoldsList
  <2>4. \A v \in Workers : pc'[v] = "upserting" => existing'[v] = Present(db') /\ todo'[v] \subseteq Present(db')
    BY <1>2, <1>3, <2>1 DEF AtRest
  <2>5. \A v \in Workers : pc'[v] = "deleting" => todo'[v] = {}
    BY <1>2, <1>3, <2>1 DEF AtRest
  <2> QED
    BY <1>3, <2>1, <2>2, <2>3, <2>4, <2>5 DEF AtRest, Stamps, Distinct, Present
<1> QED
  BY <1>4, <1>5 DEF InventoryInv, Undisturbed

(* What no save changes, and where it is. *)
LEMMA SaveFrame ==
  ASSUME NEW s, SaveStep(s) \/ Probe(s)
  PROVE  /\ UNCHANGED <<stamp, wanted, raced>> /\ (~failed' => ~failed)
         /\ pc[s] \in {"probing", "listing", "upserting", "deleting"}
<1>1. CASE Probe(s) \/ ListStored(s) \/ UpsertRow(s) \/ UpsertsDone(s) \/ DeleteRow(s)
  <2>1. UNCHANGED <<stamp, wanted, raced, failed>>
    BY <1>1 DEF Probe, ListStored, UpsertRow, UpsertsDone, DeleteRow, history
  <2>2. pc[s] \in {"probing", "listing", "upserting", "deleting"}
    BY <1>1 DEF Probe, ListStored, UpsertRow, UpsertsDone, DeleteRow
  <2> QED
    BY <2>1, <2>2
<1>2. CASE SaveDone(s) \/ SaveFails(s)
  <2>1. PICK ok \in BOOLEAN : Leave(s, ok)
    BY <1>2 DEF SaveDone, SaveFails
  <2>2. UNCHANGED <<stamp, wanted, raced>>
    BY <2>1 DEF Leave
  <2>3. failed' = (failed \/ ~ok) \/ failed' = failed
    BY <2>1 DEF Leave, AfterRefresh, AfterChange
  <2>4. pc[s] \in {"probing", "listing", "upserting", "deleting"}
    BY <1>2 DEF SaveDone, SaveFails
  <2>5. CASE failed' = (failed \/ ~ok)
    <3>1. ~failed' => ~failed
      BY <2>5
    <3> QED
      BY <2>2, <2>4, <3>1
  <2>6. CASE failed' = failed
    BY <2>2, <2>4, <2>6
  <2> QED
    BY <2>3, <2>5, <2>6
<1> QED
  BY <1>1, <1>2 DEF SaveStep

(* A worker's save writes the table as it is. *)
LEMMA RefreshWritesNothing ==
  ASSUME InventoryInv, TypeOK', SaverTypes', NEW w \in Workers, SaveStep(w) \/ Probe(w)
  PROVE  InventoryInv'
<1>1. TypeOK /\ Given /\ Undisturbed /\ w \in Savers /\ w # Gui /\ Gui \in Savers
      /\ \A v \in Workers : v \in Savers
  BY InventoryAssumption DEF InventoryInv, Savers
<1>2. UNCHANGED <<stamp, wanted, raced>> /\ (~failed' => ~failed) /\ HoldsList(w)
  BY SaveFrame DEF HoldsList
<1>3. Given'
  BY <1>1, <1>2 DEF Given
<1>4. PICK p : pc' = [pc EXCEPT ![w] = p]
  <2>1. pc' = [pc EXCEPT ![w] = pc[w]] \/ \E p : pc' = [pc EXCEPT ![w] = p]
    BY <1>1 DEF TypeOK, SaveStep, Probe, ListStored, UpsertRow, UpsertsDone, DeleteRow, SaveDone, SaveFails, Leave
  <2> QED
    BY <2>1
<1>5. pc'[w] = p /\ pc'[Gui] = pc[Gui] /\ \A v \in Workers : v # w => pc'[v] = pc[v]
  BY <1>1, <1>4 DEF TypeOK
<1>6. \A v \in Workers : v # w => devices'[v] = devices[v] /\ existing'[v] = existing[v] /\ todo'[v] = todo[v]
  BY <1>1 DEF TypeOK, SaveStep, Probe, ListStored, UpsertRow, UpsertsDone, DeleteRow, SaveDone, SaveFails,
              Leave, saveVars
<1>7. ASSUME ~raced', ~failed'
      PROVE  pc'[Gui] = "idle" /\ AtRest'
  <2>1. pc[Gui] = "idle" /\ AtRest
    BY <1>1, <1>2, <1>7 DEF Undisturbed, Saving
  <2>2. devices[w] = db
    BY <1>2, <2>1 DEF AtRest
  <2>3. /\ db' = db
        /\ HoldsList(w)' => devices'[w] = db
        /\ pc'[w] = "upserting" => existing'[w] = Present(db) /\ todo'[w] \subseteq Present(db)
        /\ pc'[w] = "deleting" => todo'[w] = {}
    <3>1. CASE Probe(w)
      BY <1>1, <2>2, <3>1 DEF Probe, HoldsList, saveVars, TypeOK
    <3>2. CASE ListStored(w)
      BY <1>1, <2>2, <3>2 DEF ListStored, HoldsList, TypeOK
    <3>3. CASE UpsertRow(w)
      <4>1. PICK i \in todo[w] : /\ db' = [db EXCEPT ![i] = devices[w][i]]
                                 /\ todo' = [todo EXCEPT ![w] = @ \ {i}]
        BY <3>3 DEF UpsertRow
      <4>2. i \in Ids /\ db' = db
        BY <1>1, <2>2, <4>1 DEF TypeOK, Table
      <4>3. pc[w] = "upserting" /\ pc' = pc /\ existing' = existing /\ devices' = devices
        BY <3>3 DEF UpsertRow
      <4> QED
        BY <1>1, <2>1, <2>2, <4>1, <4>2, <4>3 DEF AtRest, HoldsList, TypeOK
    <3>4. CASE UpsertsDone(w)
      <4>1. existing[w] = Present(db)
        BY <1>1, <2>1, <3>4 DEF UpsertsDone, AtRest
      <4> QED
        BY <1>1, <2>2, <3>4, <4>1 DEF UpsertsDone, HoldsList, TypeOK
    <3>5. CASE DeleteRow(w)
      BY <2>1, <3>5 DEF DeleteRow, AtRest
    <3>6. CASE SaveDone(w) \/ SaveFails(w)
      BY <1>1, <3>6 DEF SaveDone, SaveFails, Leave, HoldsList, TypeOK
    <3> QED
      BY <3>1, <3>2, <3>3, <3>4, <3>5, <3>6 DEF SaveStep
  <2>4. Stamps(db') = wanted' /\ Distinct(db')
    BY <1>2, <2>1, <2>3 DEF AtRest
  <2>5. \A v \in Workers : HoldsList(v)' => devices'[v] = db'
    BY <1>5, <1>6, <2>1, <2>3 DEF AtRest, HoldsList
  <2>6. \A v \in Workers : pc'[v] = "upserting" => existing'[v] = Present(db') /\ todo'[v] \subseteq Present(db')
    BY <1>5, <1>6, <2>1, <2>3 DEF AtRest
  <2>7. \A v \in Workers : pc'[v] = "deleting" => todo'[v] = {}
    BY <1>5, <1>6, <2>1, <2>3 DEF AtRest
  <2> QED
    BY <1>5, <2>1, <2>4, <2>5, <2>6, <2>7 DEF AtRest, Stamps, Distinct, Present
<1> QED
  BY <1>3, <1>7 DEF InventoryInv, Undisturbed

(* The GUI's save brings the table to the list the user asked for. *)
LEMMA SaveWrites ==
  ASSUME InventoryInv, TypeOK', SaverTypes', SaveStep(Gui)
  PROVE  InventoryInv'
<1>1. TypeOK /\ Given /\ Undisturbed /\ Gui \in Savers /\ \A v \in Workers : v \in Savers /\ v # Gui
  BY InventoryAssumption DEF InventoryInv, Savers
<1>2. UNCHANGED <<stamp, wanted, raced>> /\ (~failed' => ~failed) /\ pc[Gui] # "idle"
  BY SaveFrame
<1>3. Given'
  BY <1>1, <1>2 DEF Given
<1>4. \A v \in Workers : pc'[v] = pc[v]
  BY <1>1 DEF TypeOK, SaveStep, ListStored, UpsertRow, UpsertsDone, DeleteRow, SaveDone, SaveFails, Leave
<1>5. ASSUME ~raced', ~failed'
      PROVE  IF pc'[Gui] = "idle" THEN AtRest' ELSE Saving'
  <2>1. Saving
    BY <1>1, <1>2, <1>5 DEF Undisturbed
  <2>2. \A v \in Workers : ~HoldsList(v)'
    BY <1>4, <2>1 DEF Saving, HoldsList
  <2>3. ASSUME devices' = devices, pc'[Gui] # "idle", Written(Gui)'
        PROVE  IF pc'[Gui] = "idle" THEN AtRest' ELSE Saving'
    BY <1>2, <2>1, <2>2, <2>3 DEF Saving, Stamps, Distinct, Present
  <2>4. CASE ListStored(Gui)
    <3>1. /\ pc'[Gui] = "upserting" /\ devices' = devices /\ db' = db
          /\ existing'[Gui] = Present(db) /\ todo'[Gui] = Present(devices[Gui])
      BY <1>1, <2>4 DEF ListStored, TypeOK
    <3>2. \A i \in Ids \ Present(db) : db[i] = Absent
      BY DEF Present
    <3>3. Written(Gui)'
      BY <3>1, <3>2 DEF Written, Present
    <3> QED
      BY <2>3, <3>1, <3>3
  <2>5. CASE UpsertRow(Gui)
    <3>1. PICK i \in todo[Gui] : /\ db' = [db EXCEPT ![i] = devices[Gui][i]]
                                 /\ todo' = [todo EXCEPT ![Gui] = @ \ {i}]
      BY <2>5 DEF UpsertRow
    <3>2. pc[Gui] = "upserting" /\ pc' = pc /\ devices' = devices /\ existing' = existing
      BY <2>5 DEF UpsertRow
    <3>3. /\ todo[Gui] \subseteq Present(devices[Gui])
          /\ \A j \in Present(devices[Gui]) \ todo[Gui] : db[j] = devices[Gui][j]
          /\ \A j \in Ids \ (existing[Gui] \cup Present(devices[Gui])) : db[j] = Absent
      BY <2>1, <3>2 DEF Saving, Written
    <3>4. i \in Ids /\ db'[i] = devices[Gui][i] /\ (\A j \in Ids : j # i => db'[j] = db[j])
          /\ todo'[Gui] = todo[Gui] \ {i}
      BY <1>1, <3>1 DEF TypeOK, Table
    <3>5. /\ todo'[Gui] \subseteq Present(devices[Gui])
          /\ \A j \in Present(devices[Gui]) \ todo'[Gui] : db'[j] = devices[Gui][j]
          /\ \A j \in Ids \ (existing[Gui] \cup Present(devices[Gui])) : db'[j] = Absent
      BY <3>3, <3>4 DEF Present
    <3>6. Written(Gui)'
      BY <3>2, <3>5 DEF Written, Present
    <3> QED
      BY <2>3, <3>2, <3>6
  <2>6. CASE UpsertsDone(Gui)
    <3>1. /\ pc[Gui] = "upserting" /\ todo[Gui] = {} /\ db' = db /\ devices' = devices
          /\ pc'[Gui] = "deleting" /\ todo'[Gui] = existing[Gui] \ Present(devices[Gui])
      BY <1>1, <2>6 DEF UpsertsDone, TypeOK
    <3>2. /\ \A j \in Present(devices[Gui]) : db[j] = devices[Gui][j]
          /\ \A j \in Ids \ (existing[Gui] \cup Present(devices[Gui])) : db[j] = Absent
      BY <2>1, <3>1 DEF Saving, Written
    <3>3. \A j \in Ids \ Present(devices[Gui]) : devices[Gui][j] = Absent
      BY DEF Present
    <3>4. todo'[Gui] \cap Present(devices[Gui]) = {} /\ \A j \in Ids \ todo'[Gui] : db[j] = devices[Gui][j]
      BY <3>1, <3>2, <3>3
    <3>5. Written(Gui)'
      BY <3>1, <3>4 DEF Written, Present
    <3> QED
      BY <2>3, <3>1, <3>5
  <2>7. CASE DeleteRow(Gui)
    <3>1. PICK i \in todo[Gui] : db' = [db EXCEPT ![i] = Absent] /\ todo' = [todo EXCEPT ![Gui] = @ \ {i}]
      BY <2>7 DEF DeleteRow
    <3>2. pc[Gui] = "deleting" /\ pc' = pc /\ devices' = devices
      BY <2>7 DEF DeleteRow
    <3>3. todo[Gui] \cap Present(devices[Gui]) = {} /\ \A j \in Ids \ todo[Gui] : db[j] = devices[Gui][j]
      BY <2>1, <3>2 DEF Saving, Written
    <3>4. i \in Ids /\ db'[i] = Absent /\ (\A j \in Ids : j # i => db'[j] = db[j])
          /\ todo'[Gui] = todo[Gui] \ {i}
      BY <1>1, <3>1 DEF TypeOK, Table
    <3>5. devices[Gui][i] = Absent
      BY <3>1, <3>3, <3>4 DEF Present
    <3>6. todo'[Gui] \cap Present(devices[Gui]) = {} /\ \A j \in Ids \ todo'[Gui] : db'[j] = devices[Gui][j]
      BY <3>3, <3>4, <3>5
    <3>7. Written(Gui)'
      BY <3>2, <3>6 DEF Written, Present
    <3> QED
      BY <2>3, <3>2, <3>7
  <2>8. CASE SaveDone(Gui)
    <3>1. pc[Gui] = "deleting" /\ todo[Gui] = {} /\ db' = db /\ pc'[Gui] = "idle"
      BY <1>1, <2>8 DEF SaveDone, Leave, TypeOK
    <3>2. \A j \in Ids : db[j] = devices[Gui][j]
      BY <2>1, <3>1 DEF Saving, Written
    <3>3. db = devices[Gui]
      BY <1>1, <3>2 DEF TypeOK, Table
    <3>4. Stamps(db') = wanted' /\ Distinct(db')
      BY <1>2, <2>1, <3>1, <3>3 DEF Saving
    <3>5. \A v \in Workers : pc'[v] \notin {"upserting", "deleting"}
      BY <2>2 DEF HoldsList
    <3> QED
      BY <2>2, <3>1, <3>4, <3>5 DEF AtRest, Stamps, Distinct, Present
  <2>9. CASE SaveFails(Gui)
    BY <1>5, <2>9 DEF SaveFails, Leave, AfterChange
  <2> QED
    BY <2>4, <2>5, <2>6, <2>7, <2>8, <2>9 DEF SaveStep
<1> QED
  BY <1>3, <1>5 DEF InventoryInv, Undisturbed

(* The invariant, one action at a time *)
LEMMA InventoryStep ==
  ASSUME InventoryInv, [Next]_vars
  PROVE  InventoryInv'
<1>1. TypeOK /\ SaverTypes /\ Gui \in Savers /\ Gui \notin Workers
      /\ \A w \in Workers : w \in Savers /\ w # Gui
  BY InventoryAssumption DEF InventoryInv, Savers
<1>2. CASE AddDevice \/ \E i \in Ids : EditDevice(i) \/ DeleteDevice(i)
  BY <1>2, ChangesKeep
<1>3. CASE TickDevices
  <2>1. TypeOK' /\ SaverTypes'
    BY <1>1, <1>3, StepTypes
  <2> QED
    BY <1>3, <2>1, ListsUntouched DEF TickDevices, saveVars, history
<1>4. CASE UpdateDevicesUi
  <2>1. TypeOK' /\ SaverTypes'
    BY <1>1, <1>4, StepTypes
  <2> QED
    BY <1>4, <2>1, ListsUntouched DEF UpdateDevicesUi, saveVars, history
<1>5. ASSUME NEW w \in Workers, StartRefresh(w)
      PROVE  InventoryInv'
  <2>1. TypeOK' /\ SaverTypes'
    BY <1>1, <1>5, StepTypes
  <2>2. UNCHANGED <<db, devices, existing, todo, stamp, wanted, raced, failed>>
    BY <1>5 DEF StartRefresh, saveVars, history
  <2>3. pc'[Gui] = pc[Gui] /\ \A v \in Workers : pc'[v] = pc[v] \/ pc'[v] \in {"idle", "loading"}
    BY <1>1, <1>5 DEF StartRefresh, TypeOK
  <2> QED
    BY <2>1, <2>2, <2>3, ListsUntouched
<1>6. ASSUME NEW w \in Workers, Load(w)
      PROVE  InventoryInv'
  BY <1>1, <1>6, StepTypes, LoadKeeps
<1>7. ASSUME NEW w \in Workers, SaveStep(w) \/ Probe(w)
      PROVE  InventoryInv'
  BY <1>1, <1>7, StepTypes, RefreshWritesNothing
<1>8. CASE SaveStep(Gui)
  BY <1>1, <1>8, StepTypes, SaveWrites
<1>9. CASE UNCHANGED vars
  <2>1. TypeOK' /\ SaverTypes'
    BY <1>1, <1>9, StepTypes
  <2> QED
    BY <1>9, <2>1, ListsUntouched DEF vars, saveVars, history
<1> QED
  BY <1>2, <1>3, <1>4, <1>5, <1>6, <1>7, <1>8, <1>9 DEF Next, RefreshStep

(* The invariant holds in every behaviour of the inventory. *)
LEMMA InventoryInvariance == Spec => []InventoryInv
<1>1. Init => InventoryInv
  BY InventoryInit
<1>2. InventoryInv /\ [Next]_vars => InventoryInv'
  BY InventoryStep
<1> QED
  BY <1>1, <1>2, PTL DEF Spec

(* The devices table, the lists of its readers and the queue of refreshes are *)
(* always what their types say.                                               *)
THEOREM InventoryTypeCorrect == Spec => []TypeOK
<1>1. InventoryInv => TypeOK
  BY DEF InventoryInv
<1> QED
  BY <1>1, InventoryInvariance, PTL

(* Saved, the user's changes stay in the table, each once: save_inventory     *)
(* loses one only to a refresh that had loaded before, or to a failure.       *)
THEOREM ChangesStay == Spec => []ChangesKept
<1>1. InventoryInv => ChangesKept
  <2>1. ASSUME InventoryInv, pc[Gui] = "idle", ~raced, ~failed
        PROVE  /\ {db[i] : i \in Present(db)} = wanted
               /\ Cardinality(Present(db)) = Cardinality(wanted)
    <3>1. db \in Table /\ Stamps(db) = wanted /\ Distinct(db)
      BY <2>1 DEF InventoryInv, Undisturbed, AtRest, TypeOK
    <3>2. Cardinality(Present(db)) = Cardinality(Stamps(db))
      BY <3>1, RowsCounted
    <3> QED
      BY <3>1, <3>2 DEF Stamps
  <2> QED
    BY <2>1 DEF ChangesKept
<1> QED
  BY <1>1, InventoryInvariance, PTL

-----------------------------------------------------------------------------
(***************************************************************************)
(* Polling: the due times and the intervals.                               *)
(*                                                                         *)
(* Rests is about the step that begins a tick; what it needs is that the   *)
(* time left until a device is due and the time it has rested make up the  *)
(* least interval in every state.                                          *)
(***************************************************************************)
(* What is left of a due time and the time a device has rested make up the    *)
(* least interval; one without a due time has rested, was forced or is being  *)
(* polled.                                                                    *)
RestsUntilDue ==
  /\ ~ticking => polling = {}
  /\ \A d \in Serviced :
       IF due[d] = NoEntry
       THEN rested[d] = MinInterval \/ d \in forced \/ d \in polling
       ELSE due[d] + rested[d] >= MinInterval

PollingInv == PollingTypeOK /\ SlowOnlyIfStable /\ RestsUntilDue

(* The greater and the lesser of two integers are what Max and Min choose. *)
LEMMA OfTwo ==
  ASSUME NEW a \in Int, NEW b \in Int
  PROVE  /\ Max({a, b}) = IF a >= b THEN a ELSE b
         /\ Min({a, b}) = IF a <= b THEN a ELSE b
<1>1. \E x \in {a, b} : \A y \in {a, b} : x >= y
  OBVIOUS
<1>2. Max({a, b}) \in {a, b} /\ \A y \in {a, b} : Max({a, b}) >= y
  BY <1>1 DEF Max
<1>3. \E x \in {a, b} : \A y \in {a, b} : x =< y
  OBVIOUS
<1>4. Min({a, b}) \in {a, b} /\ \A y \in {a, b} : Min({a, b}) <= y
  BY <1>3 DEF Min
<1>5. Max({a, b}) = IF a >= b THEN a ELSE b
  BY <1>2
<1>6. Min({a, b}) = IF a <= b THEN a ELSE b
  BY <1>4
<1> QED
  BY <1>5, <1>6

(* The intervals of the settings, in their order *)
LEMMA Intervals ==
  /\ MinInterval \in Nat \ {0} /\ MaxInterval \in Nat /\ MinInterval <= MaxInterval
  /\ DefaultInterval \in MinInterval .. MaxInterval
  /\ TickFloor \in 1 .. MaxInterval /\ HistorySize \in Nat \ {0} /\ MaxSpawned \in Nat \ {0}
<1>1. DefaultInterval \in MinInterval .. MaxInterval /\ MinInterval \in Nat \ {0} /\ MaxInterval \in Nat
  BY PollingAssumption
<1>2. MinInterval <= MaxInterval
  BY <1>1
<1>3. TickFloor \in 1 .. MinInterval
  BY PollingAssumption
<1>4. TickFloor \in 1 .. MaxInterval
  BY <1>1, <1>2, <1>3
<1> QED
  BY <1>1, <1>2, <1>4, PollingAssumption

(* The timer is armed for a time within the greatest interval. *)
LEMMA RearmBounded ==
  ASSUME PollingTypeOK
  PROVE  Rearm \in 1 .. MaxInterval
<1>1. CASE Entries = {}
  BY <1>1, Intervals DEF Rearm
<1>2. CASE Entries # {}
  <2>1. \A t \in Entries : t \in 0 .. MaxInterval
    BY Intervals DEF Entries, PollingTypeOK, NoEntry
  <2>2. Entries \in SUBSET Nat
    BY <2>1
  <2>3. \E x \in Entries : \A y \in Entries : x =< y
    BY <1>2, <2>2, LeastNatural
  <2>4. Min(Entries) \in Entries
    BY <2>3 DEF Min
  <2>5. PICK t \in 0 .. MaxInterval : t = Min(Entries)
    BY <2>1, <2>4
  <2>6. Rearm = Max({TickFloor, t})
    BY <1>2, <2>5 DEF Rearm
  <2>7. TickFloor \in Int /\ t \in Int
    BY Intervals
  <2>8. Rearm = IF TickFloor >= t THEN TickFloor ELSE t
    BY <2>6, <2>7, OfTwo
  <2> QED
    BY <2>5, <2>8, Intervals
<1> QED
  BY <1>1, <1>2

(* A recorded output is the last of a history that keeps its size. *)
LEMMA Recorded ==
  ASSUME NEW seq \in Seq(Outputs), Len(seq) <= HistorySize, NEW sha \in Outputs
  PROVE  Record(seq, sha) \in Seq(Outputs) /\ Len(Record(seq, sha)) <= HistorySize
<1> DEFINE longer == Append(seq, sha)
<1>1. longer \in Seq(Outputs) /\ Len(longer) = Len(seq) + 1 /\ Len(seq) \in Nat /\ HistorySize \in Nat
      /\ longer # <<>>
  BY Intervals
<1>2. Tail(longer) \in Seq(Outputs) /\ Len(Tail(longer)) = Len(longer) - 1
  BY <1>1
<1>3. Record(seq, sha) = IF Len(longer) > HistorySize THEN Tail(longer) ELSE longer
  BY DEF Record
<1> HIDE DEF longer
<1> QED
  BY <1>1, <1>2, <1>3

(* A stable history is full of one output. *)
LEMMA StableHistory ==
  ASSUME NEW seq \in Seq(Outputs), IsStable(seq)
  PROVE  \E sha \in Outputs : seq = [i \in 1 .. HistorySize |-> sha]
<1>1. Len(seq) = HistorySize /\ \A i \in 1 .. HistorySize : seq[i] = seq[1]
  BY DEF IsStable
<1>2. 1 \in 1 .. HistorySize
  BY Intervals
<1>3. seq[1] \in Outputs
  BY <1>1, <1>2
<1>4. seq = [i \in 1 .. HistorySize |-> seq[1]]
  BY <1>1
<1> QED
  BY <1>3, <1>4

(* The next interval is one of the settings', and the least unless stable. *)
LEMMA NextIntervalBounded ==
  ASSUME PollingTypeOK, NEW d \in Devices, NEW stable \in BOOLEAN
  PROVE  /\ NextInterval(d, stable) \in MinInterval .. MaxInterval
         /\ ~stable => NextInterval(d, stable) = MinInterval
<1>1. current[d] \in MinInterval .. MaxInterval
  BY DEF PollingTypeOK
<1>2. CASE stable
  <2>1. MaxInterval \in Int /\ current[d] * 2 \in Int
    BY <1>1, Intervals
  <2>2. NextInterval(d, stable) = IF MaxInterval <= current[d] * 2 THEN MaxInterval ELSE current[d] * 2
    BY <1>2, <2>1, OfTwo DEF NextInterval
  <2>3. PICK c \in MinInterval .. MaxInterval : c = current[d]
    BY <1>1
  <2>4. c \in Nat /\ MinInterval <= c * 2
    BY <2>3, Intervals
  <2>5. NextInterval(d, stable) \in MinInterval .. MaxInterval
    BY <2>2, <2>3, <2>4, Intervals
  <2> QED
    BY <1>2, <2>5
<1>3. CASE ~stable
  BY <1>3, Intervals DEF NextInterval
<1> QED
  BY <1>2, <1>3

(* The first tick finds nothing recorded and everybody rested. *)
LEMMA PollingStarts ==
  ASSUME PollingInit
  PROVE  PollingInv
<1> USE DEF PollingInit
<1>1. hist \in [Devices -> Seq(Outputs)] /\ \A d \in Devices : Len(hist[d]) <= HistorySize
  BY Intervals
<1>2. due \in [Devices -> NoEntry .. MaxInterval] /\ rested \in [Devices -> 0 .. MinInterval]
      /\ current \in [Devices -> MinInterval .. MaxInterval] /\ timer \in 0 .. MaxInterval
      /\ spawned \in 0 .. MaxSpawned
  BY Intervals DEF NoEntry
<1>3. PollingTypeOK
  BY <1>1, <1>2 DEF PollingTypeOK
<1>4. SlowOnlyIfStable
  BY Intervals DEF SlowOnlyIfStable
<1>5. RestsUntilDue
  <2>1. Serviced \subseteq Devices
    BY PollingAssumption
  <2> QED
    BY <2>1 DEF RestsUntilDue
<1> QED
  BY <1>3, <1>4, <1>5 DEF PollingInv

(* The end of a poll with an interval: the device rests from here on. *)
LEMMA NextDueKeeps ==
  ASSUME PollingInv, NEW d \in Devices, NEW interval \in MinInterval .. MaxInterval,
         d \in polling, SetNextDue(d, interval),
         UNCHANGED <<online, timer, spawned, ticking, forced>>,
         current' \in [Devices -> MinInterval .. MaxInterval], hist' \in [Devices -> Seq(Outputs)],
         \A e \in Devices : Len(hist'[e]) <= HistorySize, SlowOnlyIfStable'
  PROVE  PollingInv'
<1>1. PollingTypeOK /\ RestsUntilDue
  BY DEF PollingInv
<1>2. /\ due' = [due EXCEPT ![d] = interval] /\ polling' = polling \ {d}
      /\ rested' = [rested EXCEPT ![d] = 0]
  BY DEF SetNextDue
<1>3. interval \in NoEntry .. MaxInterval /\ interval >= MinInterval /\ interval # NoEntry /\ 0 \in 0 .. MinInterval
  BY Intervals DEF NoEntry
<1>4. PollingTypeOK'
  <2>1. due' \in [Devices -> NoEntry .. MaxInterval] /\ rested' \in [Devices -> 0 .. MinInterval]
        /\ polling' \in SUBSET Devices
    BY <1>1, <1>2, <1>3 DEF PollingTypeOK
  <2> QED
    BY <1>1, <2>1 DEF PollingTypeOK
<1>5. RestsUntilDue'
  <2>1. ticking' = ticking /\ forced' = forced
    OBVIOUS
  <2>2. ~ticking' => polling' = {}
    BY <1>1, <1>2, <2>1 DEF RestsUntilDue
  <2>3. ASSUME NEW e \in Serviced
        PROVE  IF due'[e] = NoEntry
               THEN rested'[e] = MinInterval \/ e \in forced' \/ e \in polling'
               ELSE due'[e] + rested'[e] >= MinInterval
    <3>1. e \in Devices
      BY PollingAssumption
    <3>2. CASE e = d
      <4>1. due'[e] = interval /\ rested'[e] = 0
        BY <1>1, <1>2, <3>1, <3>2 DEF PollingTypeOK
      <4>2. interval + 0 >= MinInterval
        BY <1>3, Intervals
      <4> QED
        BY <1>3, <4>1, <4>2
    <3>3. CASE e # d
      <4>1. due'[e] = due[e] /\ rested'[e] = rested[e] /\ (e \in polling => e \in polling')
        BY <1>1, <1>2, <3>1, <3>3 DEF PollingTypeOK
      <4> QED
        BY <1>1, <2>1, <4>1 DEF RestsUntilDue
    <3> QED
      BY <3>2, <3>3
  <2> QED
    BY <2>2, <2>3 DEF RestsUntilDue
<1> QED
  BY <1>4, <1>5 DEF PollingInv

(* A poll that ends keeps the invariant, whichever way it ends. *)
LEMMA PollKeeps ==
  ASSUME PollingInv, NEW d \in Devices, PollDevice(d)
  PROVE  PollingInv'
<1>1. PollingTypeOK /\ SlowOnlyIfStable /\ RestsUntilDue
  BY DEF PollingInv
<1>2. CASE PollSkipped(d)
  <2>1. /\ d \notin Serviced /\ polling' = polling \ {d}
        /\ UNCHANGED <<online, due, hist, current, timer, spawned, ticking, rested, forced>>
    BY <1>2 DEF PollSkipped, pollHistory
  <2>2. PollingTypeOK'
    BY <1>1, <2>1 DEF PollingTypeOK
  <2>3. SlowOnlyIfStable'
    BY <1>1, <2>1 DEF SlowOnlyIfStable
  <2>4. RestsUntilDue'
    BY <1>1, <2>1 DEF RestsUntilDue
  <2> QED
    BY <2>2, <2>3, <2>4 DEF PollingInv
<1>3. CASE PollFails(d)
  <2>1. /\ d \in polling /\ SetNextDue(d, DefaultInterval)
        /\ UNCHANGED <<online, hist, current, timer, spawned, ticking, forced>>
    BY <1>3 DEF PollFails
  <2>2. /\ current' \in [Devices -> MinInterval .. MaxInterval] /\ hist' \in [Devices -> Seq(Outputs)]
        /\ \A e \in Devices : Len(hist'[e]) <= HistorySize
    BY <1>1, <2>1 DEF PollingTypeOK
  <2>3. SlowOnlyIfStable'
    BY <1>1, <2>1 DEF SlowOnlyIfStable
  <2> QED
    BY <2>1, <2>2, <2>3, Intervals, NextDueKeeps
<1>4. CASE PollErrs(d)
  <2>1. /\ d \in polling /\ SetNextDue(d, MinInterval)
        /\ current' = [current EXCEPT ![d] = MinInterval]
        /\ UNCHANGED <<online, hist, timer, spawned, ticking, forced>>
    BY <1>4 DEF PollErrs, NextInterval
  <2>2. MinInterval \in MinInterval .. MaxInterval
    BY Intervals
  <2>3. /\ current' \in [Devices -> MinInterval .. MaxInterval] /\ hist' \in [Devices -> Seq(Outputs)]
        /\ \A e \in Devices : Len(hist'[e]) <= HistorySize
    BY <1>1, <2>1, <2>2 DEF PollingTypeOK
  <2>4. SlowOnlyIfStable'
    <3>1. \A e \in Devices : current'[e] = current[e] \/ current'[e] = MinInterval
      BY <1>1, <2>1 DEF PollingTypeOK
    <3> QED
      BY <1>1, <2>1, <3>1, Intervals DEF SlowOnlyIfStable
  <2> QED
    BY <2>1, <2>2, <2>3, <2>4, NextDueKeeps
<1>5. CASE PollSucceeds(d)
  <2>1. PICK sha \in Outputs :
          LET seq == Record(hist[d], sha)
              interval == NextInterval(d, IsStable(seq)) IN
          /\ hist' = [hist EXCEPT ![d] = seq]
          /\ current' = [current EXCEPT ![d] = interval]
          /\ SetNextDue(d, interval)
    BY <1>5 DEF PollSucceeds
  <2>2. PICK seq : seq = Record(hist[d], sha)
    OBVIOUS
  <2>3. PICK stable : stable = IsStable(seq)
    OBVIOUS
  <2>4. stable \in BOOLEAN
    BY <2>3 DEF IsStable
  <2>5. PICK interval : interval = NextInterval(d, stable)
    OBVIOUS
  <2>6. /\ hist' = [hist EXCEPT ![d] = seq] /\ current' = [current EXCEPT ![d] = interval]
        /\ SetNextDue(d, interval) /\ d \in polling
        /\ UNCHANGED <<online, timer, spawned, ticking, forced>>
    BY <1>5, <2>1, <2>2, <2>3, <2>5 DEF PollSucceeds
  <2>7. interval \in MinInterval .. MaxInterval /\ (~stable => interval = MinInterval)
    BY <1>1, <2>4, <2>5, NextIntervalBounded
  <2>8. seq \in Seq(Outputs) /\ Len(seq) <= HistorySize
    BY <1>1, <2>2, Recorded DEF PollingTypeOK
  <2>9. /\ current' \in [Devices -> MinInterval .. MaxInterval] /\ hist' \in [Devices -> Seq(Outputs)]
        /\ \A e \in Devices : Len(hist'[e]) <= HistorySize
    BY <1>1, <2>6, <2>7, <2>8 DEF PollingTypeOK
  <2>10. SlowOnlyIfStable'
    <3>1. ASSUME NEW e \in Devices, current'[e] > MinInterval
          PROVE  \E out \in Outputs : hist'[e] = [i \in 1 .. HistorySize |-> out]
      <4>1. CASE e = d
        <5>1. current'[e] = interval /\ hist'[e] = seq
          BY <1>1, <2>6, <4>1 DEF PollingTypeOK
        <5>2. stable
          BY <2>4, <2>7, <3>1, <5>1, Intervals
        <5> QED
          BY <2>3, <2>8, <5>1, <5>2, StableHistory
      <4>2. CASE e # d
        <5>1. current'[e] = current[e] /\ hist'[e] = hist[e]
          BY <1>1, <2>6, <4>2 DEF PollingTypeOK
        <5> QED
          BY <1>1, <3>1, <5>1 DEF SlowOnlyIfStable
      <4> QED
        BY <4>1, <4>2
    <3> QED
      BY <3>1 DEF SlowOnlyIfStable
  <2> QED
    BY <2>6, <2>7, <2>9, <2>10, NextDueKeeps
<1> QED
  BY <1>2, <1>3, <1>4, <1>5 DEF PollDevice

(* As time passes, what a due time loses the rest of its device gains. *)
LEMMA TimeKeeps ==
  ASSUME PollingInv, TimePasses
  PROVE  PollingInv'
<1>1. PollingTypeOK /\ SlowOnlyIfStable /\ RestsUntilDue
  BY DEF PollingInv
<1>2. /\ timer' = Max({timer - 1, 0})
      /\ due' = [d \in Devices |-> IF due[d] > 0 THEN due[d] - 1 ELSE due[d]]
      /\ rested' = [d \in Devices |-> Min({MinInterval, rested[d] + 1})]
      /\ UNCHANGED <<online, hist, current, spawned, ticking, polling, forced>>
  BY DEF TimePasses
<1>3. timer' \in 0 .. MaxInterval
  <2>1. timer \in 0 .. MaxInterval
    BY <1>1 DEF PollingTypeOK
  <2>2. timer - 1 \in Int /\ 0 \in Int
    BY <2>1, Intervals
  <2>3. timer' = IF timer - 1 >= 0 THEN timer - 1 ELSE 0
    BY <1>2, <2>2, OfTwo
  <2> QED
    BY <2>1, <2>3, Intervals
<1>4. ASSUME NEW d \in Devices
      PROVE  /\ due[d] \in NoEntry .. MaxInterval /\ rested[d] \in 0 .. MinInterval
             /\ due'[d] = IF due[d] > 0 THEN due[d] - 1 ELSE due[d]
             /\ rested'[d] = IF MinInterval <= rested[d] + 1 THEN MinInterval ELSE rested[d] + 1
  <2>1. due[d] \in NoEntry .. MaxInterval /\ rested[d] \in 0 .. MinInterval
    BY <1>1 DEF PollingTypeOK
  <2>2. MinInterval \in Int /\ rested[d] + 1 \in Int
    BY <2>1, Intervals
  <2>3. Min({MinInterval, rested[d] + 1}) = IF MinInterval <= rested[d] + 1 THEN MinInterval ELSE rested[d] + 1
    BY <2>2, OfTwo
  <2> QED
    BY <1>2, <2>1, <2>3
<1>5. \A d \in Devices : due'[d] \in NoEntry .. MaxInterval /\ rested'[d] \in 0 .. MinInterval
  <2>1. ASSUME NEW d \in Devices
        PROVE  due'[d] \in NoEntry .. MaxInterval /\ rested'[d] \in 0 .. MinInterval
    <3>1. due'[d] \in NoEntry .. MaxInterval
      BY <1>4, Intervals DEF NoEntry
    <3>2. rested'[d] \in 0 .. MinInterval
      BY <1>4, Intervals
    <3> QED
      BY <3>1, <3>2
  <2> QED
    BY <2>1
<1>6. PollingTypeOK'
  <2>1. due' \in [Devices -> NoEntry .. MaxInterval] /\ rested' \in [Devices -> 0 .. MinInterval]
    BY <1>2, <1>5
  <2> QED
    BY <1>1, <1>2, <1>3, <2>1 DEF PollingTypeOK
<1>7. SlowOnlyIfStable'
  BY <1>1, <1>2 DEF SlowOnlyIfStable
<1>8. RestsUntilDue'
  <2>1. ticking' = ticking /\ polling' = polling /\ forced' = forced
    BY <1>2
  <2>2. ASSUME NEW d \in Serviced
        PROVE  IF due'[d] = NoEntry
               THEN rested'[d] = MinInterval \/ d \in forced' \/ d \in polling'
               ELSE due'[d] + rested'[d] >= MinInterval
    <3>1. d \in Devices
      BY PollingAssumption
    <3>2. IF due[d] = NoEntry
          THEN rested[d] = MinInterval \/ d \in forced \/ d \in polling
          ELSE due[d] + rested[d] >= MinInterval
      BY <1>1 DEF RestsUntilDue
    <3>3. CASE due[d] = NoEntry
      <4>1. due'[d] = NoEntry
        BY <1>4, <3>1, <3>3 DEF NoEntry
      <4>2. rested[d] = MinInterval => rested'[d] = MinInterval
        BY <1>4, <3>1, Intervals
      <4> QED
        BY <2>1, <3>2, <3>3, <4>1, <4>2
    <3>4. CASE due[d] # NoEntry
      <4>1. due[d] \in 0 .. MaxInterval
        BY <1>4, <3>1, <3>4, Intervals DEF NoEntry
      <4>2. due'[d] # NoEntry /\ due'[d] + rested'[d] >= MinInterval
        BY <1>4, <3>1, <3>2, <3>4, <4>1, Intervals DEF NoEntry
      <4> QED
        BY <4>2
    <3> QED
      BY <3>3, <3>4
  <2> QED
    BY <1>1, <2>1, <2>2 DEF RestsUntilDue
<1> QED
  BY <1>6, <1>7, <1>8 DEF PollingInv

(* A tick polls no device but those that are due. *)
LEMMA TickKeeps ==
  ASSUME PollingInv, StartTick
  PROVE  /\ PollingInv'
         /\ \A d \in polling' \ polling : d \in Serviced => rested[d] = MinInterval \/ d \in forced
<1>1. PollingTypeOK /\ SlowOnlyIfStable /\ RestsUntilDue
  BY DEF PollingInv
<1>2. /\ spawned > 0 /\ spawned' = spawned - 1 /\ ticking' = TRUE
      /\ \/ UNCHANGED <<polling, forced>>
         \/ ~ticking /\ polling' = {d \in Chosen : IsDue(d)} /\ forced' = forced \ polling'
      /\ UNCHANGED <<online, due, hist, current, timer, rested>>
  BY DEF StartTick
<1>3. SlowOnlyIfStable'
  BY <1>1, <1>2 DEF SlowOnlyIfStable
<1>4. spawned' \in 0 .. MaxSpawned
  BY <1>1, <1>2, Intervals DEF PollingTypeOK
<1>5. CASE UNCHANGED <<polling, forced>>
  <2>1. PollingTypeOK'
    BY <1>1, <1>2, <1>4, <1>5 DEF PollingTypeOK
  <2>2. RestsUntilDue'
    BY <1>1, <1>2, <1>5 DEF RestsUntilDue
  <2> QED
    BY <1>3, <1>5, <2>1, <2>2 DEF PollingInv
<1>6. CASE ~ticking /\ polling' = {d \in Chosen : IsDue(d)} /\ forced' = forced \ polling'
  <2>1. polling = {}
    BY <1>1, <1>6 DEF RestsUntilDue
  <2>2. polling' \subseteq Devices /\ forced' \subseteq Devices
    BY <1>1, <1>6 DEF PollingTypeOK, Chosen
  <2>3. PollingTypeOK'
    BY <1>1, <1>2, <1>4, <2>2 DEF PollingTypeOK
  <2>4. RestsUntilDue'
    <3>1. \A d \in forced : d \in forced' \/ d \in polling'
      BY <1>6
    <3> QED
      BY <1>1, <1>2, <2>1, <3>1 DEF RestsUntilDue
  <2>5. ASSUME NEW d \in polling', d \in Serviced
        PROVE  rested[d] = MinInterval \/ d \in forced
    <3>1. due[d] = NoEntry \/ due[d] = 0
      BY <1>6 DEF IsDue
    <3>2. CASE due[d] = NoEntry
      BY <1>1, <2>1, <2>5, <3>2 DEF RestsUntilDue
    <3>3. CASE due[d] = 0
      <4>1. due[d] + rested[d] >= MinInterval
        BY <1>1, <2>5, <3>3 DEF RestsUntilDue, NoEntry
      <4>2. rested[d] \in 0 .. MinInterval
        BY <1>1, <2>2 DEF PollingTypeOK
      <4> QED
        BY <3>3, <4>1, <4>2, Intervals
    <3> QED
      BY <3>1, <3>2, <3>3
  <2> QED
    BY <1>3, <2>3, <2>4, <2>5 DEF PollingInv
<1> QED
  BY <1>2, <1>5, <1>6

(* The invariant, and that no step polls a device before it has rested *)
LEMMA PollingStep ==
  ASSUME PollingInv, [PollingNext]_pollingVars
  PROVE  /\ PollingInv'
         /\ \A d \in polling' \ polling : d \in Serviced => rested[d] = MinInterval \/ d \in forced
<1>1. PollingTypeOK /\ SlowOnlyIfStable /\ RestsUntilDue
  BY DEF PollingInv
<1>2. CASE TimePasses
  <2>1. polling' = polling
    BY <1>2 DEF TimePasses
  <2> QED
    BY <1>2, <2>1, TimeKeeps
<1>3. CASE TimerFires
  <2>1. /\ spawned < MaxSpawned /\ spawned' = spawned + 1 /\ timer' = Rearm
        /\ UNCHANGED <<online, due, hist, current, ticking, polling, rested, forced>>
    BY <1>3 DEF TimerFires, pollHistory
  <2>2. timer' \in 0 .. MaxInterval
    <3>1. Rearm \in 1 .. MaxInterval
      BY <1>1, RearmBounded
    <3> QED
      BY <2>1, <3>1, Intervals
  <2>3. spawned' \in 0 .. MaxSpawned
    BY <1>1, <2>1, Intervals DEF PollingTypeOK
  <2>4. PollingTypeOK'
    BY <1>1, <2>1, <2>2, <2>3 DEF PollingTypeOK
  <2>5. SlowOnlyIfStable' /\ RestsUntilDue'
    BY <1>1, <2>1 DEF SlowOnlyIfStable, RestsUntilDue
  <2> QED
    BY <2>1, <2>4, <2>5 DEF PollingInv
<1>4. CASE StartTick
  BY <1>4, TickKeeps
<1>5. CASE EndTick
  <2>1. /\ polling = {} /\ ticking' = FALSE
        /\ UNCHANGED <<online, due, hist, current, timer, spawned, polling, rested, forced>>
    BY <1>5 DEF EndTick, pollHistory
  <2>2. PollingTypeOK'
    BY <1>1, <2>1 DEF PollingTypeOK
  <2>3. SlowOnlyIfStable' /\ RestsUntilDue'
    BY <1>1, <2>1 DEF SlowOnlyIfStable, RestsUntilDue
  <2> QED
    BY <2>1, <2>2, <2>3 DEF PollingInv
<1>6. ASSUME NEW d \in Devices, StatusChanges(d)
      PROVE  PollingInv' /\ polling' = polling
  <2>1. /\ online' = (IF d \in online THEN online \ {d} ELSE online \cup {d})
        /\ UNCHANGED <<due, hist, current, timer, spawned, ticking, polling, rested, forced>>
    BY <1>6 DEF StatusChanges, pollHistory
  <2>2. PollingTypeOK'
    BY <1>1, <2>1 DEF PollingTypeOK
  <2>3. SlowOnlyIfStable' /\ RestsUntilDue'
    BY <1>1, <2>1 DEF SlowOnlyIfStable, RestsUntilDue
  <2> QED
    BY <2>1, <2>2, <2>3 DEF PollingInv
<1>7. ASSUME NEW d \in Devices, ForcePoll(d)
      PROVE  PollingInv' /\ polling' = polling
  <2>1. /\ due' = [due EXCEPT ![d] = NoEntry] /\ forced' = forced \cup {d}
        /\ UNCHANGED <<online, hist, current, timer, spawned, ticking, polling, rested>>
    BY <1>7 DEF ForcePoll
  <2>2. NoEntry \in NoEntry .. MaxInterval
    BY Intervals DEF NoEntry
  <2>3. PollingTypeOK'
    BY <1>1, <2>1, <2>2 DEF PollingTypeOK
  <2>4. SlowOnlyIfStable'
    BY <1>1, <2>1 DEF SlowOnlyIfStable
  <2>5. RestsUntilDue'
    <3>1. due'[d] = NoEntry /\ \A e \in Devices : e # d => due'[e] = due[e]
      BY <1>1, <2>1 DEF PollingTypeOK
    <3>2. Serviced \subseteq Devices
      BY PollingAssumption
    <3> QED
      BY <1>1, <2>1, <3>1, <3>2 DEF RestsUntilDue
  <2> QED
    BY <2>1, <2>3, <2>4, <2>5 DEF PollingInv
<1>8. ASSUME NEW d \in Devices, PollDevice(d)
      PROVE  PollingInv' /\ polling' \subseteq polling
  <2>1. polling' = polling \ {d}
    BY <1>8 DEF PollDevice, PollSkipped, PollFails, PollErrs, PollSucceeds, SetNextDue
  <2> QED
    BY <1>8, <2>1, PollKeeps
<1>9. CASE UNCHANGED pollingVars
  <2>1. UNCHANGED <<online, due, hist, current, timer, spawned, ticking, polling, rested, forced>>
    BY <1>9 DEF pollingVars, pollHistory
  <2>2. PollingTypeOK'
    BY <1>1, <2>1 DEF PollingTypeOK
  <2>3. SlowOnlyIfStable' /\ RestsUntilDue'
    BY <1>1, <2>1 DEF SlowOnlyIfStable, RestsUntilDue
  <2> QED
    BY <2>1, <2>2, <2>3 DEF PollingInv
<1> QED
  BY <1>2, <1>3, <1>4, <1>5, <1>6, <1>7, <1>8, <1>9 DEF PollingNext

(* The invariant holds in every behaviour of the polling. *)
LEMMA PollingInvariance == PollingSpec => []PollingInv
<1>1. PollingInit => PollingInv
  BY PollingStarts
<1>2. PollingInv /\ [PollingNext]_pollingVars => PollingInv'
  BY PollingStep
<1> QED
  BY <1>1, <1>2, PTL DEF PollingSpec

(* The due times, intervals, histories and the timer stay within their bounds. *)
THEOREM PollingTypeCorrect == PollingSpec => []PollingTypeOK
<1>1. PollingInv => PollingTypeOK
  BY DEF PollingInv
<1> QED
  BY <1>1, PollingInvariance, PTL

(* IntervalDecider slows a device down only on a full and stable history. *)
THEOREM SlowedWhenStable == PollingSpec => []SlowOnlyIfStable
<1>1. PollingInv => SlowOnlyIfStable
  BY DEF PollingInv
<1> QED
  BY <1>1, PollingInvariance, PTL

(* However ticks overlap and polls drag on, _tick_impl polls no device that   *)
(* has not rested, unless it was forced.                                      *)
THEOREM DevicesRest == PollingSpec => Rests
<1>1. PollingInv /\ [PollingNext]_pollingVars =>
        [\A d \in polling' \ polling :
           d \in Serviced => rested[d] = MinInterval \/ d \in forced]_pollingVars
  BY PollingStep
<1> QED
  BY <1>1, PollingInvariance, PTL DEF PollingSpec, Rests

==============================================================================
