--------------------------- MODULE BackendProofs ----------------------------
(***************************************************************************)
(* Proofs about the parts of the application that MCBackend checks, each   *)
(* with its own specification and for any constants: the event bus, the    *)
(* controller, the listeners and their decoder, and the secrets.           *)
(***************************************************************************)
EXTENDS Listeners, EventBus, ControllerCore, Secrets, FiniteSetTheorems,
        WellFoundedInduction, NaturalsInduction, TLAPS

-----------------------------------------------------------------------------
(***************************************************************************)
(* EventBus: delivery, and what a producer pushes.                         *)
(***************************************************************************)
(* The types of the histories, and what a producer holds while it is in put(). *)
HistoryOK ==
  /\ got \in Seq(Item)
  /\ dropped \in SUBSET Item
  /\ calls \in SUBSET (Subscribers \X Item)
  /\ owed \in [Producers -> SUBSET Subscribers]
  /\ eligible \in [Producers -> SUBSET Subscribers]
  /\ changes \in Nat

Holding ==
  \A p \in Producers : place[p] # "idle" => item[p] \in Item /\ item[p].from = p

Typed == BusTypeOK /\ HistoryOK /\ Holding

(* Where an event can be. *)
Taken == Elements(got)
All == InFlight \cup queue \cup Taken \cup dropped

(* The threads start with the types right ... *)
LEMMA TypedInit == BusInit => Typed
  BY BusAssumption DEF BusInit, Typed, BusTypeOK, HistoryOK, Holding

(* ... and every step keeps them. *)
LEMMA TypedStep == Typed /\ [BusNext]_busVars => Typed'
<1>1. SUFFICES ASSUME Typed, [BusNext]_busVars PROVE Typed'
  OBVIOUS
<1>2. USE BusAssumption DEF Typed, BusTypeOK, HistoryOK, Holding
<1>3. ASSUME NEW p \in Producers, Draw(p) PROVE Typed'
  <2>1. PICK prio \in Priorities :
          item' = [item EXCEPT ![p] = [prio |-> prio, ticket |-> counter, from |-> p]]
    BY <1>3 DEF Draw
  <2>2. [prio |-> prio, ticket |-> counter, from |-> p] \in Item
    BY <1>1 DEF Item
  <2>3. \A q \in Producers : item'[q] = IF q = p THEN [prio |-> prio, ticket |-> counter, from |-> p] ELSE item[q]
    BY <1>1, <2>1
  <2>4. item' \in [Producers -> Item \cup {NoItem}]
    BY <1>1, <2>1, <2>2
  <2>5. Holding'
    BY <1>1, <1>3, <2>2, <2>3 DEF Draw
  <2> QED
    BY <1>1, <1>3, <2>4, <2>5 DEF Draw, NextTicket
<1>4. ASSUME NEW p \in Producers, Insert(p) PROVE Typed'
  BY <1>1, <1>4 DEF Insert, busHistory
<1>5. ASSUME NEW p \in Producers, GiveUp(p) PROVE Typed'
  BY <1>1, <1>5 DEF GiveUp, busHistory
<1>6. ASSUME NEW p \in Producers, CopyCallbacks(p) PROVE Typed'
  BY <1>1, <1>6 DEF CopyCallbacks, busHistory
<1>7. ASSUME NEW p \in Producers, Call(p) PROVE Typed'
  BY <1>1, <1>7 DEF Call, busHistory
<1>8. ASSUME NEW p \in Producers, Return(p) PROVE Typed'
  BY <1>1, <1>8 DEF Return, busHistory
<1>9. ASSUME NEW s \in Subscribers, Subscribe(s) PROVE Typed'
  BY <1>1, <1>9 DEF Subscribe, busHistory
<1>10. ASSUME NEW s \in Subscribers, Unsubscribe(s) PROVE Typed'
  BY <1>1, <1>10 DEF Unsubscribe, busHistory
<1>11. ASSUME Get PROVE Typed'
  <2>1. PICK i \in queue : Take(i)
    BY <1>11 DEF Get
  <2>2. got' \in Seq(Item)
    BY <1>1, <2>1 DEF Take
  <2> QED
    BY <1>1, <1>11, <2>1, <2>2 DEF Get, Take
<1>12. ASSUME PollNext PROVE Typed'
  <2>1. PICK i \in queue : Take(i)
    BY <1>12 DEF PollNext
  <2>2. got' \in Seq(Item)
    BY <1>1, <2>1 DEF Take
  <2> QED
    BY <1>1, <1>12, <2>1, <2>2 DEF PollNext, Take
<1>13. ASSUME PollEnd PROVE Typed'
  BY <1>1, <1>13 DEF PollEnd, busHistory
<1>14. ASSUME UNCHANGED busVars PROVE Typed'
  BY <1>1, <1>14 DEF busVars, busHistory
<1> QED
  BY <1>1, <1>3, <1>4, <1>5, <1>6, <1>7, <1>8, <1>9, <1>10,
     <1>11, <1>12, <1>13, <1>14 DEF BusNext, PutStep

(***************************************************************************)
(* What the steps do to the four places where an event can be.             *)
(***************************************************************************)
(* A put() that has drawn its ticket is on its way in: nothing else moves. *)
LEMMA DrawMoves ==
  ASSUME Typed, NEW p \in Producers, Draw(p)
  PROVE  /\ InFlight' = InFlight \cup {item'[p]}
         /\ item'[p] \in Item /\ item'[p].ticket = counter /\ item'[p].from = p
         /\ \A q \in Producers \ {p} : item'[q] = item[q] /\ place'[q] = place[q]
<1>1. PICK prio \in Priorities :
        item' = [item EXCEPT ![p] = [prio |-> prio, ticket |-> counter, from |-> p]]
  BY DEF Draw
<1>2. item'[p] = [prio |-> prio, ticket |-> counter, from |-> p] /\ place'[p] = "inserting"
  BY <1>1 DEF Draw, Typed, BusTypeOK
<1>3. \A q \in Producers \ {p} : item'[q] = item[q] /\ place'[q] = place[q]
  BY <1>1 DEF Draw, Typed, BusTypeOK
<1>4. place[p] # "inserting"
  BY DEF Draw
<1>5. InFlight' = InFlight \cup {item'[p]}
  BY <1>2, <1>3, <1>4 DEF InFlight
<1> QED
  BY <1>2, <1>3, <1>5 DEF Item, Typed, BusTypeOK

(* A put() that inserts or gives up takes its own event out of the way in, *)
(* and nobody else's: no two producers hold the same event.                *)
LEMMA LeaveMoves ==
  ASSUME Typed, NEW p \in Producers, place[p] = "inserting", place' = [place EXCEPT ![p] = "snapshot"]
                                                          \/ place' = [place EXCEPT ![p] = "idle"],
         \A q \in Producers \ {p} : item'[q] = item[q]
  PROVE  InFlight' = InFlight \ {item[p]} /\ item[p] \in InFlight
<1>1. \A q \in Producers \ {p} : place'[q] = place[q]
  BY DEF Typed, BusTypeOK
<1>2. place'[p] # "inserting"
  BY DEF Typed, BusTypeOK
<1>3. \A q \in Producers \ {p} : place[q] = "inserting" => item[q] # item[p]
  BY DEF Typed, Holding
<1> QED
  BY <1>1, <1>2, <1>3 DEF InFlight

(* The rest of put() leaves the events on their way in alone. *)
LEMMA StayMoves ==
  ASSUME Typed,
         \A q \in Producers : /\ place'[q] = "inserting" <=> place[q] = "inserting"
                              /\ place[q] = "inserting" => item'[q] = item[q]
  PROVE  InFlight' = InFlight
  BY DEF InFlight

(* What get() removes is taken, at the end of what was taken before. *)
LEMMA TakeMoves ==
  ASSUME Typed, NEW i \in queue, Take(i)
  PROVE  /\ Taken' = Taken \cup {i} /\ queue' = queue \ {i}
         /\ Len(got') = Len(got) + 1 /\ Len(got) \in Nat
         /\ DOMAIN got = 1 .. Len(got) /\ DOMAIN got' = 1 .. Len(got) + 1
         /\ got'[Len(got) + 1] = i /\ \A n \in DOMAIN got : got'[n] = got[n]
<1>1. got \in Seq(Item) /\ i \in Item
  BY DEF Typed, HistoryOK, BusTypeOK
<1>2. got' = Append(got, i) /\ queue' = queue \ {i}
  BY DEF Take
<1>3. Len(got) \in Nat /\ DOMAIN got = 1 .. Len(got)
  BY <1>1
<1>4. Len(got') = Len(got) + 1 /\ DOMAIN got' = 1 .. Len(got) + 1
  BY <1>1, <1>2
<1>5. got'[Len(got) + 1] = i /\ \A n \in 1 .. Len(got) : got'[n] = got[n]
  BY <1>1, <1>2
<1>6. 1 .. Len(got) + 1 = (1 .. Len(got)) \cup {Len(got) + 1}
  BY <1>3
<1>7. Taken' = Taken \cup {i}
  BY <1>3, <1>4, <1>5, <1>6 DEF Taken, Elements
<1> QED
  BY <1>2, <1>3, <1>4, <1>5, <1>7

(***************************************************************************)
(* Conservation is not inductive: two events might merge on their way from *)
(* one place to the next.  They do not, because the four places never      *)
(* share an event and a new ticket is greater than every ticket there is.  *)
(***************************************************************************)
Apart ==
  /\ InFlight \cap (queue \cup Taken \cup dropped) = {}
  /\ queue \cap (Taken \cup dropped) = {}
  /\ Taken \cap dropped = {}

Numbered == \A i \in All : i.ticket < counter

Finite ==
  /\ IsFiniteSet(InFlight)
  /\ IsFiniteSet(queue)
  /\ IsFiniteSet(Taken)
  /\ IsFiniteSet(dropped)

Counted ==
  /\ Cardinality(InFlight) + Cardinality(queue) + Len(got) + Cardinality(dropped) = counter
  /\ Cardinality(All) = counter
  /\ dropCount = Cardinality(dropped)
  /\ Cardinality(queue) <= Capacity

Accounted == Apart /\ Numbered /\ Finite /\ Counted

(* The account is what the bus promises. *)
LEMMA CountedConserves == Counted => Conservation
  BY DEF Counted, Conservation, All, Taken

(* How many events a place holds is a number. *)
LEMMA Sizes ==
  ASSUME Typed, Finite
  PROVE  /\ Cardinality(InFlight) \in Nat
         /\ Cardinality(queue) \in Nat
         /\ Cardinality(dropped) \in Nat
         /\ Len(got) \in Nat
<1>1. Cardinality(InFlight) \in Nat
  BY FS_CardinalityType DEF Finite
<1>2. Cardinality(queue) \in Nat
  BY FS_CardinalityType DEF Finite
<1>3. Cardinality(dropped) \in Nat
  BY FS_CardinalityType DEF Finite
<1> QED
  BY <1>1, <1>2, <1>3 DEF Typed, HistoryOK

(* At the start there is nothing to count ... *)
LEMMA AccountedInit == BusInit => Accounted
<1> SUFFICES ASSUME BusInit PROVE Accounted
  OBVIOUS
<1>1. InFlight = {} /\ queue = {} /\ Taken = {} /\ dropped = {}
  BY DEF BusInit, InFlight, Taken, Elements
<1>2. Cardinality({}) = 0 /\ IsFiniteSet({})
  BY FS_EmptySet
<1>3. Len(got) = 0 /\ counter = 0 /\ dropCount = 0
  BY DEF BusInit
<1> QED
  BY <1>1, <1>2, <1>3, BusAssumption DEF Accounted, Apart, Numbered, Finite, All, Counted, Taken

(* A new event adds one to both sides. *)
LEMMA AccountedDraw ==
  ASSUME Typed, Accounted, NEW p \in Producers, Draw(p)
  PROVE  Accounted'
<1> DEFINE e == item'[p]
<1>1. /\ InFlight' = InFlight \cup {e} /\ e.ticket = counter /\ e \in Item
      /\ queue' = queue /\ got' = got /\ dropped' = dropped /\ dropCount' = dropCount
      /\ counter' = counter + 1 /\ counter \in Nat
  BY DrawMoves DEF Draw, NextTicket, Typed, BusTypeOK
<1>2. Taken' = Taken /\ All' = All \cup {e}
  BY <1>1 DEF Taken, All, Elements
<1> HIDE DEF e
<1>3. e \notin All
  BY <1>1 DEF Accounted, Numbered
<1>4. \A i \in All : i.ticket \in Nat
  <2>1. InFlight \subseteq Item
    BY DEF InFlight, Typed, Holding
  <2>2. Taken \subseteq Item
    BY DEF Taken, Elements, Typed, HistoryOK
  <2>3. All \subseteq Item
    BY <2>1, <2>2 DEF All, Typed, BusTypeOK, HistoryOK
  <2> QED
    BY <2>3 DEF Item
<1>5. Numbered'
  BY <1>1, <1>2, <1>4 DEF Accounted, Numbered
<1>6. Apart'
  BY <1>1, <1>2, <1>3 DEF Accounted, Apart, All
<1>7. IsFiniteSet(All)
  BY FS_Union DEF Accounted, Finite, All
<1>8. /\ IsFiniteSet(InFlight') /\ Cardinality(InFlight') = Cardinality(InFlight) + 1
      /\ Cardinality(All') = Cardinality(All) + 1
  <2>1. IsFiniteSet(InFlight) /\ e \notin InFlight
    BY <1>3 DEF All, Accounted, Finite
  <2>2. Cardinality(InFlight \cup {e}) = Cardinality(InFlight) + 1 /\ IsFiniteSet(InFlight \cup {e})
    BY <2>1, FS_AddElement
  <2>3. Cardinality(All \cup {e}) = Cardinality(All) + 1
    BY <1>3, <1>7, FS_AddElement
  <2> QED
    BY <1>1, <1>2, <2>2, <2>3
<1>9. Finite'
  BY <1>1, <1>2, <1>8 DEF Accounted, Finite
<1>10. Cardinality(InFlight) \in Nat /\ Cardinality(queue) \in Nat /\ Cardinality(dropped) \in Nat /\ Len(got) \in Nat
  BY Sizes DEF Accounted
<1>11. Cardinality(InFlight') + Cardinality(queue') + Len(got') + Cardinality(dropped') = counter'
  <2>1. /\ Cardinality(queue') = Cardinality(queue) /\ Len(got') = Len(got)
        /\ Cardinality(dropped') = Cardinality(dropped)
        /\ counter' = counter + 1 /\ Cardinality(InFlight') = Cardinality(InFlight) + 1
    BY <1>1, <1>8
  <2>2. Cardinality(InFlight) + Cardinality(queue) + Len(got) + Cardinality(dropped) = counter
    BY DEF Accounted, Counted
  <2> QED
    BY <2>1, <2>2, <1>10
<1>12. Cardinality(All') = counter'
  BY <1>1, <1>8 DEF Accounted, Counted
<1>13. Counted'
  BY <1>1, <1>11, <1>12 DEF Accounted, Counted
<1> QED
  BY <1>5, <1>6, <1>9, <1>13 DEF Accounted

(* An event that enters the queue leaves the way in, and there was room. *)
LEMMA AccountedInsert ==
  ASSUME Typed, Accounted, NEW p \in Producers, Insert(p)
  PROVE  Accounted'
<1> DEFINE e == item[p]
<1>1. InFlight' = InFlight \ {e} /\ e \in InFlight
  BY LeaveMoves DEF Insert
<1>2. /\ queue' = queue \cup {e} /\ got' = got /\ dropped' = dropped /\ dropCount' = dropCount
      /\ counter' = counter /\ ~Full
  BY DEF Insert
<1> HIDE DEF e
<1>3. Taken' = Taken /\ All' = All
  BY <1>1, <1>2 DEF Taken, All, Elements
<1>4. Apart' /\ Numbered' /\ e \notin queue
  BY <1>1, <1>2, <1>3 DEF Accounted, Apart, Numbered
<1>5. /\ IsFiniteSet(InFlight') /\ Cardinality(InFlight') = Cardinality(InFlight) - 1
      /\ IsFiniteSet(queue') /\ Cardinality(queue') = Cardinality(queue) + 1
  BY <1>1, <1>2, <1>4, FS_AddElement, FS_RemoveElement DEF Accounted, Finite
<1>6. Cardinality(InFlight) \in Nat /\ Cardinality(queue) \in Nat /\ Cardinality(dropped) \in Nat /\ Len(got) \in Nat
  BY Sizes DEF Accounted
<1>7. Counted'
  BY <1>2, <1>3, <1>5, <1>6, BusAssumption DEF Accounted, Counted, Full
<1>8. Finite'
  BY <1>2, <1>3, <1>5 DEF Accounted, Finite
<1> QED
  BY <1>4, <1>7, <1>8 DEF Accounted

(* An event that is given up leaves the way in and is counted. *)
LEMMA AccountedGiveUp ==
  ASSUME Typed, Accounted, NEW p \in Producers, GiveUp(p)
  PROVE  Accounted'
<1> DEFINE e == item[p]
<1>1. InFlight' = InFlight \ {e} /\ e \in InFlight
  <2>1. \A q \in Producers \ {p} : item'[q] = item[q]
    BY DEF GiveUp, Typed, BusTypeOK
  <2> QED
    BY <2>1, LeaveMoves DEF GiveUp
<1>2. /\ queue' = queue /\ got' = got /\ dropped' = dropped \cup {e} /\ dropCount' = dropCount + 1
      /\ counter' = counter
  BY DEF GiveUp
<1> HIDE DEF e
<1>3. Taken' = Taken /\ All' = All
  BY <1>1, <1>2 DEF Taken, All, Elements
<1>4. Apart' /\ Numbered' /\ e \notin dropped
  BY <1>1, <1>2, <1>3 DEF Accounted, Apart, Numbered
<1>5. /\ IsFiniteSet(InFlight') /\ Cardinality(InFlight') = Cardinality(InFlight) - 1
      /\ IsFiniteSet(dropped') /\ Cardinality(dropped') = Cardinality(dropped) + 1
  BY <1>1, <1>2, <1>4, FS_AddElement, FS_RemoveElement DEF Accounted, Finite
<1>6. Cardinality(InFlight) \in Nat /\ Cardinality(queue) \in Nat /\ Cardinality(dropped) \in Nat /\ Len(got) \in Nat
  BY Sizes DEF Accounted
<1>7. Counted'
  BY <1>2, <1>3, <1>5, <1>6 DEF Accounted, Counted
<1>8. Finite'
  BY <1>2, <1>3, <1>5 DEF Accounted, Finite
<1> QED
  BY <1>4, <1>7, <1>8 DEF Accounted

(* An event that is taken leaves the queue. *)
LEMMA AccountedTake ==
  ASSUME Typed, Accounted, NEW i \in queue, Take(i),
         UNCHANGED <<counter, dropCount, place, item, dropped>>
  PROVE  Accounted'
<1>1. InFlight' = InFlight
  BY DEF InFlight
<1>2. Taken' = Taken \cup {i} /\ queue' = queue \ {i} /\ Len(got') = Len(got) + 1
  BY TakeMoves
<1>3. All' = All
  BY <1>1, <1>2 DEF All
<1>4. Apart' /\ Numbered' /\ i \notin Taken
  BY <1>1, <1>2, <1>3 DEF Accounted, Apart, Numbered
<1>5. /\ IsFiniteSet(Taken')
      /\ IsFiniteSet(queue') /\ Cardinality(queue') = Cardinality(queue) - 1
  BY <1>2, FS_AddElement, FS_RemoveElement DEF Accounted, Finite
<1>6. Cardinality(InFlight) \in Nat /\ Cardinality(queue) \in Nat /\ Cardinality(dropped) \in Nat /\ Len(got) \in Nat
  BY Sizes DEF Accounted
<1>7. Counted'
  BY <1>1, <1>2, <1>3, <1>5, <1>6, BusAssumption DEF Accounted, Counted
<1>8. Finite'
  BY <1>1, <1>2, <1>5 DEF Accounted, Finite
<1> QED
  BY <1>4, <1>7, <1>8 DEF Accounted

(* No event moves in the other steps. *)
LEMMA AccountedStay ==
  ASSUME Accounted, InFlight' = InFlight, UNCHANGED <<queue, got, dropped, counter, dropCount>>
  PROVE  Accounted'
<1>1. Taken' = Taken /\ All' = All
  BY DEF Taken, Elements, All
<1> QED
  BY <1>1 DEF Accounted, Apart, Numbered, Finite, Counted

(* Every step keeps the account. *)
LEMMA AccountedStep == Typed /\ Accounted /\ [BusNext]_busVars => Accounted'
<1>1. SUFFICES ASSUME Typed /\ Accounted, [BusNext]_busVars PROVE Accounted'
  OBVIOUS
<1>2. ASSUME NEW p \in Producers, Draw(p) PROVE Accounted'
  BY <1>1, <1>2, AccountedDraw
<1>3. ASSUME NEW p \in Producers, Insert(p) PROVE Accounted'
  BY <1>1, <1>3, AccountedInsert
<1>4. ASSUME NEW p \in Producers, GiveUp(p) PROVE Accounted'
  BY <1>1, <1>4, AccountedGiveUp
<1>5. ASSUME NEW p \in Producers, CopyCallbacks(p) PROVE Accounted'
  <2>1. InFlight' = InFlight
    BY <1>1, <1>5, StayMoves DEF CopyCallbacks, Typed, BusTypeOK
  <2> QED
    BY <1>1, <1>5, <2>1, AccountedStay DEF CopyCallbacks, busHistory
<1>6. ASSUME NEW p \in Producers, Call(p) PROVE Accounted'
  <2>1. InFlight' = InFlight
    BY <1>1, <1>6, StayMoves DEF Call, Typed, BusTypeOK
  <2> QED
    BY <1>1, <1>6, <2>1, AccountedStay DEF Call, busHistory
<1>7. ASSUME NEW p \in Producers, Return(p) PROVE Accounted'
  <2>1. InFlight' = InFlight
    BY <1>1, <1>7, StayMoves DEF Return, Typed, BusTypeOK
  <2> QED
    BY <1>1, <1>7, <2>1, AccountedStay DEF Return, busHistory
<1>8. ASSUME NEW s \in Subscribers, Subscribe(s) PROVE Accounted'
  <2>1. InFlight' = InFlight
    BY <1>1, <1>8, StayMoves DEF Subscribe, Typed, BusTypeOK
  <2> QED
    BY <1>1, <1>8, <2>1, AccountedStay DEF Subscribe, busHistory
<1>9. ASSUME NEW s \in Subscribers, Unsubscribe(s) PROVE Accounted'
  <2>1. InFlight' = InFlight
    BY <1>1, <1>9, StayMoves DEF Unsubscribe, Typed, BusTypeOK
  <2> QED
    BY <1>1, <1>9, <2>1, AccountedStay DEF Unsubscribe, busHistory
<1>10. ASSUME Get PROVE Accounted'
  <2>1. PICK i \in queue : Take(i)
    BY <1>10 DEF Get
  <2> QED
    BY <1>1, <1>10, <2>1, AccountedTake DEF Get
<1>11. ASSUME PollNext PROVE Accounted'
  <2>1. PICK i \in queue : Take(i)
    BY <1>11 DEF PollNext
  <2> QED
    BY <1>1, <1>11, <2>1, AccountedTake DEF PollNext
<1>12. ASSUME PollEnd PROVE Accounted'
  <2>1. InFlight' = InFlight
    BY <1>1, <1>12, StayMoves DEF PollEnd, Typed, BusTypeOK
  <2> QED
    BY <1>1, <1>12, <2>1, AccountedStay DEF PollEnd, busHistory
<1>13. ASSUME UNCHANGED busVars PROVE Accounted'
  <2>1. InFlight' = InFlight
    BY <1>13 DEF busVars, InFlight
  <2> QED
    BY <1>1, <1>13, <2>1, AccountedStay DEF busVars, busHistory
<1> QED
  BY <1>1, <1>2, <1>3, <1>4, <1>5, <1>6, <1>7, <1>8, <1>9,
     <1>10, <1>11, <1>12, <1>13 DEF BusNext, PutStep

(***************************************************************************)
(* ProducerFifo is not inductive: what is still to be taken must come      *)
(* after what was taken.  A producer puts one event at a time, so the one  *)
(* it holds is its latest, and the head of the heap has the least ticket   *)
(* of its priority.                                                        *)
(***************************************************************************)
LatestInHand ==
  \A p \in Producers : place[p] = "inserting" =>
    \A i \in queue \cup Taken : i.from = p => i.ticket < item[p].ticket

TakenFirst ==
  \A i \in queue : \A n \in DOMAIN got :
    got[n].from = i.from /\ got[n].prio = i.prio => got[n].ticket < i.ticket

InOrder == LatestInHand /\ TakenFirst /\ ProducerFifo

(* Nothing has been taken yet. *)
LEMMA InOrderInit == BusInit => InOrder
  BY DEF BusInit, InOrder, LatestInHand, TakenFirst, ProducerFifo, Taken, Elements

(* A new ticket is the greatest. *)
LEMMA InOrderDraw ==
  ASSUME Typed, Accounted, InOrder, NEW p \in Producers, Draw(p)
  PROVE  InOrder'
<1>1. /\ item'[p].ticket = counter
      /\ \A q \in Producers \ {p} : item'[q] = item[q] /\ place'[q] = place[q]
      /\ queue' = queue /\ got' = got
  BY DrawMoves DEF Draw
<1>2. Taken' = Taken
  BY <1>1 DEF Taken, Elements
<1>3. \A i \in queue \cup Taken : i.ticket < counter
  BY DEF Accounted, Numbered, All
<1>4. LatestInHand'
  BY <1>1, <1>2, <1>3 DEF InOrder, LatestInHand
<1> QED
  BY <1>1, <1>4 DEF InOrder, TakenFirst, ProducerFifo

(* What enters the queue comes after everything its producer put before. *)
LEMMA InOrderInsert ==
  ASSUME Typed, InOrder, NEW p \in Producers, Insert(p)
  PROVE  InOrder'
<1>1. /\ queue' = queue \cup {item[p]} /\ got' = got /\ item' = item /\ item[p].from = p
      /\ \A q \in Producers \ {p} : place'[q] = place[q]
      /\ place[p] = "inserting" /\ place'[p] = "snapshot"
  BY DEF Insert, Typed, BusTypeOK, Holding
<1>2. Taken' = Taken /\ \A n \in DOMAIN got : got[n] \in Taken
  BY <1>1 DEF Taken, Elements
<1>3. LatestInHand'
  BY <1>1, <1>2 DEF InOrder, LatestInHand
<1>4. TakenFirst'
  BY <1>1, <1>2 DEF InOrder, LatestInHand, TakenFirst
<1> QED
  BY <1>1, <1>3, <1>4 DEF InOrder, ProducerFifo

(* What is taken is the first of those of its priority. *)
LEMMA InOrderTake ==
  ASSUME Typed, InOrder, NEW i \in queue, Take(i), UNCHANGED <<place, item>>
  PROVE  InOrder'
<1> DEFINE new == Len(got) + 1
<1>1. /\ Taken' = Taken \cup {i} /\ queue' = queue \ {i}
      /\ DOMAIN got' = DOMAIN got \cup {new} /\ got'[new] = i
      /\ \A n \in DOMAIN got : got'[n] = got[n] /\ n < new
  BY TakeMoves
<1>2. \A j \in queue' : Before(i, j)
  BY <1>1 DEF Take, IsHead
<1> HIDE DEF new
<1>3. LatestInHand'
  BY <1>1 DEF InOrder, LatestInHand
<1>4. \A j \in queue : j.prio \in Nat
  BY BusAssumption DEF Typed, BusTypeOK, Item
<1>5. TakenFirst'
  BY <1>1, <1>2, <1>4 DEF InOrder, TakenFirst, Before
<1>6. new \in Nat /\ DOMAIN got \subseteq Nat
  BY TakeMoves DEF new
<1>7. ProducerFifo'
  BY <1>1, <1>6 DEF InOrder, TakenFirst, ProducerFifo
<1> QED
  BY <1>3, <1>5, <1>7 DEF InOrder

(* The other steps take nothing and put nothing on its way in. *)
LEMMA InOrderStay ==
  ASSUME InOrder, UNCHANGED <<queue, got>>,
         \A p \in Producers : place'[p] = "inserting" => place[p] = "inserting" /\ item'[p] = item[p]
  PROVE  InOrder'
<1>1. Taken' = Taken
  BY DEF Taken, Elements
<1> QED
  BY <1>1 DEF InOrder, LatestInHand, TakenFirst, ProducerFifo

(* Every step keeps the order. *)
LEMMA InOrderStep == Typed /\ Accounted /\ InOrder /\ [BusNext]_busVars => InOrder'
<1>1. SUFFICES ASSUME Typed /\ Accounted /\ InOrder, [BusNext]_busVars PROVE InOrder'
  OBVIOUS
<1>2. ASSUME NEW p \in Producers, Draw(p) PROVE InOrder'
  BY <1>1, <1>2, InOrderDraw
<1>3. ASSUME NEW p \in Producers, Insert(p) PROVE InOrder'
  BY <1>1, <1>3, InOrderInsert
<1>4. ASSUME NEW p \in Producers, GiveUp(p) PROVE InOrder'
  BY <1>1, <1>4, InOrderStay DEF GiveUp, busHistory, Typed, BusTypeOK
<1>5. ASSUME NEW p \in Producers, CopyCallbacks(p) PROVE InOrder'
  BY <1>1, <1>5, InOrderStay DEF CopyCallbacks, busHistory, Typed, BusTypeOK
<1>6. ASSUME NEW p \in Producers, Call(p) PROVE InOrder'
  BY <1>1, <1>6, InOrderStay DEF Call, busHistory, Typed, BusTypeOK
<1>7. ASSUME NEW p \in Producers, Return(p) PROVE InOrder'
  BY <1>1, <1>7, InOrderStay DEF Return, busHistory, Typed, BusTypeOK
<1>8. ASSUME NEW s \in Subscribers, Subscribe(s) PROVE InOrder'
  BY <1>1, <1>8, InOrderStay DEF Subscribe, busHistory, Typed, BusTypeOK
<1>9. ASSUME NEW s \in Subscribers, Unsubscribe(s) PROVE InOrder'
  BY <1>1, <1>9, InOrderStay DEF Unsubscribe, busHistory, Typed, BusTypeOK
<1>10. ASSUME Get PROVE InOrder'
  <2>1. PICK i \in queue : Take(i)
    BY <1>10 DEF Get
  <2> QED
    BY <1>1, <1>10, <2>1, InOrderTake DEF Get
<1>11. ASSUME PollNext PROVE InOrder'
  <2>1. PICK i \in queue : Take(i)
    BY <1>11 DEF PollNext
  <2> QED
    BY <1>1, <1>11, <2>1, InOrderTake DEF PollNext
<1>12. ASSUME PollEnd PROVE InOrder'
  BY <1>1, <1>12, InOrderStay DEF PollEnd, busHistory, Typed, BusTypeOK
<1>13. ASSUME UNCHANGED busVars PROVE InOrder'
  BY <1>1, <1>13, InOrderStay DEF busVars, busHistory
<1> QED
  BY <1>1, <1>2, <1>3, <1>4, <1>5, <1>6, <1>7, <1>8, <1>9,
     <1>10, <1>11, <1>12, <1>13 DEF BusNext, PutStep

(***************************************************************************)
(* PushComplete needs to know what a producer may call before it calls,    *)
(* and that no event is called about before it is in the queue.            *)
(***************************************************************************)
Heard == \A c \in calls : c[2] \in queue \cup Taken

Entered ==
  \A p \in Producers : place[p] \in {"snapshot", "calling"} => item[p] \in queue \cup Taken

Unheard ==
  \A p \in Producers : place[p] \in {"inserting", "snapshot"} =>
    \A s \in Subscribers : <<s, item[p]>> \notin calls

Registered ==
  \A p \in Producers : place[p] # "idle" => owed[p] \subseteq subscribers /\ subscribers \subseteq eligible[p]

Told ==
  \A p \in Producers : place[p] = "calling" =>
    /\ toCall[p] \subseteq eligible[p]
    /\ \A s \in owed[p] : s \in toCall[p] \/ <<s, item[p]>> \in calls
    /\ \A s \in Subscribers : <<s, item[p]>> \in calls => s \in eligible[p]

Pushed == Heard /\ Entered /\ Unheard /\ Registered /\ Told

(* Nobody has been called yet. *)
LEMMA PushedInit == BusInit => Pushed
  BY DEF BusInit, Pushed, Heard, Entered, Unheard, Registered, Told

(* Every step keeps the promises of the push side. *)
LEMMA PushedStep == Typed /\ Accounted /\ Pushed /\ [BusNext]_busVars => Pushed'
<1>1. SUFFICES ASSUME Typed /\ Accounted /\ Pushed, [BusNext]_busVars PROVE Pushed'
  OBVIOUS
<1>2. USE DEF Typed, BusTypeOK, HistoryOK, Pushed, Heard, Entered, Unheard, Registered, Told
<1>3. ASSUME NEW p \in Producers, Draw(p) PROVE Pushed'
  <2>1. /\ item'[p].ticket = counter
        /\ \A q \in Producers \ {p} : item'[q] = item[q] /\ place'[q] = place[q]
        /\ place'[p] = "inserting" /\ Taken' = Taken
    BY <1>1, <1>3, DrawMoves DEF Draw, Taken, Elements
  <2>2. \A i \in queue \cup Taken : i.ticket < counter
    BY <1>1 DEF Accounted, Numbered, All
  <2>3. \A s \in Subscribers : <<s, item'[p]>> \notin calls
    BY <1>1, <2>1, <2>2
  <2> QED
    BY <1>1, <1>3, <2>1, <2>3 DEF Draw
<1>4. ASSUME NEW p \in Producers, Insert(p) PROVE Pushed'
  <2>1. Taken' = Taken /\ queue' = queue \cup {item[p]}
    BY <1>4 DEF Insert, Taken, Elements
  <2> QED
    BY <1>1, <1>4, <2>1 DEF Insert
<1>5. ASSUME NEW p \in Producers, GiveUp(p) PROVE Pushed'
  <2>1. Taken' = Taken
    BY <1>5 DEF GiveUp, busHistory, busVars, Taken, Elements
  <2> QED
    BY <1>1, <1>5, <2>1 DEF GiveUp, busHistory
<1>6. ASSUME NEW p \in Producers, CopyCallbacks(p) PROVE Pushed'
  <2>1. Taken' = Taken
    BY <1>6 DEF CopyCallbacks, busHistory, busVars, Taken, Elements
  <2> QED
    BY <1>1, <1>6, <2>1 DEF CopyCallbacks, busHistory
<1>7. ASSUME NEW p \in Producers, Call(p) PROVE Pushed'
  <2>1. PICK s \in toCall[p] : toCall' = [toCall EXCEPT ![p] = @ \ {s}] /\ calls' = calls \cup {<<s, item[p]>>}
    BY <1>7 DEF Call
  <2>2. Taken' = Taken
    BY <1>7 DEF Call, Taken, Elements
  <2>3. \A q \in Producers \ {p} : place[q] # "idle" => item[q] # item[p]
    BY <1>1, <1>7 DEF Call, Holding
  <2>4. Unheard'
    BY <1>1, <1>7, <2>1, <2>3 DEF Call
  <2>5. Told'
    BY <1>1, <1>7, <2>1, <2>3 DEF Call
  <2> QED
    BY <1>1, <1>7, <2>1, <2>2, <2>4, <2>5 DEF Call
<1>8. ASSUME NEW p \in Producers, Return(p) PROVE Pushed'
  <2>1. Taken' = Taken
    BY <1>8 DEF Return, busHistory, busVars, Taken, Elements
  <2> QED
    BY <1>1, <1>8, <2>1 DEF Return, busHistory
<1>9. ASSUME NEW s \in Subscribers, Subscribe(s) PROVE Pushed'
  <2>1. Taken' = Taken
    BY <1>9 DEF Subscribe, busHistory, busVars, Taken, Elements
  <2> QED
    BY <1>1, <1>9, <2>1 DEF Subscribe, busHistory
<1>10. ASSUME NEW s \in Subscribers, Unsubscribe(s) PROVE Pushed'
  <2>1. Taken' = Taken
    BY <1>10 DEF Unsubscribe, busHistory, busVars, Taken, Elements
  <2> QED
    BY <1>1, <1>10, <2>1 DEF Unsubscribe, busHistory
<1>11. ASSUME Get PROVE Pushed'
  <2>1. PICK i \in queue : Take(i)
    BY <1>11 DEF Get
  <2>2. Taken' = Taken \cup {i} /\ queue' = queue \ {i}
    BY <1>1, <2>1, TakeMoves
  <2>3. queue' \cup Taken' = queue \cup Taken
    BY <2>2
  <2> HIDE DEF Typed
  <2> QED
    BY <1>1, <1>11, <2>3 DEF Get
<1>12. ASSUME PollNext PROVE Pushed'
  <2>1. PICK i \in queue : Take(i)
    BY <1>12 DEF PollNext
  <2>2. Taken' = Taken \cup {i} /\ queue' = queue \ {i}
    BY <1>1, <2>1, TakeMoves
  <2>3. queue' \cup Taken' = queue \cup Taken
    BY <2>2
  <2> HIDE DEF Typed
  <2> QED
    BY <1>1, <1>12, <2>3 DEF PollNext
<1>13. ASSUME PollEnd PROVE Pushed'
  <2>1. Taken' = Taken
    BY <1>13 DEF PollEnd, busHistory, busVars, Taken, Elements
  <2> QED
    BY <1>1, <1>13, <2>1 DEF PollEnd, busHistory
<1>14. ASSUME UNCHANGED busVars PROVE Pushed'
  <2>1. Taken' = Taken
    BY <1>14 DEF busHistory, busVars, Taken, Elements
  <2> QED
    BY <1>1, <1>14, <2>1 DEF busHistory, busVars
<1> QED
  BY <1>1, <1>3, <1>4, <1>5, <1>6, <1>7, <1>8, <1>9, <1>10,
     <1>11, <1>12, <1>13, <1>14 DEF BusNext, PutStep

-----------------------------------------------------------------------------
BusInv == Typed /\ Accounted /\ InOrder /\ Pushed

(* The four parts hold together in every reachable state. *)
LEMMA BusInvariant == BusSpec => []BusInv
<1>1. BusInit => BusInv
  BY TypedInit, AccountedInit, InOrderInit, PushedInit DEF BusInv
<1>2. BusInv /\ [BusNext]_busVars => BusInv'
  BY TypedStep, AccountedStep, InOrderStep, PushedStep DEF BusInv
<1> QED
  BY <1>1, <1>2, PTL DEF BusSpec

(* EventQueue keeps its types, whatever its producers and callbacks do. *)
THEOREM BusTypeCorrect == BusSpec => []BusTypeOK
<1>1. BusInv => BusTypeOK
  BY DEF BusInv, Typed
<1> QED
  BY <1>1, BusInvariant, PTL

(* put() and get() neither lose nor duplicate an event, the queue never      *)
(* exceeds its capacity, the drop counter counts what put() gave up, and the *)
(* consumer sees the events of a producer and a priority in order.           *)
THEOREM BusDelivers == BusSpec => []Delivery
<1>1. BusInv => Delivery
  BY CountedConserves DEF BusInv, Accounted, InOrder, Delivery
<1> QED
  BY <1>1, BusInvariant, PTL

(* put() returns only when every callback registered throughout has been     *)
(* called, and _notify() calls nobody who was not registered meanwhile, and  *)
(* only about events that entered the queue.                                 *)
THEOREM BusPushes == BusSpec => []PushComplete
<1>1. BusInv => PushComplete
  BY DEF BusInv, Pushed, Heard, Told, PushComplete, Taken
<1> QED
  BY <1>1, BusInvariant, PTL

-----------------------------------------------------------------------------
(***************************************************************************)
(* ControllerCore: what the dump file is worth.                            *)
(***************************************************************************)
(* A thread that handles an event has one, and a dead process does nothing. *)
Handling ==
  /\ \A t \in Threads : stage[t] \in {"looking", "writing", "syncing"} => event[t] \in Event
  /\ crashes \in Nat
  /\ ~up => crashes > 0 /\ armed = {} /\ \A t \in Threads : stage[t] = "idle"

CoreOK == CoreTypeOK /\ Handling

(* The threads that are going to dump: for a timer that fired, and for a      *)
(* critical event, from its publication on.                                   *)
Owes(t) ==
  \/ stage[t] = "serialising"
  \/ stage[t] \in {"looking", "writing"} /\ event[t].type \in Critical

Dumper == {t \in Threads : stage[t] \in Dumping}

(* Dumps that do not overlap are one at a time, and write over no other. *)
Alone ==
  /\ \A t, u \in Dumper : t = u
  /\ \A t \in Threads : stage[t] = "filling" => t \notin mixed

Stored == file = ToDict \/ (file = Torn /\ crashes > 0)

(* The state is in the file or on its way to it, unless somebody is still to  *)
(* dump or a change that does not dump was made.                              *)
OnItsWay ==
  up /\ ~unsaved /\ (\A t \in Threads : ~Owes(t)) =>
    IF Dumper = {} THEN Stored ELSE \A t \in Dumper : dumped[t] = ToDict

CoreInv == CoreOK /\ (~dumpsOverlapped => Alone /\ OnItsWay)

(* What an event may set a status to *)
LEMMA StatusesSet ==
  ASSUME NEW type \in DOMAIN StatusOf, NEW s \in StatusOf[type]
  PROVE  s \in Statuses
BY DEF StatusOf, Statuses

(* The first process has no event in hand. *)
LEMMA CoreOKInit ==
  CoreInit => CoreOK
<1> SUFFICES ASSUME CoreInit PROVE CoreOK
  OBVIOUS
<1> USE DEF CoreInit
<1>1. up \in BOOLEAN /\ coreRunning \in BOOLEAN /\ timer \in Timers \cup {NoTimer} /\ armed \in SUBSET Timers
  OBVIOUS
<1>2. devices \in [ManagedDevices -> Objects \cup {NoObject}] /\ objectStatus \in [Objects -> Statuses]
      /\ objectsMade \in 0 .. MaxObjects
  BY CoreAssumption DEF Statuses
<1>3. EmptyDump \in Dump
  BY DEF EmptyDump, Dump
<1>4. CoreTypeOK
  BY <1>1, <1>2, <1>3 DEF CoreTypeOK
<1>5. Handling
  BY DEF Handling
<1> QED
  BY <1>4, <1>5 DEF CoreOK

(* A new state is registered with an object that was not used before. *)
LEMMA StateStored ==
  ASSUME CoreTypeOK, NEW d \in ManagedDevices, StoreState(d)
  PROVE  /\ devices' \in [ManagedDevices -> Objects \cup {NoObject}]
         /\ objectStatus' \in [Objects -> Statuses]
         /\ objectsMade' \in 0 .. MaxObjects
<1>1. objectsMade + 1 \in Objects /\ objectsMade + 1 \in 0 .. MaxObjects
  BY CoreAssumption DEF CoreTypeOK, StoreState, Objects
<1> QED
  BY <1>1 DEF CoreTypeOK, StoreState, Statuses

(* A new process registers the devices of the file, each with an object of its *)
(* own: its state is the one the file holds.                                   *)
LEMMA LoadsFile ==
  ASSUME CoreTypeOK, Load
  PROVE  /\ devices' \in [ManagedDevices -> Objects \cup {NoObject}]
         /\ objectStatus' \in [Objects -> Statuses]
         /\ objectsMade' \in 0 .. MaxObjects
         /\ file # Torn => ToDict' = file
<1> DEFINE saved == IF file = Torn THEN EmptyDump ELSE file
           known == {d \in ManagedDevices : saved[d] # "none"}
<1>1. saved \in Dump
  BY DEF CoreTypeOK, EmptyDump, Dump
<1>2. PICK number \in [known -> 1 .. Cardinality(known)] :
        /\ \A d, e \in known : number[d] = number[e] => d = e
        /\ devices' = [d \in ManagedDevices |-> IF d \in known THEN number[d] ELSE NoObject]
        /\ objectStatus' = [o \in Objects |->
             IF \E d \in known : number[d] = o
             THEN saved[CHOOSE d \in known : number[d] = o]
             ELSE "unknown"]
  BY DEF Load
<1>3. Cardinality(known) \in Nat /\ Cardinality(known) <= MaxObjects
  <2>1. IsFiniteSet(ManagedDevices) /\ Cardinality(ManagedDevices) <= MaxObjects /\ MaxObjects \in Nat
    BY CoreAssumption
  <2>2. known \subseteq ManagedDevices
    OBVIOUS
  <2>3. Cardinality(known) <= Cardinality(ManagedDevices) /\ IsFiniteSet(known)
    BY <2>1, <2>2, FS_Subset
  <2>4. Cardinality(known) \in Nat /\ Cardinality(ManagedDevices) \in Nat
    BY <2>1, <2>3, FS_CardinalityType
  <2> QED
    BY <2>1, <2>3, <2>4
<1>4. objectsMade' = Cardinality(known)
  BY DEF Load
<1> HIDE DEF known
<1>5. \A d \in known : number[d] \in Objects /\ number[d] # NoObject
  BY <1>2, <1>3, CoreAssumption DEF Objects, NoObject
<1>6. known \subseteq ManagedDevices /\ \A d \in ManagedDevices : d \notin known => saved[d] = "none"
  BY DEF known
<1>7. \A d \in known : saved[d] \in Statuses
  BY <1>1, <1>6 DEF known, Dump
<1> HIDE DEF saved
<1>8. ASSUME NEW o \in Objects, NEW e \in known, number[e] = o
      PROVE  objectStatus'[o] = saved[e]
  <2>1. PICK c : c = CHOOSE d \in known : number[d] = o
    OBVIOUS
  <2>2. c \in known /\ number[c] = o
    BY <1>8, <2>1
  <2>3. c = e
    BY <1>2, <1>8, <2>2
  <2> QED
    BY <1>2, <1>8, <2>1, <2>3
<1>9. ASSUME NEW o \in Objects
      PROVE  objectStatus'[o] \in Statuses
  <2>1. CASE \E e \in known : number[e] = o
    BY <1>7, <1>8, <2>1
  <2>2. CASE ~ \E e \in known : number[e] = o
    BY <1>2, <2>2 DEF Statuses
  <2> QED
    BY <2>1, <2>2
<1>10. objectStatus' \in [Objects -> Statuses]
  <2>1. \E f : objectStatus' = [o \in Objects |-> f[o]]
    <3>1. objectStatus' = [o \in Objects |-> objectStatus'[o]]
      BY <1>2
    <3> QED
      BY <3>1
  <2> QED
    BY <1>9, <2>1
<1>11. devices' \in [ManagedDevices -> Objects \cup {NoObject}]
  BY <1>2, <1>5
<1>12. objectsMade' \in 0 .. MaxObjects
  BY <1>3, <1>4
<1>13. ASSUME NEW d \in ManagedDevices
       PROVE  (IF devices'[d] = NoObject THEN "none" ELSE objectStatus'[devices'[d]]) = saved[d]
  <2>1. CASE d \in known
    BY <1>2, <1>5, <1>8, <2>1
  <2>2. CASE d \notin known
    BY <1>2, <1>6, <2>2
  <2> QED
    BY <2>1, <2>2
<1>14. file # Torn => ToDict' = file
  <2>1. ToDict' = [d \in ManagedDevices |-> saved[d]]
    BY <1>13 DEF ToDict
  <2> QED
    BY <1>1, <2>1 DEF saved, Dump
<1> QED
  BY <1>10, <1>11, <1>12, <1>14

(* One step for every action *)
LEMMA CoreOKStep ==
  CoreOK /\ [CoreNext]_coreVars => CoreOK'
<1> SUFFICES ASSUME CoreOK, [CoreNext]_coreVars PROVE CoreOK'
  OBVIOUS
<1>1. CoreTypeOK /\ Handling
  BY DEF CoreOK
<1>2. Publishers \subseteq Threads /\ Timers \subseteq Threads
  BY DEF Threads
<1>3. ASSUME NEW t \in Publishers, NEW d \in ManagedDevices,
             Register(t, d) \/ Deregister(t, d) \/ SyncTest(t, d)
      PROVE  CoreOK'
  <2>1. PICK ev \in Event, label \in {"looking", "syncing"} :
          event' = [event EXCEPT ![t] = ev] /\ stage' = [stage EXCEPT ![t] = label]
    <3>1. \A type \in DOMAIN StatusOf : [dev |-> d, type |-> type] \in Event
      BY DEF Event
    <3>2. "CONNECTED" \in DOMAIN StatusOf /\ "DISCONNECTED" \in DOMAIN StatusOf
          /\ "STATUS_CHANGED" \in DOMAIN StatusOf
      BY DEF StatusOf
    <3> QED
      BY <1>3, <3>1, <3>2 DEF Register, Deregister, SyncTest, Publish, Proceed
  <2>2. /\ devices' \in [ManagedDevices -> Objects \cup {NoObject}]
        /\ objectStatus' \in [Objects -> Statuses]
        /\ objectsMade' \in 0 .. MaxObjects
    <3>1. CASE StoreState(d)
      BY <1>1, <3>1, StateStored
    <3>2. CASE devices' = [devices EXCEPT ![d] = NoObject] /\ UNCHANGED <<objectStatus, objectsMade>>
      BY <1>1, <3>2 DEF CoreTypeOK
    <3>3. CASE UNCHANGED memory
      BY <1>1, <3>3 DEF CoreTypeOK, memory
    <3> QED
      BY <1>3, <3>1, <3>2, <3>3 DEF Register, Deregister, SyncTest
  <2>3. up /\ crashes' = crashes /\ UNCHANGED <<up, file, object, dumped, mixed, timerVars>>
    BY <1>3 DEF Register, Deregister, SyncTest, Called
  <2>4. CoreTypeOK'
    BY <1>1, <1>2, <2>1, <2>2, <2>3 DEF CoreTypeOK, timerVars
  <2>5. Handling'
    BY <1>1, <1>2, <2>1, <2>3 DEF Handling, CoreTypeOK
  <2> QED
    BY <2>4, <2>5 DEF CoreOK
<1>4. ASSUME NEW t \in Publishers, NEW d \in ManagedDevices, UpdateState(t, d)
      PROVE  CoreOK'
  <2>1. up /\ UNCHANGED <<up, devices, objectsMade, file, stage, locals, timerVars, crashes>>
    BY <1>4 DEF UpdateState, Called
  <2>2. objectStatus' \in [Objects -> Statuses]
    BY <1>1, <1>4 DEF UpdateState, CoreTypeOK
  <2>3. CoreTypeOK'
    BY <1>1, <2>1, <2>2 DEF CoreTypeOK, locals, timerVars
  <2>4. Handling'
    BY <1>1, <2>1 DEF Handling, locals
  <2> QED
    BY <2>3, <2>4 DEF CoreOK
<1>5. ASSUME NEW t \in Publishers, PublishEvent(t)
      PROVE  CoreOK'
  <2>1. PICK ev \in Event : event' = [event EXCEPT ![t] = ev] /\ stage' = [stage EXCEPT ![t] = "looking"]
    BY <1>5 DEF PublishEvent, Publish, Proceed
  <2>2. up /\ crashes' = crashes /\ UNCHANGED <<up, memory, file, object, dumped, mixed, timerVars>>
    BY <1>5 DEF PublishEvent, Called
  <2>3. CoreTypeOK'
    BY <1>1, <1>2, <2>1, <2>2 DEF CoreTypeOK, memory, timerVars
  <2>4. Handling'
    BY <1>1, <1>2, <2>1, <2>2 DEF Handling, CoreTypeOK
  <2> QED
    BY <2>3, <2>4 DEF CoreOK
<1>6. ASSUME NEW t \in Threads, NEW label, stage[t] # "idle",
             label \in {"idle", "writing", "serialising", "opening", "filling", "rescheduling", "arming"},
             label = "writing" => event[t] \in Event,
             stage' = [stage EXCEPT ![t] = label],
             event' = event \/ (event' = [event EXCEPT ![t] = NoEvent] /\ label # "writing"),
             UNCHANGED <<up, crashes>>
      PROVE  /\ Handling'
             /\ stage' \in [Threads -> {"idle", "looking", "writing", "syncing", "serialising", "opening",
                                        "filling", "rescheduling", "arming"}]
             /\ event' \in [Threads -> Event \cup {NoEvent}]
  <2>1. up
    BY <1>1, <1>6 DEF Handling
  <2> QED
    BY <1>1, <1>6, <2>1 DEF Handling, CoreTypeOK
<1>7. ASSUME NEW t \in Publishers, SyncStore(t)
      PROVE  CoreOK'
  <2>1. /\ stage[t] = "syncing" /\ stage' = [stage EXCEPT ![t] = "idle"]
        /\ event' = [event EXCEPT ![t] = NoEvent] /\ StoreState(event[t].dev)
        /\ UNCHANGED <<up, file, object, dumped, mixed, timerVars, crashes>>
    BY <1>7 DEF SyncStore, Proceed, bounds
  <2>2. event[t].dev \in ManagedDevices
    BY <1>1, <1>2, <2>1 DEF Handling, Event
  <2>3. /\ devices' \in [ManagedDevices -> Objects \cup {NoObject}]
        /\ objectStatus' \in [Objects -> Statuses]
        /\ objectsMade' \in 0 .. MaxObjects
    BY <1>1, <2>1, <2>2, StateStored
  <2> QED
    BY <1>1, <1>2, <1>6, <2>1, <2>3 DEF CoreOK, CoreTypeOK, timerVars
<1>8. ASSUME NEW t \in Threads
      PROVE  AfterEvent(t) \in {"serialising", "idle"}
  BY DEF AfterEvent
<1>9. ASSUME NEW t \in Threads, LookUp(t)
      PROVE  CoreOK'
  <2>1. PICK label : label = IF devices[event[t].dev] = NoObject THEN AfterEvent(t) ELSE "writing"
    OBVIOUS
  <2>2. /\ stage[t] = "looking" /\ stage' = [stage EXCEPT ![t] = label]
        /\ object' = [object EXCEPT ![t] = devices[event[t].dev]]
        /\ UNCHANGED <<up, memory, file, event, dumped, mixed, timerVars, crashes>>
    BY <1>9, <2>1 DEF LookUp, Proceed, bounds
  <2>3. event[t] \in Event /\ event[t].dev \in ManagedDevices
    BY <1>1, <2>2 DEF Handling, Event
  <2>4. object' \in [Threads -> Objects \cup {NoObject}]
    BY <1>1, <2>2, <2>3 DEF CoreTypeOK
  <2>5. label \in {"serialising", "idle", "writing"}
    BY <1>8, <2>1
  <2>6. /\ Handling'
        /\ stage' \in [Threads -> {"idle", "looking", "writing", "syncing", "serialising", "opening",
                                   "filling", "rescheduling", "arming"}]
        /\ event' \in [Threads -> Event \cup {NoEvent}]
    <3>1. stage[t] # "idle" /\ stage' = [stage EXCEPT ![t] = label] /\ event' = event
          /\ UNCHANGED <<up, crashes>>
      BY <2>2
    <3>2. label = "writing" => event[t] \in Event
      BY <2>3
    <3>3. up
      BY <1>1, <2>2 DEF Handling
    <3>4. Handling'
      BY <1>1, <2>5, <3>1, <3>2, <3>3 DEF Handling, CoreTypeOK
    <3> QED
      BY <1>1, <2>5, <3>1, <3>4 DEF CoreTypeOK
  <2> QED
    BY <1>1, <2>2, <2>4, <2>6 DEF CoreOK, CoreTypeOK, memory, timerVars
<1>10. ASSUME NEW t \in Threads, WriteStatus(t)
       PROVE  CoreOK'
  <2>1. PICK label : label = AfterEvent(t)
    OBVIOUS
  <2>2. /\ stage[t] = "writing" /\ stage' = [stage EXCEPT ![t] = label]
        /\ UNCHANGED <<up, devices, objectsMade, file, locals, timerVars, crashes>>
    BY <1>10, <2>1 DEF WriteStatus, Proceed, bounds
  <2>3. event[t].type \in DOMAIN StatusOf
    BY <1>1, <2>2 DEF Handling, Event
  <2>4. objectStatus' \in [Objects -> Statuses]
    <3>1. PICK s \in StatusOf[event[t].type] : objectStatus' = [objectStatus EXCEPT ![object[t]] = s]
      BY <1>10 DEF WriteStatus
    <3>2. s \in Statuses
      BY <2>3, StatusesSet
    <3> QED
      BY <1>1, <3>1, <3>2 DEF CoreTypeOK
  <2>5. label \in {"serialising", "idle"} /\ event' = event
    BY <1>8, <2>1, <2>2 DEF locals
  <2> QED
    BY <1>1, <1>6, <2>2, <2>4, <2>5 DEF CoreOK, CoreTypeOK, locals, timerVars
<1>11. ASSUME NEW t \in Threads, Serialise(t)
       PROVE  CoreOK'
  <2>1. /\ stage[t] = "serialising" /\ stage' = [stage EXCEPT ![t] = "opening"]
        /\ dumped' = [dumped EXCEPT ![t] = ToDict]
        /\ UNCHANGED <<up, memory, file, event, object, mixed, timerVars, crashes>>
    BY <1>11 DEF Serialise, Proceed, bounds
  <2>2. ToDict \in Dump
    BY <1>1 DEF ToDict, Dump, CoreTypeOK
  <2>3. dumped' \in [Threads -> Dump]
    BY <1>1, <2>1, <2>2 DEF CoreTypeOK
  <2> QED
    BY <1>1, <1>6, <2>1, <2>3 DEF CoreOK, CoreTypeOK, memory, timerVars
<1>12. ASSUME NEW t \in Threads, OpenFile(t)
       PROVE  CoreOK'
  <2>1. /\ stage[t] = "opening" /\ stage' = [stage EXCEPT ![t] = "filling"]
        /\ file' = Torn /\ mixed' = mixed \ {t}
        /\ UNCHANGED <<up, memory, event, object, dumped, timerVars, crashes>>
    BY <1>12 DEF OpenFile, Proceed, bounds
  <2> QED
    BY <1>1, <1>6, <2>1 DEF CoreOK, CoreTypeOK, memory, timerVars
<1>13. ASSUME NEW t \in Threads, FillFile(t)
       PROVE  CoreOK'
  <2>1. PICK label : label = IF t \in Timers THEN "rescheduling" ELSE "idle"
    OBVIOUS
  <2>2. /\ stage[t] = "filling" /\ stage' = [stage EXCEPT ![t] = label]
        /\ event' = [event EXCEPT ![t] = NoEvent]
        /\ file' \in {dumped[t], Torn} /\ mixed' = (mixed \cup {u \in Threads : stage[u] = "filling"}) \ {t}
        /\ UNCHANGED <<up, memory, object, dumped, timerVars, crashes>>
    BY <1>13, <2>1 DEF FillFile, Proceed, bounds
  <2>3. file' \in Dump \cup {Torn} /\ mixed' \in SUBSET Threads
    BY <1>1, <2>2 DEF CoreTypeOK
  <2> QED
    BY <1>1, <1>6, <2>1, <2>2, <2>3 DEF CoreOK, CoreTypeOK, memory, timerVars
<1>14. CASE StartDumps \/ StopDumps
  <2>1. UNCHANGED <<memory, file, stage, locals, crashes>> /\ up /\ up' = up
    BY <1>14 DEF StartDumps, StopDumps
  <2>2. coreRunning' \in BOOLEAN /\ timer' \in Timers \cup {NoTimer} /\ armed' \in SUBSET Timers
    BY <1>1, <1>14 DEF StartDumps, StopDumps, Arm, CoreTypeOK
  <2>3. CoreTypeOK'
    BY <1>1, <2>1, <2>2 DEF CoreTypeOK, memory, locals
  <2>4. Handling'
    BY <1>1, <2>1 DEF Handling, locals
  <2> QED
    BY <2>3, <2>4 DEF CoreOK
<1>15. ASSUME NEW k \in Timers, Fire(k) \/ Reschedule(k) \/ ArmNext(k)
       PROVE  CoreOK'
  <2>1. PICK label \in {"serialising", "arming", "idle"} : stage' = [stage EXCEPT ![k] = label]
    BY <1>15 DEF Fire, Reschedule, ArmNext, Proceed
  <2>2. UNCHANGED <<up, memory, file, locals, coreRunning, crashes>>
    BY <1>15 DEF Fire, Reschedule, ArmNext, timerVars, bounds
  <2>3. timer' \in Timers \cup {NoTimer} /\ armed' \in SUBSET Timers
    BY <1>1, <1>15 DEF Fire, Reschedule, ArmNext, Arm, timerVars, CoreTypeOK
  <2>4. up
    <3>1. stage[k] # "idle" \/ k \in armed
      BY <1>15 DEF Fire, Reschedule, ArmNext
    <3> QED
      BY <1>1, <1>2, <3>1 DEF Handling
  <2>5. CoreTypeOK'
    BY <1>1, <1>2, <2>1, <2>2, <2>3 DEF CoreTypeOK, memory, locals
  <2>6. Handling'
    BY <1>1, <1>2, <2>1, <2>2, <2>4 DEF Handling, locals, CoreTypeOK
  <2> QED
    BY <2>5, <2>6 DEF CoreOK
<1>16. CASE Crash
  <2>1. EmptyDump \in Dump
    BY DEF EmptyDump, Dump
  <2>2. CoreTypeOK'
    BY <1>1, <1>16, <2>1 DEF Crash, CoreTypeOK, memory
  <2>3. Handling'
    BY <1>1, <1>16 DEF Crash, Handling
  <2> QED
    BY <2>2, <2>3 DEF CoreOK
<1>17. CASE Load
  <2>1. up' = TRUE /\ UNCHANGED <<file, stage, locals, timerVars, crashes>>
    BY <1>17 DEF Load, bounds
  <2>2. /\ devices' \in [ManagedDevices -> Objects \cup {NoObject}]
        /\ objectStatus' \in [Objects -> Statuses]
        /\ objectsMade' \in 0 .. MaxObjects
    BY <1>1, <1>17, LoadsFile
  <2>3. CoreTypeOK'
    BY <1>1, <2>1, <2>2 DEF CoreTypeOK, locals, timerVars
  <2>4. Handling'
    BY <1>1, <2>1 DEF Handling, locals
  <2> QED
    BY <2>3, <2>4 DEF CoreOK
<1>18. CASE UNCHANGED coreVars
  BY <1>1, <1>18 DEF CoreOK, CoreTypeOK, Handling, coreVars, memory, locals, timerVars, bounds
<1> QED
  BY <1>3, <1>4, <1>5, <1>7, <1>9, <1>10, <1>11, <1>12, <1>13, <1>14, <1>15, <1>16, <1>17, <1>18
     DEF CoreNext, EventStep

(* A step of one thread that does not begin or end a dump, writes no file and *)
(* leaves the memory alone keeps what is on its way, if the thread owes a     *)
(* dump after the step if it owed one before.                                 *)
LEMMA ThreadSteps ==
  ASSUME CoreOK, Alone, OnItsWay, NEW t \in Threads, NEW label,
         stage' = [stage EXCEPT ![t] = label],
         stage[t] \notin Dumping, label \notin Dumping,
         \A u \in Threads \ {t} : event'[u] = event[u],
         UNCHANGED <<dumped, mixed>>
  PROVE  /\ Dumper' = Dumper
         /\ Alone'
         /\ \A u \in Threads \ {t} : Owes(u)' <=> Owes(u)
         /\ UNCHANGED <<up, memory, file, crashes, unsaved>> /\ (Owes(t) => Owes(t)') => OnItsWay'
<1>1. \A u \in Threads : stage'[u] = IF u = t THEN label ELSE stage[u]
  BY DEF CoreOK, CoreTypeOK
<1>2. Dumper' = Dumper
  BY <1>1 DEF Dumper
<1>3. Alone'
  BY <1>1, <1>2 DEF Alone, Dumping
<1>4. \A u \in Threads \ {t} : Owes(u)' <=> Owes(u)
  BY <1>1 DEF Owes
<1>5. ASSUME UNCHANGED <<up, memory, file, crashes, unsaved>>, Owes(t) => Owes(t)'
      PROVE  OnItsWay'
  <2>1. ToDict' = ToDict
    BY <1>5 DEF ToDict, memory
  <2>2. Stored' <=> Stored
    BY <1>5, <2>1 DEF Stored
  <2>3. (\A u \in Threads : ~Owes(u)') => \A u \in Threads : ~Owes(u)
    BY <1>4, <1>5
  <2> QED
    BY <1>2, <1>5, <2>1, <2>2, <2>3 DEF OnItsWay
<1> QED
  BY <1>2, <1>3, <1>4, <1>5

(* At first there is nothing to dump, and the file has nothing. *)
LEMMA CoreInvInit ==
  CoreInit => CoreInv
<1> SUFFICES ASSUME CoreInit PROVE CoreInv
  OBVIOUS
<1>1. CoreOK
  BY CoreOKInit
<1>2. \A t \in Threads : stage[t] = "idle"
  BY DEF CoreInit
<1>3. Dumper = {}
  BY <1>2 DEF Dumper, Dumping
<1>4. ToDict = EmptyDump
  BY DEF CoreInit, ToDict, EmptyDump
<1>5. Alone /\ OnItsWay
  BY <1>2, <1>3, <1>4 DEF Alone, OnItsWay, Stored, CoreInit
<1> QED
  BY <1>1, <1>5 DEF CoreInv

(* One step for every action *)
LEMMA CoreInvStep ==
  CoreInv /\ [CoreNext]_coreVars => CoreInv'
<1> SUFFICES ASSUME CoreInv, [CoreNext]_coreVars PROVE CoreInv'
  OBVIOUS
<1>1. CoreOK /\ CoreTypeOK /\ Handling
  BY DEF CoreInv, CoreOK
<1>2. CoreOK'
  BY <1>1, CoreOKStep
<1>3. Publishers \subseteq Threads /\ Timers \subseteq Threads
  BY DEF Threads
<1>4. ~dumpsOverlapped => Alone /\ OnItsWay
  BY DEF CoreInv
<1>5. ASSUME NEW t \in Publishers, NEW d \in ManagedDevices, Register(t, d) \/ Deregister(t, d)
      PROVE  CoreInv'
  <2>1. PICK type \in Critical : event' = [event EXCEPT ![t] = [dev |-> d, type |-> type]]
    BY <1>5 DEF Register, Deregister, Publish, Critical
  <2>2. /\ stage[t] = "idle" /\ stage' = [stage EXCEPT ![t] = "looking"]
        /\ UNCHANGED <<dumped, mixed, dumpsOverlapped>>
    BY <1>5 DEF Register, Deregister, Called, Publish, Proceed, coreHistory
  <2>3. Owes(t)'
    BY <1>1, <1>3, <2>1, <2>2 DEF Owes, CoreTypeOK
  <2>4. \A u \in Threads \ {t} : event'[u] = event[u]
    BY <1>1, <2>1 DEF CoreTypeOK
  <2>5. ~dumpsOverlapped => Alone'
    BY <1>1, <1>3, <1>4, <2>2, <2>4, ThreadSteps DEF Dumping
  <2>6. OnItsWay'
    BY <1>3, <2>3 DEF OnItsWay
  <2> QED
    BY <1>2, <2>2, <2>5, <2>6 DEF CoreInv
<1>6. ASSUME NEW t \in Publishers, PublishEvent(t) \/ \E d \in ManagedDevices : SyncTest(t, d)
      PROVE  CoreInv'
  <2>1. PICK label \in {"looking", "syncing"} : stage' = [stage EXCEPT ![t] = label]
    BY <1>6 DEF SyncTest, PublishEvent, Publish, Proceed
  <2>2. /\ stage[t] = "idle"
        /\ UNCHANGED <<up, memory, file, crashes, unsaved, dumped, mixed, dumpsOverlapped>>
    BY <1>6 DEF SyncTest, PublishEvent, Called, coreHistory
  <2>3. \A u \in Threads \ {t} : event'[u] = event[u]
    BY <1>1, <1>6 DEF SyncTest, PublishEvent, Publish, CoreTypeOK
  <2>4. ~Owes(t)
    BY <2>2 DEF Owes
  <2>5. ~dumpsOverlapped => Alone' /\ OnItsWay'
    BY <1>1, <1>3, <1>4, <2>1, <2>2, <2>3, <2>4, ThreadSteps DEF Dumping
  <2> QED
    BY <1>2, <2>2, <2>5 DEF CoreInv
<1>7. ASSUME NEW t \in Publishers, SyncStore(t)
      PROVE  CoreInv'
  <2>1. /\ stage[t] = "syncing" /\ stage' = [stage EXCEPT ![t] = "idle"]
        /\ event' = [event EXCEPT ![t] = NoEvent] /\ unsaved'
        /\ UNCHANGED <<dumped, mixed, dumpsOverlapped>>
    BY <1>7 DEF SyncStore, Proceed
  <2>2. \A u \in Threads \ {t} : event'[u] = event[u]
    BY <1>1, <2>1 DEF CoreTypeOK
  <2>3. ~dumpsOverlapped => Alone'
    BY <1>1, <1>3, <1>4, <2>1, <2>2, ThreadSteps DEF Dumping
  <2>4. OnItsWay'
    BY <2>1 DEF OnItsWay
  <2> QED
    BY <1>2, <2>1, <2>3, <2>4 DEF CoreInv
<1>8. ASSUME NEW t \in Publishers, NEW d \in ManagedDevices, UpdateState(t, d)
      PROVE  CoreInv'
  <2>1. unsaved' /\ UNCHANGED <<stage, mixed, dumpsOverlapped>>
    BY <1>8 DEF UpdateState, locals
  <2>2. ~dumpsOverlapped => Alone'
    BY <1>4, <2>1 DEF Alone, Dumper
  <2>3. OnItsWay'
    BY <2>1 DEF OnItsWay
  <2> QED
    BY <1>2, <2>1, <2>2, <2>3 DEF CoreInv
<1>9. ASSUME NEW t \in Threads, LookUp(t)
      PROVE  CoreInv'
  <2>1. PICK label : label = IF devices[event[t].dev] = NoObject THEN AfterEvent(t) ELSE "writing"
    OBVIOUS
  <2>2. /\ stage[t] = "looking" /\ stage' = [stage EXCEPT ![t] = label]
        /\ UNCHANGED <<up, memory, file, event, dumped, mixed, crashes, unsaved, dumpsOverlapped>>
    BY <1>9, <2>1 DEF LookUp, Proceed, bounds, coreHistory
  <2>3. stage'[t] = label
    BY <1>1, <2>2 DEF CoreTypeOK
  <2>4. label \notin Dumping /\ (Owes(t) => Owes(t)')
    BY <2>1, <2>2, <2>3 DEF Owes, AfterEvent, Dumping
  <2>5. ~dumpsOverlapped => Alone' /\ OnItsWay'
    BY <1>1, <1>4, <2>2, <2>4, ThreadSteps DEF Dumping
  <2> QED
    BY <1>2, <2>2, <2>5 DEF CoreInv
<1>10. ASSUME NEW t \in Threads, WriteStatus(t)
       PROVE  CoreInv'
  <2>1. PICK label : label = AfterEvent(t)
    OBVIOUS
  <2>2. /\ stage[t] = "writing" /\ stage' = [stage EXCEPT ![t] = label]
        /\ unsaved' = (unsaved \/ event[t].type \notin Critical)
        /\ UNCHANGED <<event, dumped, mixed, dumpsOverlapped>>
    BY <1>10, <2>1 DEF WriteStatus, Proceed, locals
  <2>3. stage'[t] = label
    BY <1>1, <2>2 DEF CoreTypeOK
  <2>4. label \notin Dumping
    BY <2>1 DEF AfterEvent, Dumping
  <2>5. ~dumpsOverlapped => Alone'
    BY <1>1, <1>4, <2>2, <2>4, ThreadSteps DEF Dumping
  <2>6. OnItsWay'
    <3>1. CASE event[t].type \in Critical
      <4>1. Owes(t)'
        BY <2>1, <2>3, <3>1 DEF AfterEvent, Owes
      <4> QED
        BY <4>1 DEF OnItsWay
    <3>2. CASE event[t].type \notin Critical
      BY <2>2, <3>2 DEF OnItsWay
    <3> QED
      BY <3>1, <3>2
  <2> QED
    BY <1>2, <2>2, <2>5, <2>6 DEF CoreInv
<1>11. ASSUME NEW t \in Threads, Serialise(t)
       PROVE  CoreInv'
  <2>1. /\ stage' = [stage EXCEPT ![t] = "opening"] /\ dumped' = [dumped EXCEPT ![t] = ToDict]
        /\ dumpsOverlapped' = (dumpsOverlapped \/ \E u \in Threads \ {t} : stage[u] \in Dumping)
        /\ UNCHANGED memory
    BY <1>11 DEF Serialise, Proceed
  <2> SUFFICES ASSUME ~dumpsOverlapped' PROVE Alone' /\ OnItsWay'
    BY <1>2 DEF CoreInv
  <2>2. \A u \in Threads : stage'[u] = IF u = t THEN "opening" ELSE stage[u]
    BY <1>1, <2>1 DEF CoreTypeOK
  <2>3. \A u \in Threads \ {t} : stage[u] \notin Dumping
    BY <2>1
  <2>4. Dumper' = {t}
    BY <2>2, <2>3 DEF Dumper, Dumping
  <2>5. Alone'
    BY <2>2, <2>3, <2>4 DEF Alone, Dumping
  <2>6. dumped'[t] = ToDict /\ ToDict' = ToDict
    BY <1>1, <2>1 DEF ToDict, memory, CoreTypeOK
  <2>7. OnItsWay'
    BY <2>4, <2>6 DEF OnItsWay
  <2> QED
    BY <2>5, <2>7
<1>12. ASSUME NEW t \in Threads, OpenFile(t)
       PROVE  CoreInv'
  <2>1. /\ stage[t] = "opening" /\ stage' = [stage EXCEPT ![t] = "filling"] /\ mixed' = mixed \ {t}
        /\ UNCHANGED <<up, memory, event, dumped, unsaved, dumpsOverlapped>>
    BY <1>12 DEF OpenFile, Proceed, coreHistory
  <2> SUFFICES ASSUME ~dumpsOverlapped PROVE Alone' /\ OnItsWay'
    BY <1>2, <2>1 DEF CoreInv
  <2>2. \A u \in Threads : stage'[u] = IF u = t THEN "filling" ELSE stage[u]
    BY <1>1, <2>1 DEF CoreTypeOK
  <2>3. Dumper' = Dumper /\ t \in Dumper
    BY <2>1, <2>2 DEF Dumper, Dumping
  <2>4. Alone'
    BY <1>4, <2>1, <2>2, <2>3 DEF Alone
  <2>5. ToDict' = ToDict
    BY <2>1 DEF ToDict, memory
  <2>6. \A u \in Threads : Owes(u)' <=> Owes(u)
    BY <2>1, <2>2 DEF Owes
  <2>7. OnItsWay'
    BY <1>4, <2>1, <2>3, <2>5, <2>6 DEF OnItsWay
  <2> QED
    BY <2>4, <2>7
<1>13. ASSUME NEW t \in Threads, FillFile(t)
       PROVE  CoreInv'
  <2>1. PICK label : label = IF t \in Timers THEN "rescheduling" ELSE "idle"
    OBVIOUS
  <2>2. /\ stage[t] = "filling" /\ stage' = [stage EXCEPT ![t] = label]
        /\ event' = [event EXCEPT ![t] = NoEvent]
        /\ file' \in {dumped[t]} \cup (IF t \in mixed THEN {Torn} ELSE {})
        /\ UNCHANGED <<up, memory, dumped, unsaved, dumpsOverlapped>>
    BY <1>13, <2>1 DEF FillFile, Proceed, coreHistory
  <2> SUFFICES ASSUME ~dumpsOverlapped PROVE Alone' /\ OnItsWay'
    BY <1>2, <2>2 DEF CoreInv
  <2>3. /\ \A u \in Threads : stage'[u] = IF u = t THEN label ELSE stage[u]
        /\ \A u \in Threads : u # t => event'[u] = event[u]
    BY <1>1, <2>2 DEF CoreTypeOK
  <2>4. Dumper = {t} /\ t \notin mixed
    BY <1>4, <2>2 DEF Alone, Dumper, Dumping
  <2>5. Dumper' = {}
    BY <2>1, <2>3, <2>4 DEF Dumper, Dumping
  <2>6. Alone'
    BY <2>5 DEF Alone, Dumper, Dumping
  <2>7. ToDict' = ToDict /\ file' = dumped[t]
    BY <2>2, <2>4 DEF ToDict, memory
  <2>8. (\A u \in Threads : ~Owes(u)') => \A u \in Threads : ~Owes(u)
    BY <2>2, <2>3 DEF Owes
  <2>9. OnItsWay'
    BY <1>4, <2>2, <2>4, <2>5, <2>7, <2>8 DEF OnItsWay, Stored
  <2> QED
    BY <2>6, <2>9
<1>14. ASSUME UNCHANGED <<up, memory, file, stage, locals, crashes, coreHistory>>
       PROVE  CoreInv'
  <2>1. ToDict' = ToDict /\ Dumper' = Dumper
    BY <1>14 DEF ToDict, memory, Dumper
  <2>2. \A u \in Threads : Owes(u)' <=> Owes(u)
    BY <1>14 DEF Owes, locals
  <2>3. Alone' <=> Alone
    BY <1>14, <2>1 DEF Alone, locals
  <2>4. OnItsWay' <=> OnItsWay
    BY <1>14, <2>1, <2>2 DEF OnItsWay, Stored, locals, coreHistory
  <2> QED
    BY <1>2, <1>4, <1>14, <2>3, <2>4 DEF CoreInv, coreHistory
<1>15. CASE StartDumps \/ StopDumps \/ UNCHANGED coreVars
  BY <1>14, <1>15 DEF StartDumps, StopDumps, coreVars, bounds
<1>16. ASSUME NEW k \in Timers, Fire(k)
       PROVE  CoreInv'
  <2>1. stage' = [stage EXCEPT ![k] = "serialising"] /\ UNCHANGED <<mixed, dumpsOverlapped>>
    BY <1>16 DEF Fire, Proceed, locals, coreHistory
  <2>2. \A u \in Threads : stage'[u] = IF u = k THEN "serialising" ELSE stage[u]
    BY <1>1, <1>3, <2>1 DEF CoreTypeOK
  <2>3. Dumper' \subseteq Dumper
    BY <2>2 DEF Dumper, Dumping
  <2>4. ~dumpsOverlapped => Alone'
    BY <1>4, <2>1, <2>2, <2>3 DEF Alone
  <2>5. Owes(k)'
    BY <1>3, <2>2 DEF Owes
  <2>6. OnItsWay'
    BY <1>3, <2>5 DEF OnItsWay
  <2> QED
    BY <1>2, <2>1, <2>4, <2>6 DEF CoreInv
<1>17. ASSUME NEW k \in Timers, Reschedule(k) \/ ArmNext(k)
       PROVE  CoreInv'
  <2>1. PICK label \in {"arming", "idle"} : stage' = [stage EXCEPT ![k] = label]
    BY <1>17 DEF Reschedule, ArmNext, Proceed
  <2>2. /\ stage[k] \in {"rescheduling", "arming"}
        /\ UNCHANGED <<up, memory, file, crashes, event, dumped, mixed, unsaved, dumpsOverlapped>>
    BY <1>17 DEF Reschedule, ArmNext, locals, bounds, coreHistory
  <2>3. ~Owes(k)
    BY <2>2 DEF Owes
  <2>4. ~dumpsOverlapped => Alone' /\ OnItsWay'
    BY <1>1, <1>3, <1>4, <2>1, <2>2, <2>3, ThreadSteps DEF Dumping
  <2> QED
    BY <1>2, <2>2, <2>4 DEF CoreInv
<1>18. CASE Crash
  <2>1. ~up' /\ (\A t \in Threads : stage'[t] = "idle") /\ dumpsOverlapped' = dumpsOverlapped
    BY <1>18 DEF Crash, coreHistory
  <2>2. Alone' /\ OnItsWay'
    BY <2>1 DEF Alone, Dumper, Dumping, OnItsWay
  <2> QED
    BY <1>2, <2>2 DEF CoreInv
<1>19. CASE Load
  <2>1. ~up /\ UNCHANGED <<file, stage, mixed, crashes, dumpsOverlapped>>
    BY <1>19 DEF Load, locals, bounds
  <2>2. crashes > 0 /\ \A t \in Threads : stage'[t] = "idle"
    BY <1>1, <2>1 DEF Handling
  <2>3. Dumper' = {} /\ Alone'
    BY <2>2 DEF Alone, Dumper, Dumping
  <2>4. Stored'
    BY <1>1, <1>19, <2>1, <2>2, LoadsFile DEF Stored
  <2> QED
    BY <1>2, <2>3, <2>4 DEF CoreInv, OnItsWay
<1> QED
  BY <1>5, <1>6, <1>7, <1>8, <1>9, <1>10, <1>11, <1>12, <1>13, <1>15, <1>16, <1>17, <1>18, <1>19
     DEF CoreNext, EventStep

(* Types, for any devices, threads, timers and bounds *)
THEOREM CoreTypeCorrect == CoreSpec => []CoreTypeOK
<1>1. CoreOK => CoreTypeOK
  BY DEF CoreOK
<1> QED
  BY <1>1, CoreOKInit, CoreOKStep, PTL DEF CoreSpec

(* process_event dumps after a critical event (ControllerCore._dump): as long *)
(* as dumps do not overlap, a quiet controller has its state in the file,     *)
(* whatever was published, and across restarts, unless a crash hit the dump.  *)
THEOREM StateDumped == CoreSpec => []DumpedWhenAlone
<1>1. CoreInv => DumpedWhenAlone
  <2> SUFFICES ASSUME CoreInv, Quiet, ~dumpsOverlapped, ~unsaved
               PROVE  Stored
    BY DEF DumpedWhenAlone, Stored
  <2>1. up /\ \A t \in Threads : stage[t] = "idle"
    BY DEF Quiet
  <2>2. Dumper = {} /\ \A t \in Threads : ~Owes(t)
    BY <2>1 DEF Dumper, Dumping, Owes
  <2> QED
    BY <2>1, <2>2 DEF CoreInv, OnItsWay
<1> QED
  BY <1>1, CoreInvInit, CoreInvStep, PTL DEF CoreSpec

-----------------------------------------------------------------------------
(***************************************************************************)
(* Listeners: the threads and sockets of each source.                      *)
(***************************************************************************)
ThreadState ==
  [at : {"none", "checking", "reading", "handling", "ended"},
   sock : {NoNumber} \cup Incarnations]

(* The thread a listener refers to, or the one a stop() under way waits for;  *)
(* any other that lives was given up by a stop().                             *)
Current(l) == IF gui.at = "joining" /\ gui.source = l THEN gui.thread ELSE owner[l]
Abandoned(l) == Live(l) \ {Current(l)}

(* Where the GUI thread is says what it has let go. *)
GuiPlaced ==
  /\ gui.at # "idle" => gui.source \in Listener
  /\ gui.at = "idle" => gui = GuiIdle
  /\ gui.at = "joining" => owner[gui.source] = NoNumber /\ open[gui.source] = {}

NotBegun == \A l \in Listener, n \in Incarnations : n > begun[l] => thread[l][n].at = "none"

AbandonedCounted == \A l \in Listener : Cardinality(Abandoned(l)) <= left[l]

OneSocket == \A l \in Listener : open[l] \subseteq {sock[l]}

QuietEmpty == \A l \in quiet : Live(l) = {} /\ open[l] = {}

ListenersInv ==
  ListenersTypeOK /\ GuiPlaced /\ NotBegun /\ AbandonedCounted /\ OneSocket /\ QuietEmpty

(* Threads are finitely many. *)
LEMMA LiveFinite ==
  ASSUME NEW l
  PROVE  /\ Live(l) \subseteq Incarnations
         /\ \A S \in SUBSET Live(l) : IsFiniteSet(S) /\ Cardinality(S) \in Nat
<1>1. Live(l) \subseteq Incarnations
  BY DEF Live
<1>2. IsFiniteSet(Incarnations)
  <2>1. 1 \in Int /\ MaxThreads \in Int
    BY ListenersAssumption
  <2>2. IsFiniteSet(1 .. MaxThreads)
    BY <2>1, FS_Interval
  <2> QED
    BY <2>2 DEF Incarnations
<1> QED
  BY <1>1, <1>2, FS_Subset, FS_CardinalityType

(* Nothing is started at first. *)
LEMMA ListenersInvInit ==
  ListenersInit => ListenersInv
<1> SUFFICES ASSUME ListenersInit PROVE ListenersInv
  OBVIOUS
<1>1. \A l \in Listener, n \in Incarnations : thread[l][n] = [at |-> "none", sock |-> NoNumber]
  BY DEF ListenersInit, Asleep
<1>2. \A l \in Listener : Live(l) = {}
  BY <1>1 DEF Live
<1>3. MaxThreads \in Nat
  BY ListenersAssumption
<1>4. thread \in [Listener -> [Incarnations -> ThreadState]]
  BY DEF ListenersInit, Asleep, ThreadState
<1>5. /\ gui \in [at : {"idle", "closing", "joining"}, source : Listener \cup {"none"},
                  thread : {NoNumber} \cup Incarnations]
      /\ gui.at = "idle" /\ gui = GuiIdle
  BY DEF ListenersInit, GuiIdle
<1>6. ListenersTypeOK
  <2>1. 0 \in 0 .. MaxThreads /\ 0 \in Nat
    BY <1>3
  <2>2. begun \in [Listener -> 0 .. MaxThreads] /\ left \in [Listener -> Nat]
    BY <2>1 DEF ListenersInit
  <2>3. /\ sock \in [Listener -> {NoNumber} \cup Incarnations]
        /\ owner \in [Listener -> {NoNumber} \cup Incarnations]
        /\ open \in [Listener -> SUBSET Incarnations] /\ halt \in [Listener -> BOOLEAN]
    BY DEF ListenersInit
  <2>4. started \subseteq Listener /\ quiet \subseteq Listener /\ closing \in BOOLEAN
    BY DEF ListenersInit
  <2> QED
    BY <1>4, <1>5, <2>2, <2>3, <2>4 DEF ListenersTypeOK, ThreadState
<1>7. GuiPlaced
  BY <1>5 DEF GuiPlaced
<1>8. NotBegun
  BY <1>1 DEF NotBegun
<1>9. AbandonedCounted
  <2>1. \A l \in Listener : Abandoned(l) = {} /\ left[l] = 0
    BY <1>2 DEF Abandoned, ListenersInit
  <2> QED
    BY <2>1, FS_EmptySet DEF AbandonedCounted
<1>10. OneSocket /\ QuietEmpty
  BY DEF ListenersInit, OneSocket, QuietEmpty
<1> QED
  BY <1>6, <1>7, <1>8, <1>9, <1>10 DEF ListenersInv

(* A thread moves, and no other. *)
LEMMA ListenerThreadMoves ==
  ASSUME thread \in [Listener -> [Incarnations -> ThreadState]],
         NEW l \in Listener, NEW n \in Incarnations, NEW r \in ThreadState,
         thread' = [thread EXCEPT ![l] = [thread[l] EXCEPT ![n] = r]]
  PROVE  /\ thread' \in [Listener -> [Incarnations -> ThreadState]]
         /\ \A m \in Listener : m # l => thread'[m] = thread[m]
         /\ \A k \in Incarnations : thread'[l][k] = IF k = n THEN r ELSE thread[l][k]
OBVIOUS

(* A thread that stops living or goes on living adds none to the living, and  *)
(* all else is as it was.                                                     *)
LEMMA LoopKeeps ==
  ASSUME ListenersInv, NEW l \in Listener, NEW n \in Incarnations, NEW r \in ThreadState,
         thread[l][n].at # "none", thread[l][n].at # "ended" \/ r.at = "ended",
         thread' = [thread EXCEPT ![l] = [thread[l] EXCEPT ![n] = r]],
         UNCHANGED <<sock, open, owner, halt, begun, started, gui, closing, left, quiet>>
  PROVE  ListenersInv'
<1>1. ListenersTypeOK /\ GuiPlaced /\ NotBegun /\ AbandonedCounted /\ OneSocket /\ QuietEmpty
  BY DEF ListenersInv
<1>2. thread \in [Listener -> [Incarnations -> ThreadState]]
  BY <1>1 DEF ListenersTypeOK, ThreadState
<1>3. /\ thread' \in [Listener -> [Incarnations -> ThreadState]]
      /\ \A m \in Listener : m # l => thread'[m] = thread[m]
      /\ \A k \in Incarnations : thread'[l][k] = IF k = n THEN r ELSE thread[l][k]
  BY <1>2, ListenerThreadMoves
<1>4. \A m \in Listener : Live(m)' \subseteq Live(m)
  BY <1>3 DEF Live
<1>5. ListenersTypeOK'
  BY <1>1, <1>3 DEF ListenersTypeOK, ThreadState
<1>6. GuiPlaced' /\ OneSocket'
  BY <1>1 DEF GuiPlaced, OneSocket
<1>7. NotBegun'
  BY <1>1, <1>3 DEF NotBegun
<1>8. QuietEmpty'
  <2>1. quiet \subseteq Listener
    BY <1>1 DEF ListenersTypeOK
  <2> QED
    BY <1>1, <1>4, <2>1 DEF QuietEmpty
<1>9. ASSUME NEW m \in Listener
      PROVE  Cardinality(Abandoned(m))' <= left'[m]
  <2>1. Abandoned(m)' \subseteq Abandoned(m)
    BY <1>4 DEF Abandoned, Current
  <2>2. IsFiniteSet(Abandoned(m)) /\ Cardinality(Abandoned(m)) \in Nat
    BY LiveFinite DEF Abandoned
  <2>3. /\ Cardinality(Abandoned(m)') <= Cardinality(Abandoned(m))
        /\ Cardinality(Abandoned(m)') \in Nat
    BY <2>1, <2>2, FS_Subset, FS_CardinalityType
  <2>4. Cardinality(Abandoned(m)) <= left[m] /\ left[m] \in Nat
    BY <1>1 DEF AbandonedCounted, ListenersTypeOK
  <2> QED
    BY <2>2, <2>3, <2>4
<1> QED
  BY <1>5, <1>6, <1>7, <1>8, <1>9 DEF ListenersInv, AbandonedCounted

(* A start makes a thread and a socket for a listener that refers to no       *)
(* living thread.                                                             *)
LEMMA StartKeeps ==
  ASSUME ListenersInv, NEW l \in Listener, StartListener(l)
  PROVE  ListenersInv'
<1>1. ListenersTypeOK /\ GuiPlaced /\ NotBegun /\ AbandonedCounted /\ OneSocket /\ QuietEmpty
  BY DEF ListenersInv
<1>2. PICK n : n = begun[l] + 1
  OBVIOUS
<1>3. /\ gui = GuiIdle /\ ~IsRunning(l)
      /\ begun' = [begun EXCEPT ![l] = n]
      /\ open' = [open EXCEPT ![l] = (@ \ {sock[l]}) \cup {n}]
      /\ sock' = [sock EXCEPT ![l] = n]
      /\ halt' = [halt EXCEPT ![l] = FALSE]
      /\ owner' = [owner EXCEPT ![l] = n]
      /\ started' = started \cup {l}
      /\ quiet' = quiet \ {l}
      /\ UNCHANGED <<gui, closing, left>>
  BY <1>2 DEF StartListener, MayStart
<1>4. begun[l] \in 0 .. MaxThreads /\ begun[l] < MaxThreads /\ MaxThreads \in Nat
  BY <1>1, ListenersAssumption DEF StartListener, MayStart, ListenersTypeOK
<1>5. n \in Incarnations /\ n \in 0 .. MaxThreads /\ n > begun[l]
  BY <1>2, <1>4 DEF Incarnations
<1>6. thread \in [Listener -> [Incarnations -> ThreadState]]
  BY <1>1 DEF ListenersTypeOK, ThreadState
<1>7. PICK r : r = [thread[l][n] EXCEPT !.at = "checking"]
  OBVIOUS
<1>8. r \in ThreadState /\ r.at = "checking"
  <2>1. thread[l][n] \in ThreadState
    BY <1>5, <1>6
  <2> QED
    BY <1>7, <2>1 DEF ThreadState
<1>9. thread' = [thread EXCEPT ![l] = [thread[l] EXCEPT ![n] = r]]
  BY <1>2, <1>7 DEF StartListener
<1>10. /\ thread' \in [Listener -> [Incarnations -> ThreadState]]
       /\ \A m \in Listener : m # l => thread'[m] = thread[m]
       /\ \A k \in Incarnations : thread'[l][k] = IF k = n THEN r ELSE thread[l][k]
  BY <1>5, <1>6, <1>8, <1>9, ListenerThreadMoves
<1>11. gui.at = "idle"
  BY <1>3 DEF GuiIdle
<1>12. ListenersTypeOK'
  <2>1. sock' \in [Listener -> {NoNumber} \cup Incarnations] /\ owner' \in [Listener -> {NoNumber} \cup Incarnations]
    BY <1>1, <1>3, <1>5 DEF ListenersTypeOK
  <2>2. open' \in [Listener -> SUBSET Incarnations]
    BY <1>1, <1>3, <1>5 DEF ListenersTypeOK
  <2>3. halt' \in [Listener -> BOOLEAN] /\ begun' \in [Listener -> 0 .. MaxThreads]
    BY <1>1, <1>3, <1>5 DEF ListenersTypeOK
  <2>4. started' \subseteq Listener /\ quiet' \subseteq Listener
    BY <1>1, <1>3 DEF ListenersTypeOK
  <2> QED
    BY <1>1, <1>3, <1>10, <2>1, <2>2, <2>3, <2>4 DEF ListenersTypeOK, ThreadState
<1>13. GuiPlaced'
  BY <1>3, <1>11 DEF GuiPlaced
<1>14. \A m \in Listener : m # l => begun'[m] = begun[m] /\ open'[m] = open[m] /\ sock'[m] = sock[m]
                                    /\ owner'[m] = owner[m]
  BY <1>1, <1>3 DEF ListenersTypeOK
<1>15. begun'[l] = n /\ open'[l] = (open[l] \ {sock[l]}) \cup {n} /\ sock'[l] = n /\ owner'[l] = n
  BY <1>1, <1>3 DEF ListenersTypeOK
<1>16. NotBegun'
  <2> SUFFICES ASSUME NEW m \in Listener, NEW k \in Incarnations, k > begun'[m]
               PROVE  thread'[m][k].at = "none"
    BY DEF NotBegun
  <2>1. CASE m = l
    <3>1. k # n /\ k > begun[l]
      BY <1>2, <1>4, <1>15, <2>1 DEF Incarnations
    <3> QED
      BY <1>1, <1>10, <2>1, <3>1 DEF NotBegun
  <2>2. CASE m # l
    BY <1>1, <1>10, <1>14, <2>2 DEF NotBegun
  <2> QED
    BY <2>1, <2>2
<1>17. OneSocket'
  BY <1>1, <1>14, <1>15 DEF OneSocket
<1>18. /\ \A m \in Listener : m # l => Live(m)' = Live(m)
       /\ Live(l)' = Live(l) \cup {n}
  BY <1>5, <1>8, <1>10 DEF Live
<1>19. QuietEmpty'
  <2>1. quiet \subseteq Listener
    BY <1>1 DEF ListenersTypeOK
  <2> QED
    BY <1>1, <1>3, <1>14, <1>18, <2>1 DEF QuietEmpty
<1>20. ASSUME NEW m \in Listener
       PROVE  Abandoned(m)' = Abandoned(m)
  <2>1. Current(m) = owner[m] /\ Current(m)' = owner'[m]
    BY <1>3, <1>11 DEF Current
  <2>2. CASE m = l
    <3>1. n \notin Live(l) /\ owner[l] \notin Live(l)
      BY <1>1, <1>3, <1>5 DEF NotBegun, Live, IsRunning
    <3> QED
      BY <1>15, <1>18, <2>1, <2>2, <3>1 DEF Abandoned
  <2>3. CASE m # l
    BY <1>14, <1>18, <2>1, <2>3 DEF Abandoned
  <2> QED
    BY <2>2, <2>3
<1>21. AbandonedCounted'
  BY <1>1, <1>3, <1>20 DEF AbandonedCounted
<1> QED
  BY <1>12, <1>13, <1>16, <1>17, <1>19, <1>21 DEF ListenersInv

(* stop() closes the socket and lets go of the thread it will wait for. *)
LEMMA StopClosesKeeps ==
  ASSUME ListenersInv, StopCloses
  PROVE  ListenersInv'
<1>1. ListenersTypeOK /\ GuiPlaced /\ NotBegun /\ AbandonedCounted /\ OneSocket /\ QuietEmpty
  BY DEF ListenersInv
<1>2. PICK l \in Listener : l = gui.source /\ gui.at = "closing"
  BY <1>1 DEF StopCloses, GuiPlaced
<1>3. /\ open' = [open EXCEPT ![l] = @ \ {sock[l]}]
      /\ sock' = [sock EXCEPT ![l] = NoNumber]
      /\ owner' = [owner EXCEPT ![l] = NoNumber]
      /\ gui' = [at |-> "joining", source |-> l, thread |-> owner[l]]
      /\ UNCHANGED <<halt, begun, started, thread, closing, left, quiet>>
  BY <1>2 DEF StopCloses
<1>4. owner[l] \in {NoNumber} \cup Incarnations
  BY <1>1 DEF ListenersTypeOK
<1>5. /\ gui' \in [at : {"idle", "closing", "joining"}, source : Listener \cup {"none"},
                   thread : {NoNumber} \cup Incarnations]
      /\ gui'.at = "joining" /\ gui'.source = l /\ gui'.thread = owner[l]
  BY <1>3, <1>4
<1>6. ListenersTypeOK'
  BY <1>1, <1>3, <1>5 DEF ListenersTypeOK
<1>7. /\ \A m \in Listener : m # l => open'[m] = open[m] /\ sock'[m] = sock[m] /\ owner'[m] = owner[m]
      /\ open'[l] = open[l] \ {sock[l]} /\ sock'[l] = NoNumber /\ owner'[l] = NoNumber
  BY <1>1, <1>3 DEF ListenersTypeOK
<1>8. open'[l] = {}
  BY <1>1, <1>7 DEF OneSocket
<1>9. GuiPlaced'
  BY <1>5, <1>7, <1>8 DEF GuiPlaced
<1>10. NotBegun'
  BY <1>1, <1>3 DEF NotBegun
<1>11. OneSocket'
  BY <1>1, <1>7, <1>8 DEF OneSocket
<1>12. \A m \in Listener : Live(m)' = Live(m)
  BY <1>3 DEF Live
<1>13. QuietEmpty'
  <2>1. quiet \subseteq Listener
    BY <1>1 DEF ListenersTypeOK
  <2> QED
    BY <1>1, <1>3, <1>7, <1>8, <1>12, <2>1 DEF QuietEmpty
<1>14. \A m \in Listener : Current(m)' = Current(m)
  BY <1>2, <1>5, <1>7 DEF Current
<1>15. AbandonedCounted'
  BY <1>1, <1>3, <1>12, <1>14 DEF AbandonedCounted, Abandoned
<1> QED
  BY <1>6, <1>9, <1>10, <1>11, <1>13, <1>15 DEF ListenersInv

(* A join ends when its thread has, and otherwise counts one more thread as   *)
(* given up.                                                                  *)
LEMMA JoinKeeps ==
  ASSUME ListenersInv, JoinEnds \/ JoinTimesOut
  PROVE  ListenersInv'
<1>1. ListenersTypeOK /\ GuiPlaced /\ NotBegun /\ AbandonedCounted /\ OneSocket /\ QuietEmpty
  BY DEF ListenersInv
<1>2. PICK l \in Listener : l = gui.source /\ gui.at = "joining"
  BY <1>1 DEF JoinEnds, JoinTimesOut, GuiPlaced
<1>3. /\ gui' = GuiIdle
      /\ started' \in {started, started \ {l}}
      /\ UNCHANGED <<sock, open, owner, halt, begun, thread, closing>>
  BY <1>2 DEF JoinEnds, JoinTimesOut
<1>4. /\ gui' \in [at : {"idle", "closing", "joining"}, source : Listener \cup {"none"},
                   thread : {NoNumber} \cup Incarnations]
      /\ gui'.at = "idle"
  BY <1>3 DEF GuiIdle
<1>5. owner[l] = NoNumber /\ open[l] = {}
  BY <1>1, <1>2 DEF GuiPlaced
<1>6. GuiPlaced'
  BY <1>3, <1>4 DEF GuiPlaced
<1>7. NotBegun' /\ OneSocket'
  BY <1>1, <1>3 DEF NotBegun, OneSocket
<1>8. \A m \in Listener : Live(m)' = Live(m)
  BY <1>3 DEF Live
<1>9. \A m \in Listener : Current(m)' = owner[m]
  BY <1>3, <1>4 DEF Current
<1>10. \A m \in Listener : m # l => Abandoned(m)' = Abandoned(m)
  BY <1>2, <1>8, <1>9 DEF Abandoned, Current
<1>11. Abandoned(l) = Live(l) \ {gui.thread}
  BY <1>2 DEF Abandoned, Current
<1>12. Abandoned(l)' = Live(l)
  <2>1. NoNumber \notin Live(l)
    BY DEF Live, Incarnations, NoNumber
  <2> QED
    BY <1>5, <1>8, <1>9, <2>1 DEF Abandoned
<1>13. left[l] \in Nat /\ left \in [Listener -> Nat] /\ started \subseteq Listener /\ quiet \subseteq Listener
  BY <1>1 DEF ListenersTypeOK
<1>14. CASE JoinEnds
  <2>1. /\ gui.thread \notin Live(l) /\ left' = left
        /\ quiet' = IF Live(l) = {} \/ left[l] = 0 THEN quiet \cup {l} ELSE quiet
    BY <1>2, <1>14 DEF JoinEnds
  <2>2. ListenersTypeOK'
    BY <1>1, <1>3, <1>4, <1>13, <2>1 DEF ListenersTypeOK
  <2>3. \A m \in Listener : Abandoned(m)' = Abandoned(m)
    BY <1>10, <1>11, <1>12, <2>1
  <2>4. AbandonedCounted'
    BY <1>1, <2>1, <2>3 DEF AbandonedCounted
  <2>5. left[l] = 0 => Live(l) = {}
    <3>1. Cardinality(Live(l)) <= left[l]
      BY <1>1, <1>11, <2>1 DEF AbandonedCounted
    <3>2. IsFiniteSet(Live(l)) /\ Cardinality(Live(l)) \in Nat
      BY LiveFinite
    <3>3. left[l] = 0 => Cardinality(Live(l)) = 0
      BY <3>1, <3>2
    <3> QED
      BY <3>2, <3>3, FS_EmptySet
  <2>6. QuietEmpty'
    BY <1>1, <1>3, <1>5, <1>8, <1>13, <2>1, <2>5 DEF QuietEmpty
  <2> QED
    BY <1>6, <1>7, <2>2, <2>4, <2>6 DEF ListenersInv
<1>15. CASE JoinTimesOut
  <2>1. left' = [left EXCEPT ![l] = @ + 1] /\ quiet' = quiet
    BY <1>2, <1>15 DEF JoinTimesOut
  <2>2. left' \in [Listener -> Nat] /\ left'[l] = left[l] + 1 /\ \A m \in Listener : m # l => left'[m] = left[m]
    BY <1>13, <2>1
  <2>3. ListenersTypeOK'
    BY <1>1, <1>3, <1>4, <1>13, <2>1, <2>2 DEF ListenersTypeOK
  <2>4. Cardinality(Live(l)) <= left[l] + 1
    <3>1. IsFiniteSet(Abandoned(l)) /\ Cardinality(Abandoned(l)) \in Nat
      BY <1>11, LiveFinite
    <3>2. IsFiniteSet(Live(l)) /\ Cardinality(Live(l)) \in Nat
      BY LiveFinite
    <3>3. Cardinality(Live(l)) <= Cardinality(Abandoned(l)) + 1
      BY <1>11, <3>1, <3>2, FS_RemoveElement
    <3> QED
      BY <1>1, <1>13, <3>1, <3>2, <3>3 DEF AbandonedCounted
  <2>5. AbandonedCounted'
    BY <1>1, <1>10, <1>12, <2>2, <2>4 DEF AbandonedCounted
  <2>6. QuietEmpty'
    BY <1>1, <1>3, <1>8, <1>13, <2>1 DEF QuietEmpty
  <2> QED
    BY <1>6, <1>7, <2>3, <2>5, <2>6 DEF ListenersInv
<1> QED
  BY <1>14, <1>15

(* One step for every action *)
LEMMA ListenersInvStep ==
  ListenersInv /\ [ListenersNext]_listenerVars => ListenersInv'
<1> SUFFICES ASSUME ListenersInv, [ListenersNext]_listenerVars PROVE ListenersInv'
  OBVIOUS
<1>1. ListenersTypeOK /\ GuiPlaced /\ NotBegun /\ AbandonedCounted /\ OneSocket /\ QuietEmpty
  BY DEF ListenersInv
<1>2. thread \in [Listener -> [Incarnations -> ThreadState]] /\ MaxThreads \in Nat
  BY <1>1, ListenersAssumption DEF ListenersTypeOK, ThreadState
<1>3. ASSUME NEW l \in Listener, BindFails(l)
      PROVE  ListenersInv'
  <2>1. /\ begun[l] < MaxThreads /\ begun' = [begun EXCEPT ![l] = @ + 1]
        /\ UNCHANGED <<sock, open, owner, halt, started, thread, gui, closing, left, quiet>>
    BY <1>3 DEF BindFails, MayStart
  <2>2. /\ begun' \in [Listener -> 0 .. MaxThreads]
        /\ \A m \in Listener : begun[m] \in Nat /\ begun'[m] \in Nat /\ begun[m] <= begun'[m]
    BY <1>1, <1>2, <2>1 DEF ListenersTypeOK
  <2>3. ListenersTypeOK'
    BY <1>1, <2>1, <2>2 DEF ListenersTypeOK
  <2>4. NotBegun'
    BY <1>1, <2>1, <2>2 DEF NotBegun, Incarnations
  <2>5. AbandonedCounted'
    BY <1>1, <2>1 DEF AbandonedCounted, Abandoned, Live, Current
  <2>6. GuiPlaced' /\ OneSocket' /\ QuietEmpty'
    BY <1>1, <2>1 DEF GuiPlaced, OneSocket, QuietEmpty, Live
  <2> QED
    BY <2>3, <2>4, <2>5, <2>6 DEF ListenersInv
<1>4. ASSUME NEW l \in Listener, StartListener(l)
      PROVE  ListenersInv'
  BY <1>4, StartKeeps
<1>5. CASE Close
  <2>1. /\ closing' = TRUE
        /\ UNCHANGED <<sock, open, owner, halt, begun, started, thread, gui, left, quiet>>
    BY <1>5 DEF Close
  <2>2. ListenersTypeOK'
    BY <1>1, <2>1 DEF ListenersTypeOK
  <2>3. AbandonedCounted' /\ NotBegun'
    BY <1>1, <2>1 DEF AbandonedCounted, Abandoned, Live, Current, NotBegun
  <2>4. GuiPlaced' /\ OneSocket' /\ QuietEmpty'
    BY <1>1, <2>1 DEF GuiPlaced, OneSocket, QuietEmpty, Live
  <2> QED
    BY <2>2, <2>3, <2>4 DEF ListenersInv
<1>6. ASSUME NEW l \in Listener, StopSignals(l)
      PROVE  ListenersInv'
  <2>1. /\ gui = GuiIdle /\ halt' = [halt EXCEPT ![l] = TRUE]
        /\ gui' = [at |-> "closing", source |-> l, thread |-> NoNumber]
        /\ UNCHANGED <<sock, open, owner, begun, started, thread, closing, left, quiet>>
    BY <1>6 DEF StopSignals
  <2>2. /\ gui' \in [at : {"idle", "closing", "joining"}, source : Listener \cup {"none"},
                     thread : {NoNumber} \cup Incarnations]
        /\ gui'.at = "closing" /\ gui'.source = l /\ gui.at = "idle"
    BY <2>1 DEF GuiIdle
  <2>3. ListenersTypeOK'
    BY <1>1, <2>1, <2>2 DEF ListenersTypeOK
  <2>4. AbandonedCounted' /\ NotBegun'
    BY <1>1, <2>1, <2>2 DEF AbandonedCounted, Abandoned, Live, Current, NotBegun
  <2>5. GuiPlaced' /\ OneSocket' /\ QuietEmpty'
    BY <1>1, <2>1, <2>2 DEF GuiPlaced, OneSocket, QuietEmpty, Live
  <2> QED
    BY <2>3, <2>4, <2>5 DEF ListenersInv
<1>7. CASE StopCloses
  BY <1>7, StopClosesKeeps
<1>8. CASE JoinEnds \/ JoinTimesOut
  BY <1>8, JoinKeeps
<1>9. ASSUME NEW l \in Listener, NEW n \in Incarnations, Loop(l, n)
      PROVE  ListenersInv'
  <2>1. UNCHANGED <<sock, open, owner, halt, begun, started, gui, closing, left, quiet>>
    BY <1>9 DEF Loop, Wait, Handle, Check, ReceiveTimesOut, ReceiveFails, Receive
  <2>2. thread[l][n].at \in {"checking", "reading", "handling"}
    BY <1>9 DEF Loop, Wait, Handle, Check, ReceiveTimesOut, ReceiveFails, Receive
  <2>3. PICK r \in ThreadState : thread' = [thread EXCEPT ![l] = [thread[l] EXCEPT ![n] = r]]
    <3>1. thread[l][n] \in ThreadState /\ sock[l] \in {NoNumber} \cup Incarnations
      BY <1>1, <1>2 DEF ListenersTypeOK
    <3>2. Asleep = [at |-> "none", sock |-> NoNumber]
      BY DEF Asleep
    <3>3. ASSUME Check(l, n)
          PROVE  \E r \in ThreadState : thread' = [thread EXCEPT ![l] = [thread[l] EXCEPT ![n] = r]]
      <4>1. PICK r : r = IF halt[l] \/ sock[l] = NoNumber THEN [Asleep EXCEPT !.at = "ended"]
                         ELSE [thread[l][n] EXCEPT !.at = "reading", !.sock = sock[l]]
        OBVIOUS
      <4>2. r \in ThreadState
        <5>1. [Asleep EXCEPT !.at = "ended"] \in ThreadState
          BY <3>2 DEF ThreadState
        <5>2. [thread[l][n] EXCEPT !.at = "reading", !.sock = sock[l]] \in ThreadState
          BY <3>1 DEF ThreadState
        <5> QED
          BY <4>1, <5>1, <5>2
      <4>3. thread' = [thread EXCEPT ![l] = [thread[l] EXCEPT ![n] = r]]
        BY <1>2, <3>3, <4>1 DEF Check
      <4> QED
        BY <4>2, <4>3
    <3>4. [Asleep EXCEPT !.at = "checking"] \in ThreadState /\ [Asleep EXCEPT !.at = "ended"] \in ThreadState
      BY <3>2 DEF ThreadState
    <3>5. [at |-> "handling", sock |-> NoNumber] \in ThreadState
      BY DEF ThreadState
    <3>6. CASE ReceiveTimesOut(l, n) \/ Handle(l, n)
      <4>1. thread' = [thread EXCEPT ![l][n] = [Asleep EXCEPT !.at = "checking"]]
        BY <3>6 DEF ReceiveTimesOut, Handle
      <4> QED
        BY <3>4, <4>1
    <3>7. CASE ReceiveFails(l, n)
      <4>1. thread' = [thread EXCEPT ![l][n] = [Asleep EXCEPT !.at = "ended"]]
        BY <3>7 DEF ReceiveFails
      <4> QED
        BY <3>4, <4>1
    <3>8. CASE Receive(l, n)
      <4>1. thread' = [thread EXCEPT ![l][n] = [at |-> "handling", sock |-> NoNumber]]
        BY <3>8 DEF Receive
      <4> QED
        BY <3>5, <4>1
    <3> QED
      BY <1>9, <3>3, <3>6, <3>7, <3>8 DEF Loop, Wait
  <2> QED
    BY <2>1, <2>2, <2>3, LoopKeeps
<1>10. CASE UNCHANGED listenerVars
  <2>1. UNCHANGED <<sock, open, owner, halt, begun, started, thread, gui, closing, left, quiet>>
    BY <1>10 DEF listenerVars
  <2>2. ListenersTypeOK'
    BY <1>1, <2>1 DEF ListenersTypeOK
  <2>3. AbandonedCounted' /\ NotBegun'
    BY <1>1, <2>1 DEF AbandonedCounted, Abandoned, Live, Current, NotBegun
  <2>4. GuiPlaced' /\ OneSocket' /\ QuietEmpty'
    BY <1>1, <2>1 DEF GuiPlaced, OneSocket, QuietEmpty, Live
  <2> QED
    BY <2>2, <2>3, <2>4 DEF ListenersInv
<1> QED
  BY <1>3, <1>4, <1>5, <1>6, <1>7, <1>8, <1>9, <1>10 DEF ListenersNext, StopAny

(* For any sources, datagrams and number of starts: a listener has at most    *)
(* one thread more than its stop() gave up on, refers to its only one if none *)
(* was given up, has no socket but its own, and nothing lives after a stop()  *)
(* that saw its thread end.                                                   *)
THEOREM OneReaderAlways == ListenersSpec => []OneReader
<1>1. ListenersInv => OneReader
  <2> SUFFICES ASSUME ListenersInv, NEW l \in Listener
               PROVE  /\ Cardinality(Live(l)) <= left[l] + 1
                      /\ left[l] = 0 =>
                           \A n \in Live(l) : n = owner[l] \/ gui = [at |-> "joining", source |-> l, thread |-> n]
                      /\ open[l] \subseteq {sock[l]}
                      /\ l \in quiet => Live(l) = {} /\ open[l] = {}
    BY DEF OneReader
  <2>1. ListenersTypeOK /\ AbandonedCounted /\ OneSocket /\ QuietEmpty
    BY DEF ListenersInv
  <2>2. IsFiniteSet(Live(l)) /\ Cardinality(Live(l)) \in Nat /\ IsFiniteSet(Abandoned(l))
        /\ Cardinality(Abandoned(l)) \in Nat /\ left[l] \in Nat /\ Cardinality(Abandoned(l)) <= left[l]
    BY <2>1, LiveFinite DEF Abandoned, ListenersTypeOK, AbandonedCounted
  <2>3. Cardinality(Live(l)) <= Cardinality(Abandoned(l)) + 1
    BY <2>2, FS_RemoveElement DEF Abandoned
  <2>4. left[l] = 0 => Abandoned(l) = {}
    <3>1. left[l] = 0 => Cardinality(Abandoned(l)) = 0
      BY <2>2
    <3> QED
      BY <2>2, <3>1, FS_EmptySet
  <2>5. ASSUME left[l] = 0, NEW n \in Live(l)
        PROVE  n = owner[l] \/ gui = [at |-> "joining", source |-> l, thread |-> n]
    <3>1. n = Current(l)
      BY <2>4, <2>5 DEF Abandoned
    <3>2. gui = [at |-> gui.at, source |-> gui.source, thread |-> gui.thread]
      BY <2>1 DEF ListenersTypeOK
    <3> QED
      BY <3>1, <3>2 DEF Current
  <2> QED
    BY <2>1, <2>2, <2>3, <2>5 DEF OneSocket, QuietEmpty
<1> QED
  BY <1>1, ListenersInvInit, ListenersInvStep, PTL DEF ListenersSpec

-----------------------------------------------------------------------------
(***************************************************************************)
(* Numbers: induction, and what recursion over them defines.               *)
(***************************************************************************)
(* A set of numbers has a least one, *)
LEMMA Least ==
  ASSUME NEW S \in SUBSET Nat, S # {}
  PROVE  \E x \in S : \A y \in S : x <= y
<1> DEFINE R == OpToRel(<, Nat)
<1>1. IsWellFoundedOn(R, Nat)
  BY NatLessThanWellFounded
<1> HIDE DEF R
<1>2. PICK x \in S : \A y \in S : ~(<<y, x>> \in R)
  BY <1>1, WFMin
<1>3. \A y \in S : ~(y < x)
  BY <1>2 DEF R, OpToRel
<1> QED
  BY <1>2, <1>3

(* and a greatest if there is a bound. *)
LEMMA Greatest ==
  ASSUME NEW n \in Nat, NEW S \in SUBSET 0 .. n, S # {}
  PROVE  \E x \in S : \A y \in S : y <= x
<1> DEFINE T == {m \in Nat : m <= n /\ n - m \in S}
<1>1. T \in SUBSET Nat /\ T # {}
  <2>1. PICK y \in S : TRUE
    OBVIOUS
  <2>2. n - y \in Nat /\ n - y <= n /\ n - (n - y) = y
    BY <2>1
  <2> QED
    BY <2>2
<1>2. PICK x \in T : \A y \in T : x <= y
  BY <1>1, Least
<1>3. ASSUME NEW y \in S PROVE y <= n - x
  <2>1. n - y \in T
    <3>1. n - y \in Nat /\ n - y <= n /\ n - (n - y) = y
      OBVIOUS
    <3> QED
      BY <3>1
  <2>2. x \in Nat /\ x <= n - y
    BY <1>2, <2>1
  <2> QED
    BY <2>2
<1> QED
  BY <1>2, <1>3

(* What holds of 0, and of n + 1 if it holds of n, holds of every number. *)
LEMMA Induction ==
  ASSUME NEW S \in SUBSET Nat, 0 \in S, \A n \in S : n + 1 \in S
  PROVE  S = Nat
<1> SUFFICES ASSUME Nat \ S # {} PROVE FALSE
  OBVIOUS
<1>1. PICK x \in Nat \ S : \A y \in Nat \ S : x <= y
  BY Least
<1>2. x - 1 \in Nat /\ (x - 1) + 1 = x /\ ~(x <= x - 1)
  BY <1>1
<1> QED
  BY <1>1, <1>2

(* A step that can always be taken can be taken n times: the states it goes *)
(* through are a function.                                                  *)
Iterates(f, n, first, turn) ==
  f = [i \in 1 .. n |-> IF i = 1 THEN first ELSE turn[i][f[i - 1]]]

(* There is one. *)
LEMMA IterationExists ==
  ASSUME NEW State, NEW first \in State, NEW turn \in [Nat -> [State -> State]], NEW n \in Nat
  PROVE  \E f \in [1 .. n -> State] : Iterates(f, n, first, turn)
<1> DEFINE S == {k \in Nat : \E f \in [1 .. k -> State] : Iterates(f, k, first, turn)}
<1>1. 0 \in S
  <2> DEFINE f == [i \in 1 .. 0 |-> first]
  <2>1. f \in [1 .. 0 -> State] /\ Iterates(f, 0, first, turn)
    BY DEF Iterates
  <2> QED
    BY <2>1
<1>2. ASSUME NEW k \in S PROVE k + 1 \in S
  <2>1. PICK f \in [1 .. k -> State] : Iterates(f, k, first, turn)
    BY <1>2
  <2> DEFINE last == IF k = 0 THEN first ELSE turn[k + 1][f[k]]
             g == [i \in 1 .. k + 1 |-> IF i = k + 1 THEN last ELSE f[i]]
  <2>2. k \in Nat /\ k + 1 \in Nat
    BY <1>2
  <2>3. last \in State
    BY <2>2
  <2>4. g \in [1 .. k + 1 -> State]
    BY <2>2, <2>3
  <2>5. ASSUME NEW i \in 1 .. k + 1 PROVE g[i] = IF i = 1 THEN first ELSE turn[i][g[i - 1]]
    <3>1. CASE i = k + 1
      BY <2>2, <3>1
    <3>2. CASE i # k + 1
      <4>1. i \in 1 .. k /\ g[i] = f[i] /\ (i # 1 => i - 1 \in 1 .. k /\ g[i - 1] = f[i - 1])
        BY <2>2, <3>2
      <4>2. f[i] = IF i = 1 THEN first ELSE turn[i][f[i - 1]]
        BY <2>1, <4>1 DEF Iterates
      <4> QED
        BY <4>1, <4>2
    <3> QED
      BY <3>1, <3>2
  <2>6. Iterates(g, k + 1, first, turn)
    BY <2>4, <2>5 DEF Iterates
  <2> QED
    BY <2>2, <2>4, <2>6
<1> HIDE DEF S
<1>3. S = Nat
  <2>1. S \in SUBSET Nat
    BY DEF S
  <2> QED
    BY <1>1, <1>2, <2>1, Induction
<1>4. n \in S
  BY <1>3
<1> QED
  BY <1>4 DEF S

-----------------------------------------------------------------------------
(***************************************************************************)
(* Alerts: the decoder of the traps, for any bytes.                        *)
(***************************************************************************)
Byte == 0 .. 255

(* A byte is a number. *)
LEMMA BytesAreNatural == \A b \in Byte : b \in Nat
  BY DEF Byte

(* A small number is a byte. *)
LEMMA SmallNumbers == \A n \in Nat : n < 256 => n \in Byte
  BY DEF Byte

(* A number is one, whatever the bytes. *)
LEMMA NumberIsNatural ==
  ASSUME NEW bytes \in Seq(Byte)
  PROVE  Number(bytes) \in Nat
<1> DEFINE digit(i) == IF i < Len(bytes) THEN bytes[Len(bytes) - i] ELSE 0
<1>1. ASSUME NEW i \in 0 .. 3 PROVE digit(i) \in Nat
  <2>1. CASE i < Len(bytes)
    <3>1. Len(bytes) - i \in DOMAIN bytes
      BY <2>1
    <3>2. bytes[Len(bytes) - i] \in Nat
      BY <3>1, BytesAreNatural
    <3> QED
      BY <2>1, <3>2
  <2>2. CASE ~(i < Len(bytes))
    BY <2>2
  <2> QED
    BY <2>1, <2>2
<1>2. digit(0) \in Nat /\ digit(1) \in Nat /\ digit(2) \in Nat /\ digit(3) \in Nat
  BY <1>1
<1>3. Number(bytes) = digit(0) + (256 * digit(1)) + (65536 * digit(2)) + (16777216 * digit(3))
  BY DEF Number
<1> HIDE DEF digit
<1> QED
  BY <1>2, <1>3

(* One byte is its own number. *)
LEMMA NumberOfOne ==
  ASSUME NEW n \in Byte
  PROVE  Number(<<n>>) = n
<1>1. Len(<<n>>) = 1 /\ <<n>>[1] = n
  OBVIOUS
<1> QED
  BY <1>1 DEF Number, Byte

(* Two bytes are the number of which they are the digits. *)
LEMMA NumberOfTwo ==
  ASSUME NEW high \in Byte, NEW low \in Byte
  PROVE  Number(<<high, low>>) = (256 * high) + low
<1> DEFINE bytes == <<high, low>>
<1>1. Len(bytes) = 2 /\ bytes[2] = low /\ bytes[1] = high
  OBVIOUS
<1>2. high \in Nat /\ low \in Nat
  BY BytesAreNatural
<1> HIDE DEF bytes
<1>3. Number(bytes) = low + (256 * high) + (65536 * 0) + (16777216 * 0)
  BY <1>1, <1>2 DEF Number
<1> QED
  BY <1>2, <1>3 DEF bytes

(* _read_tlv by its cases: where the value of a field starts and ends. *)
Long(data, at) == data[at + 1] >= 128
LengthBytes(data, at) == IF Long(data, at) THEN data[at + 1] - 128 ELSE 0
Start(data, at) == at + 2 + LengthBytes(data, at)
ValueLength(data, at) ==
  IF Long(data, at) THEN Number(SubSeq(data, at + 2, Start(data, at) - 1)) ELSE data[at + 1]
End(data, at) == Start(data, at) + ValueLength(data, at) - 1
Readable(data, at) ==
  /\ at + 1 <= Len(data)
  /\ data[at + 1] # 128 /\ LengthBytes(data, at) <= 4 /\ Start(data, at) - 1 <= Len(data)
  /\ End(data, at) <= Len(data)

(* The bytes a field is read from are natural numbers. *)
LEMMA FieldNumbers ==
  ASSUME NEW data \in Seq(Byte), NEW at \in Nat \ {0}, at + 1 <= Len(data)
  PROVE  /\ data[at] \in Byte /\ data[at + 1] \in Byte
         /\ LengthBytes(data, at) \in Nat /\ Start(data, at) \in Nat
         /\ Start(data, at) - 1 <= Len(data) => ValueLength(data, at) \in Nat
<1>1. at \in DOMAIN data /\ at + 1 \in DOMAIN data
  OBVIOUS
<1>2. data[at] \in Byte /\ data[at + 1] \in Byte
  BY <1>1
<1>3. LengthBytes(data, at) \in Nat
  BY <1>2, BytesAreNatural DEF LengthBytes, Long
<1>4. Start(data, at) \in Nat /\ Start(data, at) >= at + 2
  BY <1>3 DEF Start
<1>5. ASSUME Start(data, at) - 1 <= Len(data) PROVE ValueLength(data, at) \in Nat
  <2>1. SubSeq(data, at + 2, Start(data, at) - 1) \in Seq(Byte)
    <3> DEFINE s == SubSeq(data, at + 2, Start(data, at) - 1)
    <3>1. \A i \in at + 2 .. Start(data, at) - 1 : data[i] \in Byte
      BY <1>4, <1>5
    <3> QED
      BY <1>4, <3>1
  <2> QED
    <3>1. data[at + 1] \in Nat
      BY <1>2, BytesAreNatural
    <3>2. Number(SubSeq(data, at + 2, Start(data, at) - 1)) \in Nat
      BY <2>1, NumberIsNatural
    <3> QED
      BY <3>1, <3>2 DEF ValueLength
<1> QED
  BY <1>2, <1>3, <1>4, <1>5

(* It is read if it is all there. *)
LEMMA ReadTlvCases ==
  ASSUME NEW data \in Seq(Byte), NEW at \in Nat \ {0}
  PROVE  ReadTlv(data, at) =
           IF Readable(data, at)
           THEN [ok |-> TRUE, tag |-> data[at],
                 value |-> SubSeq(data, Start(data, at), End(data, at)), next |-> End(data, at) + 1]
           ELSE NoField
<1>1. CASE at + 1 > Len(data)
  BY <1>1 DEF ReadTlv, Readable
<1>2. CASE at + 1 <= Len(data)
  <2> DEFINE first == data[at + 1]
             count == IF first >= 128 THEN first - 128 ELSE 0
             start == at + 2 + count
             length == IF first >= 128 THEN Number(SubSeq(data, at + 2, start - 1)) ELSE first
             end == start + length - 1
  <2>1. count = LengthBytes(data, at) /\ start = Start(data, at)
    BY DEF LengthBytes, Start, Long
  <2>2. length = ValueLength(data, at)
    BY <2>1 DEF ValueLength, Long
  <2>3. end = End(data, at)
    BY <2>1, <2>2 DEF End
  <2>4. ReadTlv(data, at) =
          IF \/ at + 1 > Len(data)
             \/ first = 128 \/ count > 4 \/ start - 1 > Len(data)
             \/ end > Len(data)
          THEN NoField
          ELSE [ok |-> TRUE, tag |-> data[at], value |-> SubSeq(data, start, end), next |-> end + 1]
    BY DEF ReadTlv
  <2>5. count \in Nat /\ start \in Nat /\ (start - 1 <= Len(data) => end \in Int)
    BY <1>2, <2>1, <2>2, FieldNumbers
  <2> HIDE DEF count, start, length, end
  <2>6. Readable(data, at) <=>
          ~ (\/ at + 1 > Len(data)
             \/ first = 128 \/ count > 4 \/ start - 1 > Len(data)
             \/ end > Len(data))
    BY <1>2, <2>1, <2>3, <2>5 DEF Readable
  <2> QED
    BY <2>1, <2>3, <2>4, <2>6
<1> QED
  BY <1>1, <1>2

(* What is read lies within what was received, and reading goes on behind it. *)
LEMMA ReadsWithin ==
  ASSUME NEW data \in Seq(Byte), NEW at \in Nat \ {0}, ReadTlv(data, at).ok
  PROVE  /\ ReadTlv(data, at).next \in at + 2 .. Len(data) + 1
         /\ ReadTlv(data, at).tag \in Byte
         /\ ReadTlv(data, at).value \in Seq(Byte)
         /\ Len(ReadTlv(data, at).value) <= Len(data) - 2
<1> DEFINE s == Start(data, at)
           e == End(data, at)
<1>1. Readable(data, at)
  BY ReadTlvCases DEF NoField
<1>2. at + 1 <= Len(data) /\ s - 1 <= Len(data) /\ e <= Len(data)
  BY <1>1 DEF Readable
<1>3. /\ data[at] \in Byte /\ LengthBytes(data, at) \in Nat
      /\ s \in Nat /\ ValueLength(data, at) \in Nat
  BY <1>2, FieldNumbers
<1>4. s >= at + 2 /\ e \in Int /\ e >= s - 1
  BY <1>3 DEF Start, End
<1>5. ReadTlv(data, at) =
        [ok |-> TRUE, tag |-> data[at], value |-> SubSeq(data, s, e), next |-> e + 1]
  BY <1>1, ReadTlvCases
<1> HIDE DEF s, e
<1>6. \A i \in s .. e : data[i] \in Byte
  BY <1>2, <1>3, <1>4
<1>7. SubSeq(data, s, e) \in Seq(Byte) /\ Len(SubSeq(data, s, e)) = e - s + 1
  BY <1>2, <1>3, <1>4, <1>6
<1> QED
  BY <1>2, <1>3, <1>4, <1>5, <1>7

(* A message is one field, all of it, *)
Whole(data) == data \in Seq(Byte) /\ ReadTlv(data, 1).ok /\ ReadTlv(data, 1).next = Len(data) + 1

(* and no part of one can be read, wherever it was cut. *)
LEMMA PartsAreRefused ==
  ASSUME NEW data, Whole(data), NEW n \in 0 .. Len(data) - 1
  PROVE  ReadTlv(SubSeq(data, 1, n), 1) = NoField
<1> DEFINE part == SubSeq(data, 1, n)
<1>1. data \in Seq(Byte) /\ Readable(data, 1)
  BY ReadTlvCases DEF NoField, Whole
<1>2. End(data, 1) = Len(data)
  <2>1. 2 <= Len(data) /\ Start(data, 1) - 1 <= Len(data)
    BY <1>1 DEF Readable
  <2>2. End(data, 1) \in Int
    BY <1>1, <2>1, FieldNumbers DEF End
  <2>3. ReadTlv(data, 1).next = End(data, 1) + 1
    BY <1>1, ReadTlvCases
  <2> QED
    BY <1>1, <2>2, <2>3 DEF Whole
<1>3. part \in Seq(Byte) /\ Len(part) = n /\ \A i \in 1 .. n : part[i] = data[i]
  <2>1. \A i \in 1 .. n : data[i] \in Byte
    BY <1>1
  <2> QED
    BY <1>1, <2>1
<1> HIDE DEF part
<1>4. ASSUME Readable(part, 1) PROVE FALSE
  <2>1. 2 <= n /\ Start(part, 1) - 1 <= n /\ End(part, 1) <= n
    BY <1>3, <1>4 DEF Readable
  <2>2. part[2] = data[2]
    BY <1>3, <2>1
  <2>3. Start(part, 1) = Start(data, 1)
    BY <2>2 DEF Start, LengthBytes, Long
  <2>4. Start(part, 1) \in Nat
    BY <1>3, <2>1, FieldNumbers
  <2>5. SubSeq(part, 3, Start(part, 1) - 1) = SubSeq(data, 3, Start(part, 1) - 1)
    BY <1>1, <1>3, <2>1, <2>4
  <2>6. ValueLength(part, 1) = ValueLength(data, 1)
    <3>1. 1 + 2 = 3 /\ 1 + 1 = 2
      OBVIOUS
    <3> QED
      BY <2>2, <2>3, <2>5, <3>1, Zenon DEF ValueLength, Long
  <2>7. End(part, 1) = Len(data)
    BY <1>2, <2>3, <2>6 DEF End
  <2> QED
    BY <1>1, <2>1, <2>7
<1>5. ReadTlv(part, 1) = NoField
  BY <1>3, <1>4, ReadTlvCases
<1> QED
  BY <1>5 DEF part
(* What is not one whole field has no fields at all. *)
LEMMA NoFieldsOfParts ==
  ASSUME NEW data, Whole(data), NEW n \in 0 .. Len(data) - 1
  PROVE  Fields(SubSeq(data, 1, n), 1) = <<>>
BY PartsAreRefused DEF Fields, NoField

(* A trap that was cut short, anywhere, is no trap. *)
LEMMA CutTrapsAreSilent ==
  ASSUME NEW data, Whole(data), NEW n \in 0 .. Len(data) - 1
  PROVE  DecodeTrap(SubSeq(data, 1, n)) = NoAlert
BY NoFieldsOfParts DEF DecodeTrap

(* Where the bytes of two sequences are in their concatenation *)
LEMMA Joined ==
  ASSUME NEW s \in Seq(Byte), NEW t \in Seq(Byte)
  PROVE  /\ s \o t \in Seq(Byte) /\ Len(s \o t) = Len(s) + Len(t)
         /\ Len(s) \in Nat /\ Len(t) \in Nat
         /\ \A i \in 1 .. Len(s) : (s \o t)[i] = s[i]
         /\ \A i \in 1 .. Len(t) : (s \o t)[Len(s) + i] = t[i]
  OBVIOUS

(* Bytes are the same if they are so one by one. *)
LEMMA SameBytes ==
  ASSUME NEW s \in Seq(Byte), NEW t \in Seq(Byte), Len(s) = Len(t), \A i \in 1 .. Len(s) : s[i] = t[i]
  PROVE  s = t
<1>1. s = [i \in 1 .. Len(s) |-> s[i]] /\ t = [i \in 1 .. Len(t) |-> t[i]]
  OBVIOUS
<1>2. [i \in 1 .. Len(s) |-> s[i]] = [i \in 1 .. Len(t) |-> t[i]]
  OBVIOUS
<1> QED
  BY <1>1, <1>2, Zenon

(* A slice of bytes is what is between its ends. *)
LEMMA SliceBytes ==
  ASSUME NEW data \in Seq(Byte), NEW i \in Nat \ {0}, NEW j \in Nat, i <= j, j <= Len(data)
  PROVE  /\ SubSeq(data, i, j) \in Seq(Byte) /\ Len(SubSeq(data, i, j)) = (j - i) + 1
         /\ \A k \in 1 .. (j - i) + 1 : SubSeq(data, i, j)[k] = data[(i + k) - 1]
<1> DEFINE s == SubSeq(data, i, j)
<1>1. \A k \in i .. j : data[k] \in Byte
  OBVIOUS
<1>2. s \in Seq(Byte)
  BY <1>1
<1>3. Len(s) = (j - i) + 1 /\ \A k \in 1 .. (j - i) + 1 : s[k] = data[(i + k) - 1]
  OBVIOUS
<1> QED
  BY <1>2, <1>3

(* No datagram holds a longer field. *)
Fits(value) == Len(value) < 65536

(* A length is written in bytes: itself, or how many bytes follow and, in     *)
(* those, the number.                                                         *)
LEMMA LengthWritten ==
  ASSUME NEW value \in Seq(Byte), Fits(value)
  PROVE  /\ EncodeLength(Len(value)) \in Seq(Byte) /\ Len(EncodeLength(Len(value))) \in 1 .. 3
         /\ Len(value) < 128 => /\ Len(EncodeLength(Len(value))) = 1
                                /\ EncodeLength(Len(value))[1] = Len(value)
         /\ Len(value) >= 128 =>
              /\ Len(EncodeLength(Len(value))) \in 2 .. 3
              /\ EncodeLength(Len(value))[1] = 127 + Len(EncodeLength(Len(value)))
              /\ Number(SubSeq(EncodeLength(Len(value)), 2, Len(EncodeLength(Len(value))))) = Len(value)
<1> DEFINE n == Len(value)
           form == EncodeLength(n)
<1>1. 129 \in Byte /\ 130 \in Byte
  BY SmallNumbers
<1>2. n \in Nat /\ (n < 65536 <=> Fits(value))
  BY DEF Fits
<1> HIDE DEF n
<1>3. CASE n < 128
  <2>1. form = <<n>> /\ n \in Byte
    BY <1>2, <1>3, SmallNumbers DEF EncodeLength
  <2> HIDE DEF form
  <2>2. form \in Seq(Byte) /\ Len(form) = 1 /\ form[1] = n
    BY <2>1
  <2> QED
    BY <1>2, <1>3, <2>2 DEF form, n
<1>4. CASE n >= 128 /\ n < 256
  <2>1. form = <<129, n>> /\ n \in Byte
    BY <1>2, <1>4, SmallNumbers DEF EncodeLength
  <2> HIDE DEF form
  <2>2. form \in Seq(Byte) /\ Len(form) = 2 /\ form[1] = 129 /\ form[2] = n
    BY <1>1, <2>1
  <2> DEFINE s == SubSeq(form, 2, 2)
  <2>3. s \in Seq(Byte) /\ Len(s) = 1 /\ s[1] = n
    <3> DEFINE i == 2
    <3>1. i \in Nat \ {0} /\ i \in Nat /\ i <= i /\ i <= Len(form) /\ (i - i) + 1 = 1 /\ (i + 1) - 1 = 2
      BY <2>2
    <3>2. s = SubSeq(form, i, i)
      OBVIOUS
    <3> HIDE DEF s, i
    <3>3. /\ s \in Seq(Byte) /\ Len(s) = (i - i) + 1
          /\ \A k \in 1 .. (i - i) + 1 : s[k] = form[(i + k) - 1]
      BY <2>2, <3>1, <3>2, SliceBytes
    <3> QED
      BY <2>2, <3>1, <3>3
  <2> HIDE DEF s
  <2>4. s = <<n>>
    BY <2>1, <2>3
  <2>5. Number(SubSeq(form, 2, Len(form))) = n
    BY <2>1, <2>2, <2>4, NumberOfOne DEF s
  <2> QED
    BY <1>2, <1>4, <2>2, <2>5 DEF form, n
<1>5. CASE n >= 256
  <2> DEFINE high == n \div 256
             low == n % 256
  <2>1. form = <<130, high, low>>
    BY <1>2, <1>5 DEF EncodeLength
  <2>2. high \in Nat /\ high < 256 /\ low \in Nat /\ low < 256 /\ (256 * high) + low = n
    BY <1>2
  <2> HIDE DEF form, high, low
  <2>3. high \in Byte /\ low \in Byte
    BY <2>2, SmallNumbers
  <2>4. form \in Seq(Byte) /\ Len(form) = 3 /\ form[1] = 130 /\ form[2] = high /\ form[3] = low
    BY <1>1, <2>1, <2>3
  <2> DEFINE s == SubSeq(form, 2, 3)
  <2>5. s \in Seq(Byte) /\ Len(s) = 2 /\ s[1] = high /\ s[2] = low
    <3>1. /\ s \in Seq(Byte) /\ Len(s) = (3 - 2) + 1
          /\ \A k \in 1 .. (3 - 2) + 1 : s[k] = form[(2 + k) - 1]
      BY <2>4, SliceBytes
    <3> HIDE DEF s
    <3> QED
      BY <2>4, <3>1
  <2> HIDE DEF s
  <2>6. s = <<high, low>>
    BY <2>3, <2>5
  <2>7. Number(s) = n
    <3>1. Number(s) = (256 * high) + low
      BY <2>3, <2>6, NumberOfTwo
    <3> QED
      BY <2>2, <3>1
  <2>8. Number(SubSeq(form, 2, Len(form))) = n
    BY <2>4, <2>7 DEF s
  <2> QED
    BY <1>2, <1>5, <2>4, <2>8 DEF form, n
<1>6. n < 128 \/ (n >= 128 /\ n < 256) \/ n >= 256
  BY <1>2
<1> QED
  BY <1>3, <1>4, <1>5, <1>6, Zenon

(* What is written is bytes. *)
LEMMA TlvBytes ==
  ASSUME NEW tag \in Byte, NEW value \in Seq(Byte), Fits(value)
  PROVE  Tlv(tag, value) \in Seq(Byte)
<1> DEFINE form == EncodeLength(Len(value))
<1>1. form \in Seq(Byte) /\ <<tag>> \in Seq(Byte)
  BY LengthWritten
<1> HIDE DEF form
<1>2. <<tag>> \o form \in Seq(Byte)
  BY <1>1, Joined
<1>3. (<<tag>> \o form) \o value \in Seq(Byte)
  BY <1>2, Joined
<1> QED
  BY <1>3 DEF Tlv, form

(* A field behind others is read as it was written, with each form of its   *)
(* length.                                                                  *)
LEMMA ReadsField ==
  ASSUME NEW before \in Seq(Byte), NEW tag \in Byte, NEW value \in Seq(Byte), Fits(value),
         NEW rest \in Seq(Byte), NEW at \in Nat, at = Len(before) + 1
  PROVE  ReadTlv(before \o Tlv(tag, value) \o rest, at) =
           [ok |-> TRUE, tag |-> tag, value |-> value, next |-> at + Len(Tlv(tag, value))]
<1> DEFINE data == before \o Tlv(tag, value) \o rest
           form == EncodeLength(Len(value))
           f == Len(form)
           head == <<tag>> \o form
           b == Len(before)
           h == Len(head)
<1>0. /\ form \in Seq(Byte) /\ f \in 1 .. 3
      /\ Len(value) < 128 => f = 1 /\ form[1] = Len(value)
      /\ Len(value) >= 128 => /\ f \in 2 .. 3 /\ form[1] = 127 + f
                              /\ Number(SubSeq(form, 2, f)) = Len(value)
  BY LengthWritten
<1>1. Tlv(tag, value) = head \o value /\ head \in Seq(Byte) /\ h = 1 + f
  <2>1. <<tag>> \in Seq(Byte) /\ Len(<<tag>>) = 1
    OBVIOUS
  <2>2. Tlv(tag, value) = head \o value
    BY DEF Tlv
  <2> HIDE DEF form
  <2>3. head \in Seq(Byte) /\ h = 1 + f
    BY <1>0, <2>1, Joined
  <2> QED
    BY <2>2, <2>3
<1>2. /\ data \in Seq(Byte)
      /\ Len(data) = b + h + Len(value) + Len(rest)
      /\ \A i \in 1 .. h : data[b + i] = head[i]
      /\ \A i \in 1 .. Len(value) : data[b + h + i] = value[i]
  <2> HIDE DEF head, form
  <2>1. Tlv(tag, value) \in Seq(Byte) /\ Len(Tlv(tag, value)) = h + Len(value)
    <3>1. head \o value \in Seq(Byte) /\ Len(head \o value) = h + Len(value)
      BY <1>1, Joined
    <3> QED
      BY <1>1, <3>1
  <2>2. \A i \in 1 .. h : Tlv(tag, value)[i] = head[i]
    BY <1>1
  <2>3. \A i \in 1 .. Len(value) : Tlv(tag, value)[h + i] = value[i]
    BY <1>1
  <2> DEFINE t == Tlv(tag, value)
  <2> HIDE DEF t
  <2>4. /\ data \in Seq(Byte) /\ Len(data) = b + Len(t) + Len(rest)
        /\ \A i \in 1 .. Len(t) : data[b + i] = t[i]
    <3>1. t \in Seq(Byte)
      BY <2>1 DEF t
    <3>2. before \o t \in Seq(Byte)
      BY <3>1, Joined
    <3>3. /\ (before \o t) \o rest \in Seq(Byte)
          /\ Len((before \o t) \o rest) = b + Len(t) + Len(rest)
      BY <3>1, <3>2, Joined
    <3>4. ASSUME NEW i \in 1 .. Len(t) PROVE ((before \o t) \o rest)[b + i] = t[i]
      <4>1. b + i \in 1 .. Len(before \o t)
        BY <3>1, Joined
      <4>2. ((before \o t) \o rest)[b + i] = (before \o t)[b + i]
        BY <3>2, <4>1, Joined
      <4> QED
        BY <3>1, <4>2, Joined
    <3>5. data = (before \o t) \o rest
      BY DEF t
    <3> QED
      BY <3>3, <3>4, <3>5, Zenon
  <2>5. t \in Seq(Byte) /\ Len(t) = h + Len(value)
    BY <2>1 DEF t
  <2>6. /\ \A i \in 1 .. h : t[i] = head[i]
        /\ \A i \in 1 .. Len(value) : t[h + i] = value[i]
    BY <2>2, <2>3 DEF t
  <2>7. b \in Nat /\ h \in Nat /\ Len(value) \in Nat /\ Len(rest) \in Nat
    BY <1>1
  <2> HIDE DEF data, b, h
  <2>8. Len(data) = b + h + Len(value) + Len(rest)
    BY <2>4, <2>5, <2>7
  <2>9. ASSUME NEW i \in 1 .. h PROVE data[b + i] = head[i]
    <3>1. i \in 1 .. Len(t)
      BY <2>5, <2>7
    <3> QED
      BY <2>4, <2>6, <3>1
  <2>10. ASSUME NEW i \in 1 .. Len(value) PROVE data[b + h + i] = value[i]
    <3>1. h + i \in 1 .. Len(t) /\ b + (h + i) = b + h + i
      BY <2>5, <2>7
    <3> QED
      BY <2>4, <2>6, <3>1
  <2> QED
    BY <2>4, <2>8, <2>9, <2>10
<1>3. b \in Nat /\ h \in Nat /\ Len(value) \in Nat /\ Len(rest) \in Nat /\ at = b + 1
  <2> HIDE DEF h, form
  <2> QED
    BY <1>0, <1>1
<1>4. head[1] = tag /\ \A i \in 1 .. f : head[1 + i] = form[i]
  <2> HIDE DEF form
  <2>1. <<tag>> \in Seq(Byte) /\ Len(<<tag>>) = 1 /\ <<tag>>[1] = tag
    OBVIOUS
  <2>2. /\ \A i \in 1 .. 1 : head[i] = <<tag>>[i]
        /\ \A i \in 1 .. f : head[1 + i] = form[i]
    BY <1>0, <2>1, Joined
  <2> QED
    BY <2>1, <2>2
<1>5. Len(Tlv(tag, value)) = h + Len(value)
  BY <1>1
<1> HIDE DEF data, head, form, f, b, h
<1>6. data[at] = tag /\ \A i \in 1 .. f : data[at + i] = form[i]
  <2>1. 1 \in 1 .. h /\ b + 1 = at
    BY <1>0, <1>1, <1>3
  <2>2. data[at] = tag
    BY <1>2, <1>4, <2>1
  <2>3. ASSUME NEW i \in 1 .. f PROVE data[at + i] = form[i]
    <3>1. 1 + i \in 1 .. h
      BY <1>0, <1>1
    <3>2. b + (1 + i) = at + i
      BY <1>0, <1>3
    <3> QED
      BY <1>2, <1>4, <3>1, <3>2
  <2> QED
    BY <2>2, <2>3
<1>7. /\ data[at + 1] = form[1] /\ LengthBytes(data, at) = f - 1 /\ data[at + 1] # 128
      /\ Long(data, at) <=> Len(value) >= 128
  <2>1. data[at + 1] = form[1]
    BY <1>0, <1>6
  <2>2. CASE Len(value) < 128
    BY <1>0, <1>3, <2>1, <2>2 DEF LengthBytes, Long
  <2>3. CASE ~(Len(value) < 128)
    BY <1>0, <1>3, <2>1, <2>3 DEF LengthBytes, Long
  <2> QED
    BY <2>1, <2>2, <2>3
<1>15. Start(data, at) = at + h
  BY <1>0, <1>1, <1>3, <1>7 DEF Start
<1>8. ValueLength(data, at) = Len(value)
  <2>1. CASE Len(value) < 128
    BY <1>0, <1>3, <1>7, <2>1 DEF ValueLength
  <2>2. CASE ~(Len(value) < 128)
    <3> DEFINE s == SubSeq(data, at + 2, at + f)
               t == SubSeq(form, 2, f)
    <3>1. at + f <= Len(data) /\ f \in 2 .. 3 /\ at \in Nat /\ at >= 1
      BY <1>0, <1>1, <1>2, <1>3, <2>2
    <3>2. t \in Seq(Byte) /\ Len(t) = f - 1 /\ \A i \in 1 .. f - 1 : t[i] = form[i + 1]
      <4>1. /\ t \in Seq(Byte) /\ Len(t) = (f - 2) + 1
            /\ \A i \in 1 .. (f - 2) + 1 : t[i] = form[(2 + i) - 1]
        <5>1. 2 \in Nat \ {0} /\ f \in Nat /\ 2 <= f /\ f <= Len(form)
          <6>1. f = Len(form)
            BY DEF f
          <6> QED
            BY <3>1, <6>1
        <5> QED
          BY <1>0, <5>1, SliceBytes
      <4>2. (f - 2) + 1 = f - 1 /\ \A i \in 1 .. f - 1 : (2 + i) - 1 = i + 1
        BY <3>1
      <4> HIDE DEF t
      <4> QED
        BY <4>1, <4>2
    <3>3. s \in Seq(Byte) /\ Len(s) = f - 1 /\ \A i \in 1 .. f - 1 : s[i] = data[at + (i + 1)]
      <4>1. /\ at + 2 \in Nat \ {0} /\ at + f \in Nat /\ at + 2 <= at + f
            /\ ((at + f) - (at + 2)) + 1 = f - 1
            /\ \A i \in 1 .. f - 1 : ((at + 2) + i) - 1 = at + (i + 1)
        BY <3>1
      <4>2. /\ s \in Seq(Byte) /\ Len(s) = ((at + f) - (at + 2)) + 1
            /\ \A i \in 1 .. ((at + f) - (at + 2)) + 1 : s[i] = data[((at + 2) + i) - 1]
        BY <1>2, <3>1, <4>1, SliceBytes
      <4> HIDE DEF s
      <4> QED
        BY <4>1, <4>2
    <3>4. \A i \in 1 .. f - 1 : data[at + (i + 1)] = form[i + 1]
      BY <1>6, <3>1
    <3> HIDE DEF s, t
    <3>5. s = t
      <4>1. Len(s) = Len(t) /\ \A i \in 1 .. Len(s) : s[i] = t[i]
        BY <3>2, <3>3, <3>4
      <4> QED
        BY <3>2, <3>3, <4>1, SameBytes
    <3>6. Start(data, at) - 1 = at + f
      BY <1>0, <1>1, <1>3, <1>15
    <3>7. Number(SubSeq(data, at + 2, Start(data, at) - 1)) = Len(value)
      <4>1. Number(t) = Len(value)
        BY <1>0, <1>3, <2>2 DEF t
      <4> QED
        BY <3>5, <3>6, <4>1 DEF s
    <3> QED
      BY <1>3, <1>7, <2>2, <3>7 DEF ValueLength
  <2> QED
    BY <2>1, <2>2
<1>9. End(data, at) = at + h + Len(value) - 1
  BY <1>3, <1>15, <1>8 DEF End
<1>11. Readable(data, at)
  <2>1. Len(value) \in Nat
    OBVIOUS
  <2>2. /\ at + 1 <= Len(data)
        /\ at + h - 1 <= Len(data) /\ at + h + Len(value) - 1 <= Len(data)
    <3>1. h \in Nat /\ h >= 2
      BY <1>0, <1>1
    <3>2. Len(data) = b + h + Len(value) + Len(rest)
      BY <1>2
    <3> QED
      BY <1>3, <2>1, <3>1, <3>2
  <2>3. LengthBytes(data, at) <= 4
    BY <1>0, <1>7
  <2>4. Start(data, at) - 1 <= Len(data) /\ End(data, at) <= Len(data)
    BY <1>3, <1>15, <1>9, <2>2
  <2> QED
    BY <1>7, <2>2, <2>3, <2>4, Zenon DEF Readable
<1>12. SubSeq(data, at + h, at + h + Len(value) - 1) = value
  <2>1. \A i \in 1 .. Len(value) : data[at + h + i - 1] = value[i]
    <3>1. \A i \in 1 .. Len(value) : at + h + i - 1 = b + h + i
      BY <1>3
    <3> QED
      BY <1>2, <3>1
  <2>2. /\ at + h \in Nat /\ at + h >= 1
        /\ at + h + Len(value) - 1 \in Nat /\ at + h + Len(value) - 1 <= Len(data)
    BY <1>2, <1>3
  <2> DEFINE s == SubSeq(data, at + h, at + h + Len(value) - 1)
  <2>3. s \in Seq(Byte) /\ Len(s) = Len(value)
    <3>1. \A i \in at + h .. at + h + Len(value) - 1 : data[i] \in Byte
      BY <1>2, <2>2
    <3> QED
      BY <1>2, <1>3, <2>2, <3>1
  <2>4. \A i \in 1 .. Len(value) : s[i] = data[at + h + i - 1]
    BY <1>2, <1>3, <2>2
  <2> HIDE DEF s
  <2>5. s = value
    <3>1. \A i \in 1 .. Len(s) : s[i] = value[i]
      BY <2>1, <2>3, <2>4
    <3> QED
      BY <2>3, <3>1, SameBytes
  <2> QED
    BY <2>5 DEF s
<1>13. ReadTlv(data, at) = [ok |-> TRUE, tag |-> tag, value |-> value, next |-> at + h + Len(value)]
  <2>1. at \in Nat \ {0} /\ End(data, at) + 1 = at + h + Len(value)
    BY <1>3, <1>9
  <2> QED
    <3>1. ReadTlv(data, at) =
            [ok |-> TRUE, tag |-> data[at],
             value |-> SubSeq(data, Start(data, at), End(data, at)), next |-> End(data, at) + 1]
      BY <1>2, <1>11, <2>1, ReadTlvCases
    <3>2. SubSeq(data, Start(data, at), End(data, at)) = value
      BY <1>15, <1>9, <1>12, Zenon
    <3>3. data[at] = tag
      BY <1>6
    <3> QED
      BY <2>1, <3>1, <3>2, <3>3, Zenon
<1>14. at + Len(Tlv(tag, value)) = at + h + Len(value)
  BY <1>3, <1>5
<1> QED
  BY <1>13, <1>14 DEF data

(* The field at the start, and the one that follows *)
LEMMA ReadsFirst ==
  ASSUME NEW tag \in Byte, NEW value \in Seq(Byte), Fits(value), NEW rest \in Seq(Byte)
  PROVE  ReadTlv(Tlv(tag, value) \o rest, 1) =
           [ok |-> TRUE, tag |-> tag, value |-> value, next |-> Len(Tlv(tag, value)) + 1]
<1>1. Tlv(tag, value) \in Seq(Byte)
  BY TlvBytes
<1> DEFINE before == <<>>
<1>2. before \in Seq(Byte) /\ 1 = Len(before) + 1 /\ before \o Tlv(tag, value) = Tlv(tag, value)
  BY <1>1
<1> HIDE DEF before
<1>3. ReadTlv(before \o Tlv(tag, value) \o rest, 1) =
        [ok |-> TRUE, tag |-> tag, value |-> value, next |-> 1 + Len(Tlv(tag, value))]
  <2>1. \A at \in Nat : at = Len(before) + 1 =>
          ReadTlv(before \o Tlv(tag, value) \o rest, at) =
            [ok |-> TRUE, tag |-> tag, value |-> value, next |-> at + Len(Tlv(tag, value))]
    BY <1>2, ReadsField
  <2> QED
    BY <1>2, <2>1
<1>4. 1 + Len(Tlv(tag, value)) = Len(Tlv(tag, value)) + 1
  BY <1>1
<1> QED
  BY <1>2, <1>3, <1>4, Zenon

(* What is written is one whole field. *)
LEMMA WrittenWhole ==
  ASSUME NEW tag \in Byte, NEW value \in Seq(Byte), Fits(value)
  PROVE  Whole(Tlv(tag, value))
<1>1. Tlv(tag, value) \in Seq(Byte) /\ <<>> \in Seq(Byte)
  BY TlvBytes
<1>2. Tlv(tag, value) \o <<>> = Tlv(tag, value)
  BY <1>1
<1>3. ReadTlv(Tlv(tag, value), 1) =
        [ok |-> TRUE, tag |-> tag, value |-> value, next |-> Len(Tlv(tag, value)) + 1]
  BY <1>1, <1>2, ReadsFirst, Zenon
<1> QED
  BY <1>1, <1>3 DEF Whole

(* The values of fields: no datagram holds a longer one.                      *)
Values == {value \in Seq(Byte) : Fits(value)}

FieldRead(tag, value, after) == [ok |-> TRUE, tag |-> tag, value |-> value, next |-> after]

(* Concatenation may be grouped either way. *)
LEMMA Regrouped ==
  ASSUME NEW s \in Seq(Byte), NEW t \in Seq(Byte), NEW u \in Seq(Byte)
  PROVE  s \o (t \o u) = (s \o t) \o u
<1>1. s \o t \in Seq(Byte) /\ t \o u \in Seq(Byte)
  BY Joined
<1>2. s \o (t \o u) \in Seq(Byte) /\ (s \o t) \o u \in Seq(Byte)
  BY <1>1, Joined
<1>3. Len(s \o (t \o u)) = Len((s \o t) \o u)
  BY <1>1, Joined
<1>4. ASSUME NEW i \in 1 .. Len((s \o t) \o u) PROVE (s \o (t \o u))[i] = ((s \o t) \o u)[i]
  OBVIOUS
<1> DEFINE a == s \o (t \o u)
           b == (s \o t) \o u
<1>5. /\ a \in Seq(Byte) /\ b \in Seq(Byte) /\ Len(a) = Len(b)
      /\ \A i \in 1 .. Len(b) : a[i] = b[i]
  BY <1>2, <1>3, <1>4
<1> HIDE DEF a, b
<1>6. a = b
  BY <1>5, SameBytes
<1> QED
  BY <1>6 DEF a, b

(* Reading data has come as far as rest. *)
Reached(data, field, rest) ==
  \E before \in Seq(Byte) : data = before \o rest /\ field.ok /\ field.next = Len(before) + 1

IsField(field, tag, value) == field.ok /\ field.tag = tag /\ field.value = value

(* The first field is read as it was written, *)
LEMMA ReadsStart ==
  ASSUME NEW tag \in Byte, NEW value \in Values, NEW rest \in Seq(Byte),
         NEW data, data = Tlv(tag, value) \o rest
  PROVE  IsField(ReadTlv(data, 1), tag, value) /\ Reached(data, ReadTlv(data, 1), rest)
<1>1. value \in Seq(Byte) /\ Fits(value) /\ Tlv(tag, value) \in Seq(Byte)
  BY TlvBytes DEF Values
<1>2. ReadTlv(data, 1) = FieldRead(tag, value, Len(Tlv(tag, value)) + 1)
  BY <1>1, ReadsFirst DEF FieldRead
<1>3. IsField(ReadTlv(data, 1), tag, value)
  BY <1>2 DEF IsField, FieldRead
<1>4. ReadTlv(data, 1).ok /\ ReadTlv(data, 1).next = Len(Tlv(tag, value)) + 1
  BY <1>2 DEF FieldRead
<1>5. Reached(data, ReadTlv(data, 1), rest)
  BY <1>1, <1>4, Zenon DEF Reached
<1> QED
  BY <1>3, <1>5

(* and so is the one after a field that was read. *)
LEMMA ReadsOn ==
  ASSUME NEW tag \in Byte, NEW value \in Values, NEW rest \in Seq(Byte),
         NEW data, NEW field, Reached(data, field, Tlv(tag, value) \o rest)
  PROVE  IsField(After(data, field), tag, value) /\ Reached(data, After(data, field), rest)
<1> DEFINE t == Tlv(tag, value)
<1>1. value \in Seq(Byte) /\ Fits(value) /\ t \in Seq(Byte)
  BY TlvBytes DEF Values
<1>2. PICK before \in Seq(Byte) :
        data = before \o (t \o rest) /\ field.ok /\ field.next = Len(before) + 1
  BY DEF Reached
<1> DEFINE at == Len(before) + 1
<1>3. at \in Nat /\ at = Len(before) + 1 /\ After(data, field) = ReadTlv(data, at)
  BY <1>2 DEF After
<1> HIDE DEF at, t
<1>4. data = (before \o t) \o rest
  BY <1>1, <1>2, Regrouped
<1>5. ReadTlv((before \o t) \o rest, at)
        = [ok |-> TRUE, tag |-> tag, value |-> value, next |-> at + Len(Tlv(tag, value))]
  <2>1. (before \o Tlv(tag, value)) \o rest = (before \o t) \o rest
    BY DEF t
  <2>2. ReadTlv((before \o Tlv(tag, value)) \o rest, at)
          = [ok |-> TRUE, tag |-> tag, value |-> value, next |-> at + Len(Tlv(tag, value))]
    <3>1. \A a \in Nat : a = Len(before) + 1 =>
            ReadTlv((before \o Tlv(tag, value)) \o rest, a)
              = [ok |-> TRUE, tag |-> tag, value |-> value, next |-> a + Len(Tlv(tag, value))]
      BY <1>1, ReadsField
    <3> QED
      BY <1>3, <3>1
  <2> QED
    BY <2>1, <2>2, Zenon
<1>6. before \o t \in Seq(Byte) /\ Len(before \o t) + 1 = at + Len(t)
  BY <1>1, <1>3, Joined
<1>7. After(data, field)
        = [ok |-> TRUE, tag |-> tag, value |-> value, next |-> at + Len(Tlv(tag, value))]
  BY <1>3, <1>4, <1>5, Zenon
<1>8. After(data, field).ok /\ After(data, field).next = Len(before \o t) + 1
  BY <1>6, <1>7 DEF t
<1>9. Reached(data, After(data, field), rest)
  BY <1>4, <1>6, <1>8, Zenon DEF Reached
<1>10. IsField(After(data, field), tag, value)
  BY <1>7 DEF IsField
<1> QED
  BY <1>9, <1>10

(* The first fields of five are the first of them. *)
LEMMA Slices ==
  ASSUME NEW S, NEW s \in Seq(S), NEW n \in 1 .. 5, Len(s) = 5
  PROVE  SubSeq(s, 1, n)[1] = s[1] /\ SubSeq(s, 1, n)[n] = s[n] /\ SubSeq(s, 1, n) # <<>>
<1>1. n \in Nat /\ 1 <= n /\ n <= Len(s)
  OBVIOUS
<1>2. Len(SubSeq(s, 1, n)) = n
  BY <1>1
<1>3. ASSUME NEW i \in 1 .. n PROVE SubSeq(s, 1, n)[i] = s[i]
  <2>1. i \in Nat /\ 1 <= i /\ i <= n
    BY <1>1
  <2>2. SubSeq(s, 1, n)[i] = s[1 + i - 1]
    BY <1>1, <2>1
  <2> QED
    BY <2>1, <2>2
<1>4. 1 \in 1 .. n /\ n \in 1 .. n
  BY <1>1
<1>5. SubSeq(s, 1, n)[1] = s[1] /\ SubSeq(s, 1, n)[n] = s[n]
  BY <1>3, <1>4
<1>6. SubSeq(s, 1, n) # <<>>
  <2> DEFINE t == SubSeq(s, 1, n)
  <2>1. Len(t) # 0
    BY <1>1, <1>2
  <2> HIDE DEF t
  <2>2. t # <<>>
    BY <2>1
  <2> QED
    BY <2>2 DEF t
<1> QED
  BY <1>5, <1>6

(* One field at the start of data *)
LEMMA FieldsOne ==
  ASSUME NEW tag \in Byte, NEW value \in Values, NEW rest \in Seq(Byte),
         NEW data, data = Tlv(tag, value) \o rest
  PROVE  Fields(data, 1) # <<>> /\ IsField(Fields(data, 1)[1], tag, value)
<1> DEFINE read1 == ReadTlv(data, 1)
           read2 == After(data, read1)
           read3 == After(data, read2)
           read4 == After(data, read3)
           read5 == After(data, read4)
           all == <<read1, read2, read3, read4, read5>>
<1>1. Fields(data, 1) = IF all[1].ok THEN SubSeq(all, 1, 1) ELSE <<>>
  BY DEF Fields
<1>2. IsField(read1, tag, value)
  BY ReadsStart
<1> HIDE DEF read1, read2, read3, read4, read5
<1>3. all[1] = read1 /\ Len(all) = 5 /\ all \in Seq({read1, read2, read3, read4, read5})
  OBVIOUS
<1> HIDE DEF all
<1>4. Fields(data, 1) = SubSeq(all, 1, 1)
  BY <1>1, <1>2, <1>3 DEF IsField
<1> QED
  BY <1>2, <1>3, <1>4, Slices

(* A field has a tag and a length, so that a sequence with one is not empty. *)
LEMMA NotEmpty ==
  ASSUME NEW tag \in Byte, NEW value \in Values, NEW rest \in Seq(Byte)
  PROVE  Tlv(tag, value) \o rest \in Seq(Byte) /\ Tlv(tag, value) \o rest # <<>>
<1>1. Tlv(tag, value) \in Seq(Byte)
  BY TlvBytes DEF Values
<1>2. Len(Tlv(tag, value)) > 0
  BY DEF Tlv, Values
<1> QED
  BY <1>1, <1>2, Joined

(* The content of a message: version, community and a PDU *)
Carries(content, tag, body) ==
  \E t1, t2 \in Byte, version, community \in Values, rest \in Seq(Byte) :
    content = Tlv(t1, version) \o (Tlv(t2, community) \o (Tlv(tag, body) \o rest))

(* The PDU of a v1 trap: enterprise, agent, generic and specific trap, uptime *)
IsV1(body, enterprise) ==
  \E t1, t2, t3, t4, t5 \in Byte, agent, generic, specific, uptime \in Values, rest \in Seq(Byte) :
    body = Tlv(t1, enterprise) \o (Tlv(t2, agent) \o (Tlv(t3, generic) \o
           (Tlv(t4, specific) \o (Tlv(t5, uptime) \o rest))))

(* The PDU of a v2c trap: request, error status and index, varbinds *)
IsV2(body, varbinds) ==
  \E t1, t2, t3, t4 \in Byte, request, status, index \in Values, rest \in Seq(Byte) :
    body = Tlv(t1, request) \o (Tlv(t2, status) \o (Tlv(t3, index) \o
           (Tlv(t4, varbinds) \o rest)))

(* A sequence that begins with a field *)
Begins(data, value) ==
  \E tag \in Byte, rest \in Seq(Byte) : data = Tlv(tag, value) \o rest

(* Each is read as it was written. *)
LEMMA ContentRead ==
  ASSUME NEW content, NEW tag \in Byte, NEW body \in Values, Carries(content, tag, body)
  PROVE  Fields(content, 3) # <<>> /\ IsField(Fields(content, 3)[3], tag, body)
<1>1. PICK t1 \in Byte, t2 \in Byte, version \in Values, community \in Values,
           rest \in Seq(Byte) :
        content = Tlv(t1, version) \o (Tlv(t2, community) \o (
                  Tlv(tag, body) \o rest))
  BY Zenon DEF Carries
<1> DEFINE r3 == rest
           r2 == Tlv(tag, body) \o r3
           r1 == Tlv(t2, community) \o r2
           r0 == Tlv(t1, version) \o r1
           read1 == ReadTlv(r0, 1)
           read2 == After(r0, read1)
           read3 == After(r0, read2)
           read4 == After(r0, read3)
           read5 == After(r0, read4)
           all == <<read1, read2, read3, read4, read5>>
<1>2. /\ Tlv(t1, version) \in Seq(Byte)
      /\ Tlv(t2, community) \in Seq(Byte)
      /\ Tlv(tag, body) \in Seq(Byte)
  BY TlvBytes DEF Values
<1>3. r3 \in Seq(Byte) /\ r2 \in Seq(Byte) /\ r1 \in Seq(Byte)
  BY <1>2, Joined
<1>4. content = r0
  BY <1>1
<1> HIDE DEF r1, r2, r3
<1>5. /\ r0 = Tlv(t1, version) \o r1
      /\ r1 = Tlv(t2, community) \o r2
      /\ r2 = Tlv(tag, body) \o r3
  BY DEF r1, r2
<1> HIDE DEF r0, read1, read2, read3, read4, read5
<1>6. IsField(read1, t1, version) /\ Reached(r0, read1, r1)
  BY <1>3, <1>5, ReadsStart DEF read1
<1>7. IsField(read2, t2, community) /\ Reached(r0, read2, r2)
  BY <1>3, <1>5, <1>6, ReadsOn DEF read2
<1>8. IsField(read3, tag, body) /\ Reached(r0, read3, r3)
  BY <1>3, <1>5, <1>7, ReadsOn DEF read3
<1>9. Fields(r0, 3) = IF all[3].ok THEN SubSeq(all, 1, 3) ELSE <<>>
  BY DEF Fields, read1, read2, read3, read4, read5
<1>10. /\ all[1] = read1 /\ all[3] = read3
      /\ Len(all) = 5 /\ all \in Seq({read1, read2, read3, read4, read5})
  OBVIOUS
<1> HIDE DEF all
<1>11. Fields(r0, 3) = SubSeq(all, 1, 3)
  BY <1>8, <1>9, <1>10 DEF IsField
<1>12. /\ SubSeq(all, 1, 3)[1] = all[1] /\ SubSeq(all, 1, 3)[3] = all[3]
      /\ SubSeq(all, 1, 3) # <<>>
  BY <1>10, Slices
<1> QED
  BY <1>4, <1>6, <1>8, <1>10, <1>11, <1>12 DEF IsField

(* A v1 PDU begins with its enterprise, *)
LEMMA V1Read ==
  ASSUME NEW body, NEW enterprise \in Values, IsV1(body, enterprise)
  PROVE  Fields(body, 5) # <<>> /\ Fields(body, 5)[1].value = enterprise
<1>1. PICK t1 \in Byte, t2 \in Byte, t3 \in Byte, t4 \in Byte, t5 \in Byte, agent \in Values,
           generic \in Values, specific \in Values, uptime \in Values, rest \in Seq(Byte) :
        body = Tlv(t1, enterprise) \o (Tlv(t2, agent) \o (
               Tlv(t3, generic) \o (Tlv(t4, specific) \o (
               Tlv(t5, uptime) \o rest))))
  BY Zenon DEF IsV1
<1> DEFINE r5 == rest
           r4 == Tlv(t5, uptime) \o r5
           r3 == Tlv(t4, specific) \o r4
           r2 == Tlv(t3, generic) \o r3
           r1 == Tlv(t2, agent) \o r2
           r0 == Tlv(t1, enterprise) \o r1
           read1 == ReadTlv(r0, 1)
           read2 == After(r0, read1)
           read3 == After(r0, read2)
           read4 == After(r0, read3)
           read5 == After(r0, read4)
           all == <<read1, read2, read3, read4, read5>>
<1>2. /\ Tlv(t1, enterprise) \in Seq(Byte)
      /\ Tlv(t2, agent) \in Seq(Byte)
      /\ Tlv(t3, generic) \in Seq(Byte)
      /\ Tlv(t4, specific) \in Seq(Byte)
      /\ Tlv(t5, uptime) \in Seq(Byte)
  BY TlvBytes DEF Values
<1>3. /\ r5 \in Seq(Byte) /\ r4 \in Seq(Byte) /\ r3 \in Seq(Byte)
      /\ r2 \in Seq(Byte) /\ r1 \in Seq(Byte)
  BY <1>2, Joined
<1>4. body = r0
  BY <1>1
<1> HIDE DEF r1, r2, r3, r4, r5
<1>5. /\ r0 = Tlv(t1, enterprise) \o r1
      /\ r1 = Tlv(t2, agent) \o r2
      /\ r2 = Tlv(t3, generic) \o r3
      /\ r3 = Tlv(t4, specific) \o r4
      /\ r4 = Tlv(t5, uptime) \o r5
  BY DEF r1, r2, r3, r4
<1> HIDE DEF r0, read1, read2, read3, read4, read5
<1>6. IsField(read1, t1, enterprise) /\ Reached(r0, read1, r1)
  BY <1>3, <1>5, ReadsStart DEF read1
<1>7. IsField(read2, t2, agent) /\ Reached(r0, read2, r2)
  BY <1>3, <1>5, <1>6, ReadsOn DEF read2
<1>8. IsField(read3, t3, generic) /\ Reached(r0, read3, r3)
  BY <1>3, <1>5, <1>7, ReadsOn DEF read3
<1>9. IsField(read4, t4, specific) /\ Reached(r0, read4, r4)
  BY <1>3, <1>5, <1>8, ReadsOn DEF read4
<1>10. IsField(read5, t5, uptime) /\ Reached(r0, read5, r5)
  BY <1>3, <1>5, <1>9, ReadsOn DEF read5
<1>11. Fields(r0, 5) = IF all[5].ok THEN SubSeq(all, 1, 5) ELSE <<>>
  BY DEF Fields, read1, read2, read3, read4, read5
<1>12. /\ all[1] = read1 /\ all[5] = read5
      /\ Len(all) = 5 /\ all \in Seq({read1, read2, read3, read4, read5})
  OBVIOUS
<1> HIDE DEF all
<1>13. Fields(r0, 5) = SubSeq(all, 1, 5)
  BY <1>10, <1>11, <1>12 DEF IsField
<1>14. /\ SubSeq(all, 1, 5)[1] = all[1] /\ SubSeq(all, 1, 5)[5] = all[5]
      /\ SubSeq(all, 1, 5) # <<>>
  BY <1>12, Slices
<1> QED
  BY <1>4, <1>6, <1>10, <1>12, <1>13, <1>14 DEF IsField

(* and the fourth field of a v2c PDU holds its varbinds. *)
LEMMA V2Read ==
  ASSUME NEW body, NEW varbinds \in Values, IsV2(body, varbinds)
  PROVE  Fields(body, 4) # <<>> /\ Fields(body, 4)[4].value = varbinds
<1>1. PICK t1 \in Byte, t2 \in Byte, t3 \in Byte, t4 \in Byte, request \in Values,
           status \in Values, index \in Values, rest \in Seq(Byte) :
        body = Tlv(t1, request) \o (Tlv(t2, status) \o (
               Tlv(t3, index) \o (Tlv(t4, varbinds) \o rest)))
  BY Zenon DEF IsV2
<1> DEFINE r4 == rest
           r3 == Tlv(t4, varbinds) \o r4
           r2 == Tlv(t3, index) \o r3
           r1 == Tlv(t2, status) \o r2
           r0 == Tlv(t1, request) \o r1
           read1 == ReadTlv(r0, 1)
           read2 == After(r0, read1)
           read3 == After(r0, read2)
           read4 == After(r0, read3)
           read5 == After(r0, read4)
           all == <<read1, read2, read3, read4, read5>>
<1>2. /\ Tlv(t1, request) \in Seq(Byte)
      /\ Tlv(t2, status) \in Seq(Byte)
      /\ Tlv(t3, index) \in Seq(Byte)
      /\ Tlv(t4, varbinds) \in Seq(Byte)
  BY TlvBytes DEF Values
<1>3. r4 \in Seq(Byte) /\ r3 \in Seq(Byte) /\ r2 \in Seq(Byte) /\ r1 \in Seq(Byte)
  BY <1>2, Joined
<1>4. body = r0
  BY <1>1
<1> HIDE DEF r1, r2, r3, r4
<1>5. /\ r0 = Tlv(t1, request) \o r1
      /\ r1 = Tlv(t2, status) \o r2
      /\ r2 = Tlv(t3, index) \o r3
      /\ r3 = Tlv(t4, varbinds) \o r4
  BY DEF r1, r2, r3
<1> HIDE DEF r0, read1, read2, read3, read4, read5
<1>6. IsField(read1, t1, request) /\ Reached(r0, read1, r1)
  BY <1>3, <1>5, ReadsStart DEF read1
<1>7. IsField(read2, t2, status) /\ Reached(r0, read2, r2)
  BY <1>3, <1>5, <1>6, ReadsOn DEF read2
<1>8. IsField(read3, t3, index) /\ Reached(r0, read3, r3)
  BY <1>3, <1>5, <1>7, ReadsOn DEF read3
<1>9. IsField(read4, t4, varbinds) /\ Reached(r0, read4, r4)
  BY <1>3, <1>5, <1>8, ReadsOn DEF read4
<1>10. Fields(r0, 4) = IF all[4].ok THEN SubSeq(all, 1, 4) ELSE <<>>
  BY DEF Fields, read1, read2, read3, read4, read5
<1>11. /\ all[1] = read1 /\ all[4] = read4
      /\ Len(all) = 5 /\ all \in Seq({read1, read2, read3, read4, read5})
  OBVIOUS
<1> HIDE DEF all
<1>12. Fields(r0, 4) = SubSeq(all, 1, 4)
  BY <1>9, <1>10, <1>11 DEF IsField
<1>13. /\ SubSeq(all, 1, 4)[1] = all[1] /\ SubSeq(all, 1, 4)[4] = all[4]
      /\ SubSeq(all, 1, 4) # <<>>
  BY <1>11, Slices
<1> QED
  BY <1>4, <1>6, <1>9, <1>11, <1>12, <1>13 DEF IsField

(* What a sequence begins with is the first field read from it. *)
LEMMA BeginningRead ==
  ASSUME NEW data, NEW value \in Values, Begins(data, value)
  PROVE  data # <<>> /\ Fields(data, 1) # <<>> /\ Fields(data, 1)[1].value = value
<1>1. PICK tag \in Byte, rest \in Seq(Byte) : data = Tlv(tag, value) \o rest
  BY Zenon DEF Begins
<1>2. Fields(data, 1) # <<>> /\ IsField(Fields(data, 1)[1], tag, value)
  BY <1>1, FieldsOne
<1>3. data # <<>>
  BY <1>1, NotEmpty
<1> QED
  BY <1>2, <1>3 DEF IsField

(* A message of any version and community is handed to the decoder its PDU is *)
(* for.                                                                       *)
LEMMA PduFound ==
  ASSUME NEW tag \in Byte, NEW body \in Values, NEW content \in Values, NEW trailing \in Seq(Byte),
         Carries(content, tag, body)
  PROVE  DecodeTrap(Tlv(48, content) \o trailing) =
           IF tag = 167 THEN DecodeV2(body)
           ELSE IF tag = 164 THEN DecodeV1(body)
           ELSE TrapAlert(<<>>)
<1> DEFINE data == Tlv(48, content) \o trailing
           outer == Fields(data, 1)
           inner == Fields(content, 3)
<1>1. 48 \in Byte
  BY SmallNumbers
<1>2. outer # <<>> /\ IsField(outer[1], 48, content)
  BY <1>1, FieldsOne
<1>3. inner # <<>> /\ IsField(inner[3], tag, body)
  BY ContentRead
<1>4. /\ outer[1].tag = 48 /\ outer[1].value = content
      /\ inner[3].tag = tag /\ inner[3].value = body
  BY <1>2, <1>3 DEF IsField
<1>5. Fields(outer[1].value, 3) = inner
  BY <1>4
<1> QED
  BY <1>2, <1>3, <1>4, <1>5 DEF DecodeTrap

(* A v1 trap is published with its enterprise, whatever its fields hold, as   *)
(* long as one byte counts their bytes.                                       *)
THEOREM V1ShowsEnterprise ==
  ASSUME NEW content \in Values, NEW body \in Values, NEW enterprise \in Values,
         NEW trailing \in Seq(Byte),
         Carries(content, 164, body), IsV1(body, enterprise)
  PROVE  DecodeTrap(Tlv(48, content) \o trailing) = TrapAlert(DecodeOid(enterprise))
<1>1. 164 \in Byte /\ 164 # 167
  BY SmallNumbers
<1>2. DecodeTrap(Tlv(48, content) \o trailing) = DecodeV1(body)
  BY <1>1, PduFound
<1> QED
  BY <1>2, V1Read DEF DecodeV1

(* A v2c trap is published with the name of its first varbind, whatever the   *)
(* other varbinds and their values are.                                       *)
THEOREM V2ShowsFirstName ==
  ASSUME NEW content \in Values, NEW body \in Values, NEW varbinds \in Values,
         NEW varbind \in Values, NEW name \in Values, NEW trailing \in Seq(Byte),
         Carries(content, 167, body), IsV2(body, varbinds),
         Begins(varbinds, varbind), Begins(varbind, name)
  PROVE  DecodeTrap(Tlv(48, content) \o trailing) = TrapAlert(DecodeOid(name))
<1>1. 167 \in Byte
  BY SmallNumbers
<1>2. DecodeTrap(Tlv(48, content) \o trailing) = DecodeV2(body)
  BY <1>1, PduFound
<1>3. Fields(body, 4) # <<>> /\ Fields(body, 4)[4].value = varbinds
  BY V2Read
<1>4. /\ varbinds # <<>> /\ Fields(varbinds, 1) # <<>>
      /\ Fields(varbinds, 1)[1].value = varbind
  BY BeginningRead
<1>5. /\ varbind # <<>> /\ Fields(varbind, 1) # <<>>
      /\ Fields(varbind, 1)[1].value = name
  BY BeginningRead
<1>6. DecodeV2(body) = TrapAlert(DecodeOid(name))
  BY <1>3, <1>4, <1>5 DEF DecodeV2
<1> QED
  BY <1>2, <1>6

(* A v2c trap without varbinds is published without a name. *)
LEMMA BareShowsNothing ==
  ASSUME NEW content \in Values, NEW body \in Values, NEW trailing \in Seq(Byte),
         Carries(content, 167, body), IsV2(body, <<>>)
  PROVE  DecodeTrap(Tlv(48, content) \o trailing) = TrapAlert(<<>>)
<1>1. 167 \in Byte /\ <<>> \in Values
  BY SmallNumbers DEF Values, Fits
<1>2. DecodeTrap(Tlv(48, content) \o trailing) = DecodeV2(body)
  BY <1>1, PduFound
<1> QED
  BY <1>1, <1>2, V2Read DEF DecodeV2

(***************************************************************************)
(* Object identifiers: the decoder undoes what the encoder did.            *)
(***************************************************************************)
(* What the decoder knows: arcs, and the bits of the next one. *)
Known == [arcs : Seq(Nat), value : Nat]

(* It still knows as much behind a byte. *)
LEMMA DecodeByteKnows ==
  ASSUME NEW known \in Known, NEW byte \in Byte
  PROVE  DecodeByte(known, byte) \in Known
<1> DEFINE v == (known.value * 128) + (byte % 128)
<1>1. v \in Nat
  BY DEF Known, Byte
<1>2. known.arcs \in Seq(Nat) /\ Append(known.arcs, v) \in Seq(Nat)
  BY <1>1 DEF Known
<1> HIDE DEF v
<1>3. DecodeByte(known, byte) = IF byte < 128 THEN [arcs |-> Append(known.arcs, v), value |-> 0]
     ELSE [arcs |-> known.arcs, value |-> v]
  BY DEF DecodeByte, v
<1> QED
  BY <1>1, <1>2, <1>3 DEF Known

(* The decoder reads byte by byte. *)
LEMMA DecodingSteps ==
  ASSUME NEW raw \in Seq(Byte), raw # <<>>
  PROVE  /\ Decoding(raw) \in [1 .. Len(raw) -> Known]
         /\ Decoding(raw)[1] = [arcs |-> <<raw[1] \div 40, raw[1] % 40>>, value |-> 0]
         /\ \A i \in 2 .. Len(raw) :
              Decoding(raw)[i] = DecodeByte(Decoding(raw)[i - 1], raw[i])
<1> DEFINE first == [arcs |-> <<raw[1] \div 40, raw[1] % 40>>, value |-> 0]
           byte(i) == IF i \in 1 .. Len(raw) THEN raw[i] ELSE 0
           turn == [i \in Nat |-> [k \in Known |-> DecodeByte(k, byte(i))]]
           Is(f) == f = [i \in 1 .. Len(raw) |-> IF i = 1 THEN first ELSE DecodeByte(f[i - 1], raw[i])]
<1>1. first \in Known
  <2>1. raw[1] \in Byte
    OBVIOUS
  <2>2. \A b \in Byte : b \div 40 \in Nat /\ b % 40 \in Nat
    BY DEF Byte
  <2>3. raw[1] \div 40 \in Nat /\ raw[1] % 40 \in Nat
    BY <2>1, <2>2
  <2> QED
    BY <2>3 DEF Known
<1>2. ASSUME NEW i \in Nat PROVE byte(i) \in Byte
  <2>1. 0 \in Byte
    BY DEF Byte
  <2> QED
    BY <2>1
<1> HIDE DEF byte, first
<1>3. turn \in [Nat -> [Known -> Known]]
  BY <1>2, DecodeByteKnows
<1>4. Len(raw) \in Nat /\ Len(raw) # 0
  OBVIOUS
<1>5. PICK f \in [1 .. Len(raw) -> Known] : Iterates(f, Len(raw), first, turn)
  <2> HIDE DEF turn
  <2> QED
    BY <1>1, <1>3, <1>4, IterationExists
<1>6. ASSUME NEW i \in 1 .. Len(raw), i # 1
      PROVE  turn[i][f[i - 1]] = DecodeByte(f[i - 1], raw[i])
  <2>1. i - 1 \in 1 .. Len(raw) /\ i \in Nat
    BY <1>4, <1>6
  <2>2. f[i - 1] \in Known
    BY <2>1
  <2> QED
    BY <2>1, <2>2 DEF byte
<1>7. Is(f)
  <2>1. ASSUME NEW i \in 1 .. Len(raw)
        PROVE f[i] = IF i = 1 THEN first ELSE DecodeByte(f[i - 1], raw[i])
    <3>1. f[i] = IF i = 1 THEN first ELSE turn[i][f[i - 1]]
      BY <1>5 DEF Iterates
    <3> QED
      BY <1>6, <3>1
  <2> QED
    BY <2>1
<1>8. Is(Decoding(raw))
  BY <1>7 DEF Decoding, first
<1> DEFINE d == Decoding(raw)
<1> HIDE DEF d
<1>9. /\ d = [i \in 1 .. Len(raw) |-> d[i]]
      /\ d[1] = first
      /\ \A i \in 2 .. Len(raw) : d[i] = DecodeByte(d[i - 1], raw[i])
  BY <1>4, <1>8 DEF d
<1>10. \A i \in 1 .. Len(raw) : d[i] \in Known
  <2> DEFINE S == {k \in Nat : k + 1 \in 1 .. Len(raw) => d[k + 1] \in Known}
  <2>1. 0 \in S
    BY <1>1, <1>9
  <2>2. ASSUME NEW k \in S PROVE k + 1 \in S
    <3> SUFFICES ASSUME k + 2 \in 1 .. Len(raw) PROVE d[k + 2] \in Known
      BY <2>2
    <3>1. k \in Nat /\ k + 1 \in 1 .. Len(raw) /\ k + 2 \in 2 .. Len(raw) /\ (k + 2) - 1 = k + 1
      BY <2>2, <1>4
    <3>2. d[k + 1] \in Known
      BY <2>2, <3>1
    <3>3. d[k + 2] = DecodeByte(d[k + 1], raw[k + 2])
      BY <1>9, <3>1
    <3>4. raw[k + 2] \in Byte
      OBVIOUS
    <3> QED
      BY <3>2, <3>3, <3>4, DecodeByteKnows
  <2> HIDE DEF S
  <2>3. S = Nat
    <3>1. S \in SUBSET Nat
      BY DEF S
    <3> QED
      BY <2>1, <2>2, <3>1, Induction
  <2>4. ASSUME NEW i \in 1 .. Len(raw) PROVE d[i] \in Known
    <3>1. i - 1 \in S /\ (i - 1) + 1 = i
      BY <1>4, <2>3
    <3> QED
      BY <3>1 DEF S
  <2> QED
    BY <2>4
<1> QED
  BY <1>9, <1>10 DEF d, first

(* An arc of 32 bits: four septets, and four bits before them *)
Arc == {n \in Nat : (((n \div 128) \div 128) \div 128) \div 128 < 16}

(* is encoded in bytes, at least one, *)
LEMMA ArcBytes ==
  ASSUME NEW arc \in Arc
  PROVE  EncodeArc(arc) \in Seq(Byte) /\ Len(EncodeArc(arc)) \in 1 .. 5
<1> DEFINE a == arc \div 128
           b == a \div 128
           c == b \div 128
           d == c \div 128
           e == arc % 128
           high(n) == 128 + (n % 128)
<1>1. arc \in Nat /\ a \in Nat /\ b \in Nat /\ c \in Nat /\ d \in Nat
  BY DEF Arc
<1>2. a = 0 => arc \in Byte
  BY <1>1 DEF Byte
<1>3. ASSUME NEW n \in Nat PROVE high(n) \in Byte
  BY DEF Byte
<1>4. e \in Byte
  BY <1>1 DEF Byte
<1>5. EncodeArc(arc) =
        IF a = 0 THEN <<arc>>
        ELSE IF b = 0 THEN <<high(a), e>>
        ELSE IF c = 0 THEN <<high(b), high(a), e>>
        ELSE IF d = 0 THEN <<high(c), high(b), high(a), e>>
        ELSE <<high(d), high(c), high(b), high(a), e>>
  BY DEF EncodeArc
<1>6. high(a) \in Byte /\ high(b) \in Byte /\ high(c) \in Byte /\ high(d) \in Byte
  BY <1>1, <1>3
<1> HIDE DEF a, b, c, d, high, e
<1> QED
  BY <1>2, <1>4, <1>5, <1>6

(* A septet, and what is left of the number without it *)
LEMMA Septets ==
  ASSUME NEW n \in Nat
  PROVE  /\ n \div 128 \in Nat /\ n % 128 \in Nat /\ n % 128 < 128
         /\ (128 + (n % 128)) % 128 = n % 128 /\ (n % 128) % 128 = n % 128
         /\ ((n \div 128) * 128) + (n % 128) = n
         /\ n \div 128 = 0 => n < 128
  OBVIOUS

(* The high bits of a number are known, and then its next septet. *)
LEMMA SeptetRead ==
  ASSUME NEW arcs \in Seq(Nat), NEW n \in Nat
  PROVE  /\ DecodeByte([arcs |-> arcs, value |-> n \div 128], 128 + (n % 128)) = [arcs |-> arcs, value |-> n]
         /\ DecodeByte([arcs |-> arcs, value |-> n \div 128], n % 128) = [arcs |-> Append(arcs, n), value |-> 0]
<1>1. /\ ~(128 + (n % 128) < 128) /\ n % 128 < 128
      /\ ((n \div 128) * 128) + ((128 + (n % 128)) % 128) = n
      /\ ((n \div 128) * 128) + ((n % 128) % 128) = n
  BY Septets
<1> QED
  BY <1>1 DEF DecodeByte

(* The decoder reads the bytes of an arc as that arc. *)
LEMMA ArcRead ==
  ASSUME NEW arc \in Arc, NEW arcs \in Seq(Nat), NEW raw \in Seq(Byte), NEW p \in 1 .. Len(raw),
         p + Len(EncodeArc(arc)) <= Len(raw),
         \A j \in 1 .. Len(EncodeArc(arc)) : raw[p + j] = EncodeArc(arc)[j],
         Decoding(raw)[p] = [arcs |-> arcs, value |-> 0]
  PROVE  Decoding(raw)[p + Len(EncodeArc(arc))] = [arcs |-> Append(arcs, arc), value |-> 0]
<1> DEFINE a == arc \div 128
           b == a \div 128
           c == b \div 128
           d == c \div 128
           high(n) == 128 + (n % 128)
           known(n) == [arcs |-> arcs, value |-> n]
           done == [arcs |-> Append(arcs, arc), value |-> 0]
           D(j) == Decoding(raw)[p + j]
           code == EncodeArc(arc)
<1>1. /\ arc \in Nat /\ a \in Nat /\ b \in Nat /\ c \in Nat /\ d \in Nat
      /\ d \div 128 = 0
  <2>1. arc \in Nat /\ d < 16
    BY DEF Arc
  <2>2. a \in Nat /\ b \in Nat /\ c \in Nat /\ d \in Nat
    BY <2>1
  <2> HIDE DEF a, b, c, d
  <2>3. d \div 128 = 0
    BY <2>1, <2>2
  <2> QED
    BY <2>1, <2>2, <2>3
<1>2. ASSUME NEW n \in Nat
      PROVE  DecodeByte(known(n \div 128), high(n)) = known(n)
  BY <1>2, SeptetRead
<1>3. DecodeByte(known(a), arc % 128) = done
  <2>1. \A n \in Nat : DecodeByte([arcs |-> arcs, value |-> n \div 128], n % 128)
                         = [arcs |-> Append(arcs, n), value |-> 0]
    BY SeptetRead
  <2>2. DecodeByte([arcs |-> arcs, value |-> arc \div 128], arc % 128)
          = [arcs |-> Append(arcs, arc), value |-> 0]
    BY <1>1, <2>1, Zenon
  <2> QED
    BY <2>2
<1>4. /\ DecodeByte(known(b), high(a)) = known(a)
      /\ DecodeByte(known(c), high(b)) = known(b)
      /\ DecodeByte(known(d), high(c)) = known(c)
      /\ DecodeByte(known(0), high(d)) = known(d)
  <2> HIDE DEF known, high
  <2>1. DecodeByte(known(d \div 128), high(d)) = known(d)
    BY <1>1, <1>2
  <2> QED
    BY <1>1, <1>2, <2>1
<1>5. code = IF a = 0 THEN <<arc>>
             ELSE IF b = 0 THEN <<high(a), arc % 128>>
             ELSE IF c = 0 THEN <<high(b), high(a), arc % 128>>
             ELSE IF d = 0 THEN <<high(c), high(b), high(a), arc % 128>>
             ELSE <<high(d), high(c), high(b), high(a), arc % 128>>
  BY DEF EncodeArc
<1>6. a = 0 => arc = arc % 128
  BY <1>1
<1>7. D(0) = known(0)
  OBVIOUS
<1>8. Len(code) \in 1 .. 5
  BY ArcBytes
<1>9. ASSUME NEW j \in 1 .. Len(code)
      PROVE  D(j) = DecodeByte(D(j - 1), code[j])
  <2>1. p + j \in 2 .. Len(raw) /\ (p + j) - 1 = p + (j - 1) /\ raw # <<>>
    BY <1>8
  <2>2. raw[p + j] = code[j]
    OBVIOUS
  <2>3. Decoding(raw)[p + j] = DecodeByte(Decoding(raw)[(p + j) - 1], raw[p + j])
    BY <2>1, DecodingSteps
  <2> QED
    BY <2>1, <2>2, <2>3
<1> SUFFICES D(Len(code)) = done
  OBVIOUS
<1> HIDE DEF D, code, known, done, high, a, b, c, d
<1>10. CASE a = 0
  <2>1. Len(code) = 1 /\ code[1] = arc % 128
    BY <1>5, <1>6, <1>10
  <2>2. D(1) = DecodeByte(D(0), code[1])
    BY <1>9, <2>1
  <2> QED
    BY <1>3, <1>7, <1>10, <2>1, <2>2
<1>11. CASE a # 0 /\ b = 0
  <2>1. Len(code) = 2 /\ code[1] = high(a) /\ code[2] = arc % 128
    BY <1>5, <1>11
  <2>2. D(1) = DecodeByte(D(0), code[1]) /\ D(2) = DecodeByte(D(1), code[2])
    BY <1>9, <2>1
  <2> QED
    BY <1>3, <1>4, <1>7, <1>11, <2>1, <2>2
<1>12. CASE a # 0 /\ b # 0 /\ c = 0
  <2>1. Len(code) = 3 /\ code[1] = high(b) /\ code[2] = high(a) /\ code[3] = arc % 128
    BY <1>5, <1>12
  <2>2. /\ D(1) = DecodeByte(D(0), code[1]) /\ D(2) = DecodeByte(D(1), code[2])
        /\ D(3) = DecodeByte(D(2), code[3])
    BY <1>9, <2>1
  <2> QED
    BY <1>3, <1>4, <1>7, <1>12, <2>1, <2>2
<1>13. CASE a # 0 /\ b # 0 /\ c # 0 /\ d = 0
  <2>1. /\ Len(code) = 4 /\ code[1] = high(c) /\ code[2] = high(b) /\ code[3] = high(a)
        /\ code[4] = arc % 128
    BY <1>5, <1>13
  <2>2. /\ D(1) = DecodeByte(D(0), code[1]) /\ D(2) = DecodeByte(D(1), code[2])
        /\ D(3) = DecodeByte(D(2), code[3]) /\ D(4) = DecodeByte(D(3), code[4])
    BY <1>9, <2>1
  <2> QED
    BY <1>3, <1>4, <1>7, <1>13, <2>1, <2>2
<1>14. CASE a # 0 /\ b # 0 /\ c # 0 /\ d # 0
  <2>1. /\ Len(code) = 5 /\ code[1] = high(d) /\ code[2] = high(c) /\ code[3] = high(b)
        /\ code[4] = high(a) /\ code[5] = arc % 128
    BY <1>5, <1>14
  <2>2. /\ D(1) = DecodeByte(D(0), code[1]) /\ D(2) = DecodeByte(D(1), code[2])
        /\ D(3) = DecodeByte(D(2), code[3]) /\ D(4) = DecodeByte(D(3), code[4])
        /\ D(5) = DecodeByte(D(4), code[5])
    BY <1>9, <2>1
  <2> QED
    BY <1>3, <1>4, <1>7, <2>1, <2>2
<1> QED
  BY <1>10, <1>11, <1>12, <1>13, <1>14

(* The identifiers an agent may send: two arcs in a byte, and arcs of 32 bits *)
Oids ==
  {oid \in Seq(Nat) : /\ Len(oid) >= 2 /\ oid[1] <= 2 /\ oid[2] < 40
                      /\ \A i \in 3 .. Len(oid) : oid[i] \in Arc}

(* The bytes of the arcs one after the other *)
LEMMA EncodingSteps ==
  ASSUME NEW oid \in Oids
  PROVE  /\ Encoding(oid) \in [2 .. Len(oid) -> Seq(Byte)]
         /\ Encoding(oid)[2] = <<(40 * oid[1]) + oid[2]>>
         /\ \A i \in 3 .. Len(oid) : Encoding(oid)[i] = Encoding(oid)[i - 1] \o EncodeArc(oid[i])
<1> DEFINE n == Len(oid)
           first == <<(40 * oid[1]) + oid[2]>>
           code(i) == IF i \in 3 .. n THEN EncodeArc(oid[i]) ELSE <<>>
           turn == [i \in Nat |-> [s \in Seq(Byte) |-> s \o code(i + 1)]]
           Is(f) == f = [i \in 2 .. n |-> IF i = 2 THEN first ELSE f[i - 1] \o EncodeArc(oid[i])]
<1>1. n \in Nat /\ n >= 2 /\ \A i \in 3 .. n : oid[i] \in Arc
  BY DEF Oids
<1>2. first \in Seq(Byte)
  <2>1. oid[1] \in 0 .. 2 /\ oid[2] \in 0 .. 39
    <3>1. oid[1] \in Nat /\ oid[2] \in Nat /\ oid[1] <= 2 /\ oid[2] < 40
      BY DEF Oids
    <3> QED
      BY <3>1
  <2>2. (40 * oid[1]) + oid[2] \in Byte
    BY <2>1 DEF Byte
  <2> QED
    BY <2>2
<1>3. ASSUME NEW i \in Nat PROVE code(i) \in Seq(Byte)
  BY <1>1, ArcBytes
<1> HIDE DEF code, first, n
<1>4. turn \in [Nat -> [Seq(Byte) -> Seq(Byte)]]
  <2>1. ASSUME NEW i \in Nat, NEW s \in Seq(Byte) PROVE s \o code(i + 1) \in Seq(Byte)
    BY <1>3
  <2> QED
    BY <2>1
<1>5. PICK f \in [1 .. n - 1 -> Seq(Byte)] : Iterates(f, n - 1, first, turn)
  <2> HIDE DEF turn
  <2>1. n - 1 \in Nat
    BY <1>1
  <2> QED
    BY <1>2, <1>4, <2>1, IterationExists
<1> DEFINE g == [i \in 2 .. n |-> f[i - 1]]
<1>6. ASSUME NEW i \in 2 .. n PROVE g[i] = IF i = 2 THEN first ELSE g[i - 1] \o EncodeArc(oid[i])
  <2>1. i - 1 \in 1 .. n - 1 /\ g[i] = f[i - 1]
    BY <1>1
  <2>2. f[i - 1] = IF i - 1 = 1 THEN first ELSE turn[i - 1][f[(i - 1) - 1]]
    BY <1>5, <2>1 DEF Iterates
  <2>3. CASE i = 2
    BY <2>1, <2>2, <2>3
  <2>4. CASE i # 2
    <3>1. (i - 1) - 1 \in 1 .. n - 1 /\ i - 1 \in 2 .. n /\ i - 1 # 1 /\ i \in 3 .. n
          /\ (i - 1) + 1 = i /\ i - 1 \in Nat
      BY <1>1, <2>4
    <3>2. g[i - 1] = f[(i - 1) - 1] /\ f[(i - 1) - 1] \in Seq(Byte)
      BY <3>1
    <3>3. turn[i - 1][f[(i - 1) - 1]] = f[(i - 1) - 1] \o code((i - 1) + 1)
      BY <3>1, <3>2
    <3>4. code((i - 1) + 1) = EncodeArc(oid[i])
      BY <3>1 DEF code
    <3> QED
      BY <2>1, <2>2, <2>4, <3>1, <3>2, <3>3, <3>4
  <2> QED
    BY <2>3, <2>4
<1>7. Is(g)
  BY <1>6
<1> DEFINE e == Encoding(oid)
<1>8. Is(e)
  <2> HIDE DEF g
  <2> QED
    BY <1>7 DEF Encoding, first, n
<1> HIDE DEF e, g
<1>9. /\ e = [i \in 2 .. n |-> e[i]]
      /\ e[2] = first
      /\ \A i \in 3 .. n : e[i] = e[i - 1] \o EncodeArc(oid[i])
  BY <1>1, <1>8
<1>10. \A i \in 2 .. n : e[i] \in Seq(Byte)
  <2> DEFINE S == {k \in Nat : k + 2 \in 2 .. n => e[k + 2] \in Seq(Byte)}
  <2>1. 0 \in S
    BY <1>2, <1>9
  <2>2. ASSUME NEW k \in S PROVE k + 1 \in S
    <3>1. k \in Nat /\ (k + 1) + 2 = k + 3 /\ (k + 3) - 1 = k + 2
      BY <2>2
    <3> SUFFICES ASSUME k + 3 \in 2 .. n PROVE e[k + 3] \in Seq(Byte)
      BY <3>1
    <3>2. k + 2 \in 2 .. n /\ k + 3 \in 3 .. n
      BY <3>1, <1>1
    <3>3. e[k + 2] \in Seq(Byte)
      BY <2>2, <3>2
    <3>4. e[k + 3] = e[k + 2] \o EncodeArc(oid[k + 3])
      BY <1>9, <3>1, <3>2
    <3>5. EncodeArc(oid[k + 3]) \in Seq(Byte)
      BY <1>1, <3>2, ArcBytes
    <3> QED
      BY <3>3, <3>4, <3>5
  <2> HIDE DEF S
  <2>3. S = Nat
    <3>1. S \in SUBSET Nat
      BY DEF S
    <3> QED
      BY <2>1, <2>2, <3>1, Induction
  <2>4. ASSUME NEW i \in 2 .. n PROVE e[i] \in Seq(Byte)
    <3>1. i - 2 \in S /\ (i - 2) + 2 = i
      BY <1>1, <2>3
    <3> QED
      BY <3>1 DEF S
  <2> QED
    BY <2>4
<1> QED
  BY <1>9, <1>10 DEF e, n, first

(* What the bytes of the first arcs are does not depend on the arcs behind them. *)
LEMMA EncodingGrows ==
  ASSUME NEW oid \in Oids, NEW k \in 2 .. Len(oid)
  PROVE  \A m \in k .. Len(oid) :
           /\ Len(Encoding(oid)[k]) <= Len(Encoding(oid)[m])
           /\ \A j \in 1 .. Len(Encoding(oid)[k]) : Encoding(oid)[m][j] = Encoding(oid)[k][j]
<1> DEFINE e == Encoding(oid)
           n == Len(oid)
           P(m) == /\ Len(e[k]) <= Len(e[m])
                   /\ \A j \in 1 .. Len(e[k]) : e[m][j] = e[k][j]
           S == {i \in Nat : k + i <= n => P(k + i)}
<1>1. /\ e \in [2 .. n -> Seq(Byte)] /\ n \in Nat /\ k \in Nat
      /\ \A i \in 3 .. n : e[i] = e[i - 1] \o EncodeArc(oid[i])
  <2>1. oid \in Seq(Nat)
    BY DEF Oids
  <2>2. n \in Nat /\ k \in Nat
    BY <2>1
  <2> QED
    BY <2>2, EncodingSteps
<1>2. \A i \in 3 .. n : EncodeArc(oid[i]) \in Seq(Byte)
  BY ArcBytes DEF Oids
<1> HIDE DEF e, n
<1>3. 0 \in S
  <2>1. e[k] \in Seq(Byte)
    BY <1>1 DEF n
  <2> QED
    BY <1>1, <2>1
<1>4. ASSUME NEW i \in S PROVE i + 1 \in S
  <2> SUFFICES ASSUME k + (i + 1) <= n PROVE P(k + (i + 1))
    BY <1>4
  <2>1. i \in Nat /\ k + i \in 2 .. n /\ k + (i + 1) \in 3 .. n /\ (k + (i + 1)) - 1 = k + i
    BY <1>1, <1>4 DEF n
  <2>2. P(k + i)
    BY <1>4, <2>1
  <2> DEFINE s == e[k + i]
             t == EncodeArc(oid[k + (i + 1)])
             u == e[k]
  <2>3. s \in Seq(Byte) /\ t \in Seq(Byte) /\ u \in Seq(Byte) /\ e[k + (i + 1)] = s \o t
    BY <1>1, <1>2, <2>1 DEF n
  <2> HIDE DEF s, t, u
  <2>4. /\ Len(s \o t) = Len(s) + Len(t) /\ Len(t) \in Nat /\ Len(s) \in Nat /\ Len(u) \in Nat
        /\ \A j \in 1 .. Len(s) : (s \o t)[j] = s[j]
    BY <2>3
  <2>5. Len(u) <= Len(s) /\ \A j \in 1 .. Len(u) : s[j] = u[j]
    BY <2>2 DEF s, u
  <2>6. Len(u) <= Len(s \o t) /\ \A j \in 1 .. Len(u) : (s \o t)[j] = u[j]
    BY <2>4, <2>5
  <2> QED
    BY <2>3, <2>6 DEF u
<1> HIDE DEF S, P
<1>5. S = Nat
  <2>1. S \in SUBSET Nat
    BY DEF S
  <2> QED
    BY <1>3, <1>4, <2>1, Induction
<1>6. ASSUME NEW m \in k .. n PROVE P(m)
  <2>1. m - k \in Nat /\ k + (m - k) = m /\ m <= n
    BY <1>1
  <2> QED
    BY <1>5, <2>1 DEF S
<1> QED
  BY <1>6 DEF P, e, n

(* An object identifier is decoded to the arcs it was encoded from, however   *)
(* many there are.                                                            *)
THEOREM OidRoundTrip ==
  ASSUME NEW oid \in Oids
  PROVE  EncodeOid(oid) \in Seq(Byte) /\ DecodeOid(EncodeOid(oid)) = oid
<1> DEFINE e == Encoding(oid)
           n == Len(oid)
           raw == EncodeOid(oid)
           D == Decoding(raw)
           P(k) == /\ Len(e[k]) \in 1 .. Len(raw)
                   /\ D[Len(e[k])] = [arcs |-> SubSeq(oid, 1, k), value |-> 0]
           S == {i \in Nat : i + 2 <= n => P(i + 2)}
<1>1. /\ n \in Nat /\ n >= 2 /\ oid \in Seq(Nat) /\ oid[1] \in 0 .. 2 /\ oid[2] \in 0 .. 39
      /\ \A i \in 3 .. n : oid[i] \in Arc
  <2>1. /\ oid \in Seq(Nat) /\ n >= 2 /\ oid[1] <= 2 /\ oid[2] < 40
        /\ \A i \in 3 .. n : oid[i] \in Arc
    BY DEF Oids
  <2>2. oid[1] \in Nat /\ oid[2] \in Nat /\ n \in Nat
    BY <2>1
  <2>3. oid[1] \in 0 .. 2 /\ oid[2] \in 0 .. 39
    <3>1. \A x \in Nat : (x <= 2 => x \in 0 .. 2) /\ (x < 40 => x \in 0 .. 39)
      OBVIOUS
    <3>2. oid[1] <= 2 /\ oid[2] < 40
      BY <2>1
    <3> QED
      BY <2>2, <3>1, <3>2
  <2> QED
    BY <2>1, <2>2, <2>3, Zenon
<1>2. /\ e \in [2 .. n -> Seq(Byte)]
      /\ e[2] = <<(40 * oid[1]) + oid[2]>>
      /\ \A i \in 3 .. n : e[i] = e[i - 1] \o EncodeArc(oid[i])
  BY EncodingSteps
<1>3. raw = e[n] /\ raw \in Seq(Byte)
  <2>1. raw = e[n]
    BY DEF EncodeOid
  <2>2. n \in 2 .. n
    BY <1>1
  <2> QED
    BY <1>2, <2>1, <2>2
<1>4. ASSUME NEW k \in 2 .. n
      PROVE  Len(e[k]) <= Len(raw) /\ \A j \in 1 .. Len(e[k]) : raw[j] = e[k][j]
  <2>1. n \in k .. n
    BY <1>1
  <2> QED
    BY <1>3, <2>1, EncodingGrows
<1>5. ASSUME raw # <<>>
      PROVE  D[1] = [arcs |-> <<raw[1] \div 40, raw[1] % 40>>, value |-> 0]
  BY <1>3, <1>5, DecodingSteps
<1>6. ASSUME NEW arc \in Arc, NEW arcs \in Seq(Nat), NEW p \in 1 .. Len(raw),
             p + Len(EncodeArc(arc)) <= Len(raw),
             \A j \in 1 .. Len(EncodeArc(arc)) : raw[p + j] = EncodeArc(arc)[j],
             D[p] = [arcs |-> arcs, value |-> 0]
      PROVE  D[p + Len(EncodeArc(arc))] = [arcs |-> Append(arcs, arc), value |-> 0]
  BY <1>3, <1>6, ArcRead
<1>7. DecodeOid(raw) = IF raw = <<>> THEN <<>> ELSE D[Len(raw)].arcs
  BY DEF DecodeOid
<1> HIDE DEF D, e, raw
<1>8. 0 \in S
  <2> DEFINE first == (40 * oid[1]) + oid[2]
  <2>1. first \in Nat /\ first \div 40 = oid[1] /\ first % 40 = oid[2]
    <3>1. \A a \in 0 .. 2, b \in 0 .. 39 :
            /\ (40 * a) + b \in Nat
            /\ ((40 * a) + b) \div 40 = a /\ ((40 * a) + b) % 40 = b
      OBVIOUS
    <3> QED
      BY <1>1, <3>1
  <2>2. e[2] = <<first>>
    BY <1>2
  <2> HIDE DEF first
  <2>3. Len(e[2]) = 1 /\ e[2][1] = first
    BY <2>2
  <2>4. Len(raw) >= 1 /\ raw[1] = first
    BY <1>1, <1>4, <2>3
  <2>5. D[1] = [arcs |-> <<oid[1], oid[2]>>, value |-> 0]
    <3>1. raw # <<>>
      BY <1>3, <2>4
    <3>2. D[1] = [arcs |-> <<raw[1] \div 40, raw[1] % 40>>, value |-> 0]
      BY <1>5, <3>1
    <3>3. raw[1] \div 40 = oid[1] /\ raw[1] % 40 = oid[2]
      BY <2>1, <2>4
    <3> QED
      BY <3>2, <3>3, Zenon
  <2>6. SubSeq(oid, 1, 2) = <<oid[1], oid[2]>>
    <3> DEFINE s == SubSeq(oid, 1, 2)
    <3>1. s \in Seq(Nat) /\ Len(s) = 2 /\ s[1] = oid[1] /\ s[2] = oid[2]
      BY <1>1
    <3> HIDE DEF s
    <3>2. s = <<s[1], s[2]>>
      BY <3>1
    <3> QED
      BY <3>1, <3>2 DEF s
  <2>7. P(2)
    BY <1>3, <2>3, <2>4, <2>5, <2>6
  <2> QED
    BY <2>7
<1>9. ASSUME NEW i \in S PROVE i + 1 \in S
  <2>0. i \in Nat /\ (i + 1) + 2 = i + 3
    BY <1>9
  <2> HIDE DEF P
  <2> SUFFICES ASSUME i + 3 <= n PROVE P(i + 3)
    BY <2>0
  <2> USE DEF P
  <2> DEFINE k == i + 2
             arc == oid[i + 3]
             code == EncodeArc(arc)
             p == Len(e[k])
  <2>1. i \in Nat /\ k \in 2 .. n /\ i + 3 \in 3 .. n /\ (i + 3) - 1 = k
    BY <1>1, <1>9
  <2>2. p \in 1 .. Len(raw) /\ D[p] = [arcs |-> SubSeq(oid, 1, k), value |-> 0]
    BY <1>9, <2>1
  <2>3. arc \in Arc /\ e[i + 3] = e[k] \o code /\ e[k] \in Seq(Byte)
    BY <1>1, <1>2, <2>1
  <2>4. code \in Seq(Byte) /\ Len(code) \in 1 .. 5
    BY <2>3, ArcBytes
  <2>5. /\ Len(e[i + 3]) = p + Len(code)
        /\ \A j \in 1 .. Len(code) : e[i + 3][p + j] = code[j]
    <3> DEFINE s == e[k]
    <3> HIDE DEF code
    <3>1. s \in Seq(Byte) /\ code \in Seq(Byte) /\ e[i + 3] = s \o code
      BY <2>3, <2>4
    <3> HIDE DEF s
    <3>2. /\ Len(s \o code) = Len(s) + Len(code)
          /\ \A j \in 1 .. Len(code) : (s \o code)[Len(s) + j] = code[j]
      BY <3>1
    <3> QED
      BY <3>1, <3>2 DEF s
  <2>6. p + Len(code) <= Len(raw) /\ \A j \in 1 .. Len(code) : raw[p + j] = code[j]
    <3>1. Len(e[i + 3]) <= Len(raw) /\ \A j \in 1 .. Len(e[i + 3]) : raw[j] = e[i + 3][j]
      BY <1>4, <2>1
    <3> HIDE DEF p, code
    <3>2. \A j \in 1 .. Len(code) : p + j \in 1 .. Len(e[i + 3])
      <4>1. p \in Nat
        BY <1>3, <2>2
      <4> QED
        BY <2>4, <2>5, <4>1
    <3> QED
      BY <2>5, <3>1, <3>2
  <2>7. SubSeq(oid, 1, k) \in Seq(Nat)
    BY <1>1, <2>1
  <2>8. D[p + Len(code)] = [arcs |-> Append(SubSeq(oid, 1, k), arc), value |-> 0]
    BY <1>6, <2>2, <2>3, <2>6, <2>7
  <2>9. Append(SubSeq(oid, 1, k), arc) = SubSeq(oid, 1, i + 3)
    BY <1>1, <2>1
  <2>10. Len(e[i + 3]) \in 1 .. Len(raw)
    <3> HIDE DEF p, code
    <3> QED
      BY <1>3, <2>2, <2>4, <2>5, <2>6
  <2> QED
    BY <2>5, <2>8, <2>9, <2>10
<1> HIDE DEF S, P
<1>10. S = Nat
  <2>1. S \in SUBSET Nat
    BY DEF S
  <2> QED
    BY <1>8, <1>9, <2>1, Induction
<1>11. P(n)
  <2>1. n - 2 \in Nat /\ (n - 2) + 2 = n /\ n <= n
    BY <1>1
  <2>2. n - 2 \in S
    BY <1>10, <2>1
  <2> HIDE DEF n
  <2> QED
    BY <2>1, <2>2 DEF S
<1>12. SubSeq(oid, 1, n) = oid
  BY <1>1
<1> QED
  BY <1>1, <1>3, <1>7, <1>11, <1>12 DEF P, raw

-----------------------------------------------------------------------------
(***************************************************************************)
(* Lines of syslog, and their priority.                                    *)
(***************************************************************************)
(* A line is pieces. *)
Lines == Seq(STRING)

(* They are numbered from 1. *)
LEMMA LineIndices ==
  ASSUME NEW line \in Lines
  PROVE  Len(line) \in Nat /\ DOMAIN line = 1 .. Len(line)
BY DEF Lines

(* strip takes the blanks away: all of them if there is nothing else, *)
LEMMA StripBlank ==
  ASSUME NEW line \in Lines, \A m \in 1 .. Len(line) : line[m] = "blank"
  PROVE  Strip(line) = <<>>
BY LineIndices DEF Strip

(* or those before the first and behind the last piece that is none. *)
LEMMA StripBounds ==
  ASSUME NEW line \in Lines, NEW m \in 1 .. Len(line), line[m] # "blank"
  PROVE  \E a, b \in 1 .. Len(line) :
           /\ a <= b /\ line[a] # "blank" /\ line[b] # "blank"
           /\ \A i \in 1 .. Len(line) : i < a \/ b < i => line[i] = "blank"
           /\ Strip(line) = SubSeq(line, a, b)
<1> DEFINE text == {i \in DOMAIN line : line[i] # "blank"}
           IsFirst(i) == i \in text /\ \A j \in text : i <= j
           IsLast(i) == i \in text /\ \A j \in text : j <= i
           a == CHOOSE i \in text : \A j \in text : i <= j
           b == CHOOSE i \in text : \A j \in text : j <= i
<1>1. Len(line) \in Nat /\ DOMAIN line = 1 .. Len(line)
  BY LineIndices
<1>2. text # {} /\ text \in SUBSET Nat /\ text \in SUBSET (0 .. Len(line))
  BY <1>1
<1>3. Strip(line) = SubSeq(line, a, b)
  BY <1>2 DEF Strip
<1>4. \E i \in text : \A j \in text : i <= j
  BY <1>2, Least
<1>5. \E i \in text : \A j \in text : j <= i
  BY <1>1, <1>2, Greatest
<1>6. IsFirst(a) /\ IsLast(b)
  BY <1>4, <1>5
<1> HIDE DEF a, b
<1>7. a \in 1 .. Len(line) /\ b \in 1 .. Len(line) /\ line[a] # "blank" /\ line[b] # "blank" /\ a <= b
  BY <1>6
<1>8. ASSUME NEW i \in 1 .. Len(line), i < a \/ b < i PROVE line[i] = "blank"
  BY <1>1, <1>6, <1>7, <1>8
<1> QED
  BY <1>3, <1>7, <1>8

(* The pieces of a slice *)
LEMMA SlicePieces ==
  ASSUME NEW line \in Lines, NEW a \in 1 .. Len(line) + 1, NEW b \in a - 1 .. Len(line)
  PROVE  /\ SubSeq(line, a, b) \in Lines /\ Len(SubSeq(line, a, b)) = b - a + 1
         /\ \A i \in 1 .. b - a + 1 : SubSeq(line, a, b)[i] = line[a + i - 1]
BY DEF Lines

(* A slice of one piece *)
LEMMA SliceOfOne ==
  ASSUME NEW line \in Lines, NEW a \in 1 .. Len(line)
  PROVE  SubSeq(line, a, a) = <<line[a]>>
<1> DEFINE s == SubSeq(line, a, a)
<1>1. s \in Lines /\ Len(s) = 1 /\ s[1] = line[a]
  <2>1. a \in 1 .. Len(line) + 1 /\ a \in a - 1 .. Len(line) /\ a - a + 1 = 1 /\ a + 1 - 1 = a
    BY LineIndices
  <2> QED
    BY <2>1, SlicePieces
<1> HIDE DEF s
<1>2. s = <<s[1]>>
  BY <1>1 DEF Lines
<1> QED
  BY <1>1, <1>2 DEF s

(* A line that begins, blanks apart, with a run of digits in angle brackets *)
(* has their value for its priority.                                        *)
Prioritised(line, digits) ==
  \E i, k, j \in 1 .. Len(line) :
    /\ i < k /\ k < j
    /\ line[i] = "open" /\ line[k] = digits /\ line[j] = "close"
    /\ \A m \in 1 .. j - 1 : m \notin {i, k} => line[m] = "blank"
Blank(line) == \A m \in 1 .. Len(line) : line[m] = "blank"

(* The priority of a line that begins with "open" *)
LEMMA PriorityFound ==
  ASSUME NEW line \in Lines, NEW j \in 1 .. Len(line), line[1] = "open", line[j] = "close",
         \A m \in 1 .. j - 1 : line[m] # "close", j > 2
  PROVE  Priority(line, Digits) = {Digits[n] : n \in {m \in DOMAIN Digits : Strip(SubSeq(line, 2, j - 1)) = <<m>>}}
<1> DEFINE I == {i \in 1 .. Len(line) : line[i] = "close"}
<1>1. SelectInSeq(line, LAMBDA piece : piece = "close") = IF I # {} THEN Min(I) ELSE 0
  BY DEF SelectInSeq
<1>2. Len(line) \in Nat /\ DOMAIN line = 1 .. Len(line)
  BY LineIndices
<1>3. I # {} /\ Min(I) = j
  BY <1>2 DEF Min
<1>4. SelectInSeq(line, LAMBDA piece : piece = "close") = j
  BY <1>1, <1>3
<1> QED
  BY <1>4 DEF Priority

(* A line with a priority shows its severity, *)
THEOREM PriorityShown ==
  ASSUME NEW line \in Lines, NEW digits \in DOMAIN Digits, Prioritised(line, digits)
  PROVE  DecodeLine(line, Digits) =
           [kind |-> "syslog", oid |-> <<>>, severity |-> Severity(Digits[digits])]
<1>1. PICK i \in 1 .. Len(line), k \in 1 .. Len(line), j \in 1 .. Len(line) :
        /\ i < k /\ k < j
        /\ line[i] = "open" /\ line[k] = digits /\ line[j] = "close"
        /\ \A m \in 1 .. j - 1 : m \notin {i, k} => line[m] = "blank"
  BY Zenon DEF Prioritised
<1>2. Len(line) \in Nat /\ DOMAIN line = 1 .. Len(line)
  BY LineIndices
<1>3. digits # "blank" /\ digits # "open" /\ digits # "close"
  BY ListenersAssumption
<1>4. PICK a \in 1 .. Len(line), b \in 1 .. Len(line) :
        /\ a <= b /\ line[a] # "blank" /\ line[b] # "blank"
        /\ \A m \in 1 .. Len(line) : m < a \/ b < m => line[m] = "blank"
        /\ Strip(line) = SubSeq(line, a, b)
  BY <1>1, StripBounds
<1>5. a = i
  <2>1. a <= i
    BY <1>1, <1>2, <1>4
  <2>2. a \in 1 .. j - 1 /\ a \notin {k}
    BY <1>1, <1>2, <2>1
  <2> QED
    BY <1>1, <1>4, <2>2
<1>6. j <= b
  BY <1>1, <1>2, <1>4
<1> DEFINE text == Strip(line)
           n == b - i + 1
<1>7. /\ text \in Lines /\ Len(text) = n /\ n \in Nat /\ DOMAIN text = 1 .. n
      /\ \A m \in 1 .. n : text[m] = line[i + m - 1]
  <2>1. /\ SubSeq(line, i, b) \in Lines /\ Len(SubSeq(line, i, b)) = n
        /\ \A m \in 1 .. n : SubSeq(line, i, b)[m] = line[i + m - 1]
    BY <1>2, <1>4, <1>5, SlicePieces
  <2>2. n \in Nat
    BY <1>2, <1>4, <1>5
  <2> QED
    BY <1>4, <1>5, <2>1, <2>2 DEF Lines
<1> HIDE DEF text
<1> DEFINE e == j - i + 1
           q == k - i + 1
<1>8. e \in 1 .. n /\ e > 2 /\ q \in 2 .. e - 1 /\ 1 \in 1 .. n
  BY <1>1, <1>2, <1>4, <1>6
<1>9. /\ text[1] = "open" /\ text[e] = "close" /\ text[q] = digits
      /\ \A m \in 2 .. e - 1 : m # q => text[m] = "blank"
  <2>1. i + 1 - 1 = i /\ i + e - 1 = j /\ i + q - 1 = k /\ q \in 1 .. n
    BY <1>1, <1>2, <1>8
  <2>2. text[1] = "open" /\ text[e] = "close" /\ text[q] = digits
    BY <1>1, <1>7, <1>8, <2>1
  <2>3. ASSUME NEW m \in 2 .. e - 1, m # q PROVE text[m] = "blank"
    <3>1. i + m - 1 \in 1 .. j - 1 /\ i + m - 1 \notin {i, k} /\ m \in 1 .. n
      BY <1>1, <1>2, <1>8, <2>3
    <3> QED
      BY <1>1, <1>7, <3>1
  <2> QED
    BY <2>2, <2>3
<1> HIDE DEF e, q, n
<1>10. \A m \in 1 .. e - 1 : text[m] # "close"
  <2> SUFFICES ASSUME NEW m \in 1 .. e - 1 PROVE text[m] # "close"
    OBVIOUS
  <2>1. m = 1 \/ m = q \/ (m \in 2 .. e - 1 /\ m # q)
    BY <1>7, <1>8
  <2> QED
    BY <1>3, <1>9, <2>1
<1> DEFINE inner == SubSeq(text, 2, e - 1)
<1>11. Strip(inner) = <<digits>>
  <2>1. /\ inner \in Lines /\ Len(inner) = e - 2
        /\ \A m \in 1 .. e - 2 : inner[m] = text[m + 1]
    <3>1. 2 \in 1 .. Len(text) + 1 /\ e - 1 \in 2 - 1 .. Len(text) /\ (e - 1) - 2 + 1 = e - 2
      BY <1>7, <1>8
    <3>2. /\ inner \in Lines /\ Len(inner) = (e - 1) - 2 + 1
          /\ \A m \in 1 .. (e - 1) - 2 + 1 : inner[m] = text[2 + m - 1]
      BY <1>7, <3>1, SlicePieces
    <3>3. \A m \in 1 .. e - 2 : 2 + m - 1 = m + 1
      OBVIOUS
    <3> QED
      BY <3>1, <3>2, <3>3
  <2> HIDE DEF inner
  <2>2. e - 2 \in Nat /\ Len(inner) = e - 2
    BY <1>7, <1>8, <2>1
  <2>3. /\ q - 1 \in 1 .. Len(inner) /\ inner[q - 1] = digits
        /\ \A m \in 1 .. Len(inner) : m # q - 1 => inner[m] = "blank"
    <3>1. q - 1 \in 1 .. e - 2 /\ (q - 1) + 1 = q
      BY <1>7, <1>8
    <3>2. inner[q - 1] = digits
      BY <1>9, <2>1, <3>1
    <3>3. ASSUME NEW m \in 1 .. e - 2, m # q - 1 PROVE inner[m] = "blank"
      <4>1. m + 1 \in 2 .. e - 1 /\ m + 1 # q
        BY <1>7, <1>8, <3>3
      <4> QED
        BY <1>9, <2>1, <4>1
    <3> QED
      BY <2>2, <3>1, <3>2, <3>3
  <2>4. PICK c \in 1 .. Len(inner), d \in 1 .. Len(inner) :
          /\ c <= d /\ inner[c] # "blank" /\ inner[d] # "blank"
          /\ Strip(inner) = SubSeq(inner, c, d)
    BY <1>3, <2>1, <2>3, StripBounds
  <2>5. c = q - 1 /\ d = q - 1
    BY <2>3, <2>4
  <2>6. SubSeq(inner, q - 1, q - 1) = <<inner[q - 1]>>
    BY <2>1, <2>3, SliceOfOne
  <2> QED
    BY <2>3, <2>4, <2>5, <2>6
<1>12. Priority(text, Digits) = {Digits[digits]}
  <2>1. Priority(text, Digits) = {Digits[m] : m \in {l \in DOMAIN Digits : Strip(inner) = <<l>>}}
    BY <1>7, <1>8, <1>9, <1>10, PriorityFound
  <2>2. \A l : <<digits>> = <<l>> <=> l = digits
    OBVIOUS
  <2> HIDE DEF inner
  <2> QED
    BY <1>11, <2>1, <2>2
<1>13. text # <<>>
  BY <1>7, <1>8
<1> QED
  BY <1>12, <1>13 DEF DecodeLine, text

(* one without a priority is informational, *)
THEOREM NoPriorityShown ==
  ASSUME NEW line \in Lines, ~Blank(line), \A digits \in DOMAIN Digits : ~Prioritised(line, digits)
  PROVE  DecodeLine(line, Digits) = [kind |-> "syslog", oid |-> <<>>, severity |-> "info"]
<1>1. PICK a \in 1 .. Len(line), b \in 1 .. Len(line) :
        /\ a <= b /\ line[a] # "blank" /\ line[b] # "blank"
        /\ \A m \in 1 .. Len(line) : m < a \/ b < m => line[m] = "blank"
        /\ Strip(line) = SubSeq(line, a, b)
  BY StripBounds DEF Blank
<1>2. Len(line) \in Nat
  BY LineIndices
<1> DEFINE text == Strip(line)
           n == b - a + 1
<1>3. /\ text \in Lines /\ Len(text) = n /\ n \in Nat /\ n >= 1
      /\ \A m \in 1 .. n : text[m] = line[a + m - 1]
  <2>1. /\ SubSeq(line, a, b) \in Lines /\ Len(SubSeq(line, a, b)) = n
        /\ \A m \in 1 .. n : SubSeq(line, a, b)[m] = line[a + m - 1]
    BY <1>1, <1>2, SlicePieces
  <2>2. n \in Nat /\ n >= 1
    BY <1>1, <1>2
  <2> QED
    BY <1>1, <2>1, <2>2
<1> HIDE DEF text
<1>4. ASSUME Priority(text, Digits) # {} PROVE FALSE
  <2> DEFINE I == {i \in 1 .. Len(text) : text[i] = "close"}
             e == SelectInSeq(text, LAMBDA piece : piece = "close")
             inner == Strip(SubSeq(text, 2, e - 1))
  <2>1. /\ text[1] = "open" /\ e > 2
        /\ \E digits \in DOMAIN Digits : inner = <<digits>>
    BY <1>4 DEF Priority
  <2>2. e = IF I # {} THEN Min(I) ELSE 0
    BY DEF SelectInSeq
  <2>3. I \in SUBSET Nat /\ I \in SUBSET (1 .. n)
    BY <1>3
  <2> HIDE DEF inner, e
  <2>4. I # {} /\ e = Min(I)
    BY <2>1, <2>2
  <2>5. \E i \in I : \A j \in I : i <= j
    BY <2>3, <2>4, Least
  <2>6. e \in I /\ \A j \in I : e <= j
    BY <2>4, <2>5 DEF Min
  <2> DEFINE s == SubSeq(text, 2, e - 1)
  <2>7. e \in 3 .. n /\ text[e] = "close"
    BY <1>3, <2>1, <2>3, <2>6
  <2>8. /\ s \in Lines /\ Len(s) = e - 2
        /\ \A m \in 1 .. e - 2 : s[m] = text[m + 1]
    <3>1. 2 \in 1 .. Len(text) + 1 /\ e - 1 \in 2 - 1 .. Len(text) /\ (e - 1) - 2 + 1 = e - 2
      BY <1>3, <2>7
    <3>2. /\ s \in Lines /\ Len(s) = (e - 1) - 2 + 1
          /\ \A m \in 1 .. (e - 1) - 2 + 1 : s[m] = text[2 + m - 1]
      BY <1>3, <3>1, SlicePieces
    <3>3. \A m \in 1 .. e - 2 : 2 + m - 1 = m + 1
      OBVIOUS
    <3> QED
      BY <3>1, <3>2, <3>3
  <2>9. PICK digits \in DOMAIN Digits : Strip(s) = <<digits>>
    BY <2>1 DEF inner
  <2> HIDE DEF s
  <2>10. PICK c \in 1 .. e - 2 : s[c] = digits /\ \A m \in 1 .. e - 2 : m # c => s[m] = "blank"
    <3>1. ~ \A m \in 1 .. Len(s) : s[m] = "blank"
      <4>1. <<digits>> # <<>>
        OBVIOUS
      <4> QED
        BY <2>8, <2>9, <4>1, StripBlank
    <3>2. PICK c \in 1 .. Len(s), d \in 1 .. Len(s) :
            /\ c <= d /\ s[c] # "blank" /\ s[d] # "blank"
            /\ \A m \in 1 .. Len(s) : m < c \/ d < m => s[m] = "blank"
            /\ Strip(s) = SubSeq(s, c, d)
      BY <2>8, <3>1, StripBounds
    <3>3. /\ Len(SubSeq(s, c, d)) = d - c + 1
          /\ \A i \in 1 .. d - c + 1 : SubSeq(s, c, d)[i] = s[c + i - 1]
      <4>1. c \in 1 .. Len(s) + 1 /\ d \in c - 1 .. Len(s)
        BY <2>8, <3>2, LineIndices
      <4> QED
        BY <2>8, <4>1, SlicePieces
    <3>4. c \in Nat /\ d \in Nat /\ e - 2 \in Nat
      BY <2>7, <2>8
    <3>5. d - c + 1 = 1 /\ s[c + 1 - 1] = digits
      <4>1. Len(<<digits>>) = 1 /\ <<digits>>[1] = digits
        OBVIOUS
      <4>2. d - c + 1 = 1
        BY <2>9, <3>2, <3>3, <4>1
      <4> QED
        BY <2>9, <3>2, <3>3, <4>1, <4>2
    <3>6. d = c /\ c + 1 - 1 = c
      BY <3>4, <3>5
    <3> QED
      BY <2>8, <3>2, <3>4, <3>5, <3>6
  <2> DEFINE k == a + c
             j == a + e - 1
  <2>11. /\ a \in 1 .. Len(line) /\ k \in 1 .. Len(line) /\ j \in 1 .. Len(line)
         /\ a < k /\ k < j
    BY <1>1, <1>2, <2>7
  <2>12. line[a] = "open" /\ line[k] = digits /\ line[j] = "close"
    <3>1. 1 \in 1 .. n /\ a + 1 - 1 = a
      BY <1>3
    <3>2. c + 1 \in 1 .. n /\ a + (c + 1) - 1 = k
      BY <1>3, <2>7
    <3>3. line[k] = text[c + 1]
      BY <1>3, <3>2
    <3>4. text[c + 1] = digits
      BY <2>8, <2>10
    <3>5. line[j] = text[e]
      BY <1>3, <2>7
    <3>6. line[a] = text[1]
      BY <1>3, <3>1
    <3> QED
      BY <2>1, <2>7, <3>3, <3>4, <3>5, <3>6
  <2>13. ASSUME NEW m \in 1 .. j - 1, m \notin {a, k} PROVE line[m] = "blank"
    <3>1. CASE m < a
      <4>1. m \in 1 .. Len(line)
        BY <1>2, <2>11
      <4> QED
        BY <1>1, <3>1, <4>1
    <3>2. CASE a < m
      <4>1. m - a \in 1 .. e - 2 /\ m - a # c /\ (m - a) + 1 \in 1 .. n /\ a + ((m - a) + 1) - 1 = m
        BY <1>3, <2>7, <2>11, <2>13, <3>2
      <4>2. s[m - a] = "blank"
        BY <2>10, <4>1
      <4>3. text[(m - a) + 1] = "blank"
        BY <2>8, <4>1, <4>2
      <4> QED
        BY <1>3, <4>1, <4>3
    <3> QED
      BY <2>11, <2>13, <3>1, <3>2
  <2> HIDE DEF k, j
  <2>14. Prioritised(line, digits)
    BY <2>11, <2>12, <2>13 DEF Prioritised
  <2> QED
    BY <2>14
<1>5. text # <<>>
  BY <1>3
<1> QED
  BY <1>4, <1>5 DEF DecodeLine, text

(* and a blank one is no alert. *)
LEMMA BlankIsSilent ==
  ASSUME NEW line \in Lines, Blank(line)
  PROVE  DecodeLine(line, Digits) = NoAlert
BY StripBlank DEF Blank, DecodeLine

-----------------------------------------------------------------------------
(***************************************************************************)
(* What is published.                                                      *)
(***************************************************************************)
(* What is published is what a datagram was decoded to. *)
PublishedDecoded ==
  \/ alert = Silence
  \/ \E l \in Listener : \E g \in Datagrams[l] :
        Decoded[l][g] # NoAlert /\ alert = [from |-> g, as |-> Decoded[l][g]]

(* In no run is anything else published. *)
LEMMA DecodedAlways == ListenersSpec => []PublishedDecoded
<1>1. ListenersInit => PublishedDecoded
  BY DEF ListenersInit, PublishedDecoded
<1>2. PublishedDecoded /\ [ListenersNext]_listenerVars => PublishedDecoded'
  <2> SUFFICES ASSUME PublishedDecoded, [ListenersNext]_listenerVars PROVE PublishedDecoded'
    OBVIOUS
  <2>1. CASE alert' = alert
    BY <2>1 DEF PublishedDecoded
  <2>2. CASE alert' = Silence
    BY <2>2 DEF PublishedDecoded
  <2>3. ASSUME NEW l \in Listener, NEW n \in Incarnations, Handle(l, n)
        PROVE  PublishedDecoded'
    <3>1. PICK g \in Datagrams[l] :
            alert' = IF Decoded[l][g] = NoAlert THEN Silence
                     ELSE [from |-> g, as |-> Decoded[l][g]]
      BY <2>3 DEF Handle
    <3> QED
      BY <3>1 DEF PublishedDecoded
  <2>4. CASE UNCHANGED listenerVars
    BY <2>1, <2>4 DEF listenerVars
  <2> QED
    BY <2>2, <2>3, <2>4 DEF ListenersNext, Loop
<1> QED
  BY <1>1, <1>2, PTL DEF ListenersSpec

(* No alert comes from a trap that was cut short, wherever it was cut and     *)
(* whatever the message was.                                                  *)
CutNeverPublished ==
  \A data, n : Whole(data) /\ n \in 0 .. Len(data) - 1 =>
    ~ (alert.from.source = "snmp-trap" /\ alert.from.wire = SubSeq(data, 1, n))

(* In no run of the listeners does a trap that was cut short become an alert. *)
THEOREM CutTrapsNeverPublished == ListenersSpec => []CutNeverPublished
<1>1. PublishedDecoded => CutNeverPublished
  <2> SUFFICES ASSUME PublishedDecoded, NEW data, NEW n, Whole(data), n \in 0 .. Len(data) - 1,
                      alert.from.source = "snmp-trap", alert.from.wire = SubSeq(data, 1, n)
               PROVE  FALSE
    BY DEF CutNeverPublished
  <2>1. alert # Silence
    BY DEF Silence
  <2>2. PICK l \in Listener : \E g \in Datagrams[l] :
          Decoded[l][g] # NoAlert /\ alert = [from |-> g, as |-> Decoded[l][g]]
    BY <2>1 DEF PublishedDecoded
  <2>3. PICK g \in Datagrams[l] :
          Decoded[l][g] # NoAlert /\ alert = [from |-> g, as |-> Decoded[l][g]]
    BY <2>2
  <2>4. alert.from = g
    BY <2>3
  <2>5. l = "snmp-trap" /\ g.wire = SubSeq(data, 1, n)
    BY <2>4, ListenersAssumption
  <2>6. Decoded[l][g] = DecodeTrap(g.wire)
    BY <2>5 DEF Decoded
  <2> QED
    BY <2>3, <2>5, <2>6, CutTrapsAreSilent
<1> QED
  BY <1>1, DecodedAlways, PTL

(* What an agent may send, and what it means: a v1 trap its enterprise, *)
MeantV1(g) ==
  \E content, body \in Values, oid \in Oids, trailing \in Seq(Byte) :
    /\ EncodeOid(oid) \in Values
    /\ g.wire = Tlv(48, content) \o trailing
    /\ Carries(content, 164, body) /\ IsV1(body, EncodeOid(oid))
    /\ g.alert = TrapAlert(oid)

(* a v2c trap the name of its first varbind, *)
MeantV2(g) ==
  \E content, body, varbinds, varbind \in Values, oid \in Oids, trailing \in Seq(Byte) :
    /\ EncodeOid(oid) \in Values
    /\ g.wire = Tlv(48, content) \o trailing
    /\ Carries(content, 167, body) /\ IsV2(body, varbinds)
    /\ Begins(varbinds, varbind) /\ Begins(varbind, EncodeOid(oid))
    /\ g.alert = TrapAlert(oid)

(* or nothing if it has none, as any other PDU; *)
MeantBare(g) ==
  \E content, body \in Values, trailing \in Seq(Byte) :
    /\ g.wire = Tlv(48, content) \o trailing
    /\ \/ Carries(content, 167, body) /\ IsV2(body, <<>>)
       \/ \E tag \in Byte \ {164, 167} : Carries(content, tag, body)
    /\ g.alert = TrapAlert(<<>>)

(* and a part of a message means nothing. *)
MeantCut(g) ==
  \E data : \E n \in 0 .. Len(data) - 1 :
    Whole(data) /\ g.wire = SubSeq(data, 1, n) /\ g.alert = NoAlert

(* A line means its severity, unless it is blank. *)
LineAlert(severity) == [kind |-> "syslog", oid |-> <<>>, severity |-> severity]

MeantLine(g) ==
  /\ g.wire \in Lines
  /\ \/ Blank(g.wire) /\ g.alert = NoAlert
     \/ \E digits \in DOMAIN Digits :
          Prioritised(g.wire, digits) /\ g.alert = LineAlert(Severity(Digits[digits]))
     \/ /\ ~Blank(g.wire) /\ \A digits \in DOMAIN Digits : ~Prioritised(g.wire, digits)
        /\ g.alert = LineAlert("info")

Meant(l, g) ==
  IF l = "syslog" THEN MeantLine(g)
  ELSE MeantV1(g) \/ MeantV2(g) \/ MeantBare(g) \/ MeantCut(g)

(* What is meant is what a trap is decoded to, *)
LEMMA TrapsDecoded ==
  ASSUME NEW g, MeantV1(g) \/ MeantV2(g) \/ MeantBare(g) \/ MeantCut(g)
  PROVE  DecodeTrap(g.wire) = g.alert
<1>1. CASE MeantV1(g)
  <2>1. PICK content \in Values, body \in Values, oid \in Oids, trailing \in Seq(Byte) :
          /\ EncodeOid(oid) \in Values
          /\ g.wire = Tlv(48, content) \o trailing
          /\ Carries(content, 164, body) /\ IsV1(body, EncodeOid(oid))
          /\ g.alert = TrapAlert(oid)
    BY <1>1, Zenon DEF MeantV1
  <2>2. DecodeOid(EncodeOid(oid)) = oid
    BY OidRoundTrip
  <2> QED
    BY <2>1, <2>2, V1ShowsEnterprise
<1>2. CASE MeantV2(g)
  <2>1. PICK content \in Values, body \in Values, varbinds \in Values, varbind \in Values,
             oid \in Oids, trailing \in Seq(Byte) :
          /\ EncodeOid(oid) \in Values
          /\ g.wire = Tlv(48, content) \o trailing
          /\ Carries(content, 167, body) /\ IsV2(body, varbinds)
          /\ Begins(varbinds, varbind) /\ Begins(varbind, EncodeOid(oid))
          /\ g.alert = TrapAlert(oid)
    BY <1>2, Zenon DEF MeantV2
  <2>2. DecodeOid(EncodeOid(oid)) = oid
    BY OidRoundTrip
  <2> QED
    BY <2>1, <2>2, V2ShowsFirstName
<1>3. CASE MeantBare(g)
  <2>1. PICK content \in Values, body \in Values, trailing \in Seq(Byte) :
          /\ g.wire = Tlv(48, content) \o trailing
          /\ \/ Carries(content, 167, body) /\ IsV2(body, <<>>)
             \/ \E tag \in Byte \ {164, 167} : Carries(content, tag, body)
          /\ g.alert = TrapAlert(<<>>)
    BY <1>3, Zenon DEF MeantBare
  <2>2. CASE Carries(content, 167, body) /\ IsV2(body, <<>>)
    BY <2>1, <2>2, BareShowsNothing
  <2>3. ASSUME NEW tag \in Byte \ {164, 167}, Carries(content, tag, body)
        PROVE  DecodeTrap(g.wire) = g.alert
    BY <2>1, <2>3, PduFound
  <2> QED
    BY <2>1, <2>2, <2>3
<1>4. CASE MeantCut(g)
  BY <1>4, CutTrapsAreSilent DEF MeantCut
<1> QED
  BY <1>1, <1>2, <1>3, <1>4

(* and what a line is. *)
LEMMA LinesDecoded ==
  ASSUME NEW g, MeantLine(g)
  PROVE  DecodeLine(g.wire, Digits) = g.alert
<1>1. CASE Blank(g.wire) /\ g.alert = NoAlert
  BY <1>1, BlankIsSilent DEF MeantLine
<1>2. ASSUME NEW digits \in DOMAIN Digits, Prioritised(g.wire, digits),
             g.alert = LineAlert(Severity(Digits[digits]))
      PROVE  DecodeLine(g.wire, Digits) = g.alert
  BY <1>2, PriorityShown DEF MeantLine, LineAlert
<1>3. CASE /\ ~Blank(g.wire) /\ \A digits \in DOMAIN Digits : ~Prioritised(g.wire, digits)
           /\ g.alert = LineAlert("info")
  BY <1>3, NoPriorityShown DEF MeantLine, LineAlert
<1> QED
  BY <1>1, <1>2, <1>3 DEF MeantLine

(* Whatever well-formed or cut messages and whatever lines the listeners      *)
(* receive, in whatever order and however often they are restarted, an alert  *)
(* shows what its sender meant, and a part of a message or a blank line is    *)
(* never published.                                                           *)
THEOREM AlertsAlwaysTrue ==
  ASSUME \A l \in Listener : \A g \in Datagrams[l] : Meant(l, g)
  PROVE  ListenersSpec => []AlertsTrue
<1>1. PublishedDecoded => AlertsTrue
  <2> SUFFICES ASSUME PublishedDecoded PROVE AlertsTrue
    OBVIOUS
  <2>1. CASE alert = Silence
    BY <2>1 DEF Silence, AlertsTrue
  <2>2. ASSUME NEW l \in Listener, NEW g \in Datagrams[l],
               alert = [from |-> g, as |-> Decoded[l][g]]
        PROVE  AlertsTrue
    <3>1. Meant(l, g)
      OBVIOUS
    <3>2. Decoded[l][g] =
            IF l = "syslog" THEN DecodeLine(g.wire, Digits) ELSE DecodeTrap(g.wire)
      BY DEF Decoded
    <3>3. Decoded[l][g] = g.alert
      BY <3>1, <3>2, TrapsDecoded, LinesDecoded DEF Meant
    <3> QED
      BY <2>2, <3>3 DEF AlertsTrue
  <2> QED
    BY <2>1, <2>2 DEF PublishedDecoded
<1> QED
  BY <1>1, DecodedAlways, PTL

-----------------------------------------------------------------------------
(***************************************************************************)
(* What was sent: the messages of the agent of Alerts are of the form that *)
(* the theorem above asks for.                                             *)
(***************************************************************************)
(* Bounds on what the agent sends: a name of as many arcs as RFC 2578 allows,  *)
(* 128 of five bytes; varbinds with three of these; a PDU.                    *)
NameSized(value) == Len(value) <= 640
VarbindsSized(value) == Len(value) <= 2000
PduSized(value) == Len(value) <= 3000

(* All of these, and shorter ones, fit. *)
LEMMA SizesFit ==
  ASSUME NEW value \in Seq(Byte),
         Len(value) <= 255 \/ NameSized(value) \/ VarbindsSized(value) \/ PduSized(value)
  PROVE  value \in Values
<1>1. Len(value) < 65536
  BY DEF NameSized, VarbindsSized, PduSized
<1> QED
  BY <1>1 DEF Values, Fits

(* The name of an object is within it. *)
LEMMA NamesFit ==
  ASSUME NEW oid \in Oids, Len(oid) <= 128
  PROVE  EncodeOid(oid) \in Seq(Byte) /\ NameSized(EncodeOid(oid))
<1> DEFINE e == Encoding(oid)
           n == Len(oid)
           S == {i \in Nat : \A k \in 2 .. n : k <= i => Len(e[k]) <= 5 * k}
<1>1. /\ n \in Nat /\ n >= 2
      /\ \A i \in 3 .. n : EncodeArc(oid[i]) \in Seq(Byte) /\ Len(EncodeArc(oid[i])) \in 1 .. 5
  BY ArcBytes DEF Oids
<1>2. /\ e \in [2 .. n -> Seq(Byte)] /\ e[2] = <<(40 * oid[1]) + oid[2]>>
      /\ \A i \in 3 .. n : e[i] = e[i - 1] \o EncodeArc(oid[i])
  BY EncodingSteps
<1> HIDE DEF e, n
<1>3. 0 \in S
  OBVIOUS
<1>4. ASSUME NEW i \in S PROVE i + 1 \in S
  <2>1. i \in Nat
    BY <1>4
  <2>2. ASSUME NEW k \in 2 .. n, k <= i + 1 PROVE Len(e[k]) <= 5 * k
    <3>1. CASE k <= i
      BY <1>4, <2>2, <3>1
    <3>2. CASE k = 2
      <4>1. Len(e[2]) = 1
        BY <1>2
      <4> QED
        BY <3>2, <4>1
    <3>3. CASE ~(k <= i) /\ k # 2
      <4>1. k \in 3 .. n /\ k - 1 \in 2 .. n /\ k - 1 <= i /\ 5 * k = (5 * (k - 1)) + 5
        BY <1>1, <2>1, <2>2, <3>3
      <4> DEFINE s == e[k - 1]
                 t == EncodeArc(oid[k])
      <4>2. s \in Seq(Byte) /\ t \in Seq(Byte) /\ Len(t) \in 1 .. 5 /\ e[k] = s \o t
        BY <1>1, <1>2, <4>1
      <4>3. Len(s) <= 5 * (k - 1)
        BY <1>4, <4>1
      <4> HIDE DEF s, t
      <4>4. Len(s \o t) = Len(s) + Len(t) /\ Len(s) \in Nat
        BY <4>2
      <4>5. Len(s \o t) <= (5 * (k - 1)) + 5
        <5>1. \A x \in Nat : \A y \in 1 .. 5 : \A z \in Int : x <= z => x + y <= z + 5
          OBVIOUS
        <5>2. 5 * (k - 1) \in Int
          BY <4>1
        <5> QED
          BY <4>2, <4>3, <4>4, <5>1, <5>2
      <4> QED
        BY <4>1, <4>2, <4>5
    <3> QED
      BY <3>1, <3>2, <3>3
  <2> QED
    BY <2>1, <2>2
<1> HIDE DEF S
<1>5. S = Nat
  <2>1. S \in SUBSET Nat
    BY DEF S
  <2> QED
    BY <1>3, <1>4, <2>1, Induction
<1>6. Len(e[n]) <= 5 * n /\ e[n] \in Seq(Byte)
  <2>1. n \in S /\ n \in 2 .. n
    BY <1>1, <1>5
  <2> QED
    BY <1>1, <1>2, <2>1 DEF S
<1>7. n <= 128
  BY DEF n
<1>8. Len(e[n]) \in Nat /\ NameSized(e[n])
  <2>1. Len(e[n]) \in Nat
    BY <1>6
  <2> QED
    BY <1>1, <1>6, <1>7, <2>1 DEF NameSized
<1> QED
  BY <1>6, <1>8 DEF EncodeOid, e, n

(* The bytes of a field are a few more than those of its value. *)
LEMMA FieldSize ==
  ASSUME NEW tag \in Byte, NEW value \in Values
  PROVE  /\ Tlv(tag, value) \in Seq(Byte) /\ Tlv(tag, value) \o <<>> = Tlv(tag, value)
         /\ Len(Tlv(tag, value)) \in Nat /\ Len(Tlv(tag, value)) <= Len(value) + 4
<1> DEFINE form == EncodeLength(Len(value))
<1>1. Tlv(tag, value) \in Seq(Byte)
  BY TlvBytes DEF Values
<1>2. value \in Seq(Byte) /\ Fits(value)
  BY DEF Values
<1>3. form \in Seq(Byte) /\ <<tag>> \in Seq(Byte) /\ Len(<<tag>>) = 1 /\ Len(form) \in 1 .. 3
  BY <1>2, LengthWritten
<1> HIDE DEF form
<1>4. /\ (<<tag>> \o form) \o value \in Seq(Byte) /\ Len((<<tag>> \o form) \o value) \in Nat
      /\ Len((<<tag>> \o form) \o value) <= Len(value) + 4
  <2>1. <<tag>> \o form \in Seq(Byte) /\ Len(<<tag>> \o form) = 1 + Len(form)
    BY <1>3, Joined
  <2>2. /\ (<<tag>> \o form) \o value \in Seq(Byte)
        /\ Len((<<tag>> \o form) \o value) = Len(<<tag>> \o form) + Len(value)
    BY <1>2, <2>1, Joined
  <2>3. /\ \A a \in 1 .. 3 : \A b \in Nat : (1 + a) + b <= b + 4 /\ (1 + a) + b \in Nat
        /\ Len(value) \in Nat
    BY <1>2
  <2> QED
    BY <1>3, <2>1, <2>2, <2>3
<1>5. Tlv(tag, value) = (<<tag>> \o form) \o value
  BY DEF Tlv, form
<1>7. Tlv(tag, value) \o <<>> = Tlv(tag, value)
  BY <1>1
<1> QED
  BY <1>1, <1>4, <1>5, <1>7

(* A message carries its PDU. *)
LEMMA MessageCarries ==
  ASSUME NEW tag \in Byte, NEW body \in Values, PduSized(body)
  PROVE  /\ Whole(Message(Tlv(tag, body)))
         /\ \E content \in Values :
              Message(Tlv(tag, body)) = Tlv(48, content) \o <<>> /\ Carries(content, tag, body)
<1> DEFINE version == <<1>>
           community == <<112>>
           v == Tlv(2, version)
           c == Tlv(4, community)
           p == Tlv(tag, body)
           content == v \o c \o p
<1>1. /\ version \in Values /\ Len(version) = 1 /\ community \in Values /\ Len(community) = 1
      /\ 2 \in Byte /\ 4 \in Byte /\ 48 \in Byte
  <2>1. 1 \in Byte /\ 112 \in Byte /\ 2 \in Byte /\ 4 \in Byte /\ 48 \in Byte
    BY SmallNumbers
  <2>2. version \in Seq(Byte) /\ Len(version) = 1 /\ community \in Seq(Byte) /\ Len(community) = 1
    BY <2>1
  <2> QED
    <3>1. Len(version) <= 255 /\ Len(community) <= 255
      BY <2>2
    <3> QED
      BY <2>1, <2>2, <3>1, SizesFit
<1> HIDE DEF version, community
<1>2. /\ v \in Seq(Byte) /\ Len(v) \in Nat /\ Len(v) <= 5
      /\ c \in Seq(Byte) /\ Len(c) \in Nat /\ Len(c) <= 5
      /\ p \in Seq(Byte) /\ Len(p) \in Nat /\ Len(p) <= 3004 /\ p \o <<>> = p
  <2>1. Len(v) <= Len(version) + 4 /\ v \in Seq(Byte) /\ Len(v) \in Nat
    BY <1>1, FieldSize
  <2>2. Len(c) <= Len(community) + 4 /\ c \in Seq(Byte) /\ Len(c) \in Nat
    BY <1>1, FieldSize
  <2>3. Len(p) <= Len(body) + 4 /\ p \in Seq(Byte) /\ Len(p) \in Nat /\ p \o <<>> = p
    BY FieldSize
  <2>4. Len(body) \in Nat /\ Len(body) <= 3000
    BY DEF Values, PduSized
  <2> HIDE DEF v, c, p
  <2> QED
    BY <1>1, <2>1, <2>2, <2>3, <2>4
<1> DEFINE t1 == 2
           t2 == 4
           rest == <<>>
<1>3. t1 \in Byte /\ t2 \in Byte /\ rest \in Seq(Byte) /\ v = Tlv(t1, version) /\ c = Tlv(t2, community)
  BY <1>1
<1>4. Message(p) = Tlv(48, content)
  BY DEF Message, IntField, version, community
<1> HIDE DEF v, c, p, t1, t2, rest
<1>5. content = v \o (c \o p) /\ content \in Values
  <2>1. content = v \o (c \o p)
    BY <1>2
  <2>3. content \in Seq(Byte) /\ Len(content) = Len(v) + Len(c) + Len(p)
    BY <1>2
  <2> HIDE DEF content
  <2>2. Fits(content)
    BY <1>2, <2>3 DEF Fits
  <2> QED
    BY <2>1, <2>2, <2>3 DEF Values
<1> HIDE DEF content
<1>6. content = Tlv(t1, version) \o (Tlv(t2, community) \o (Tlv(tag, body) \o rest))
  BY <1>2, <1>3, <1>5 DEF p, rest
<1>7. Carries(content, tag, body)
  BY <1>1, <1>3, <1>6, Zenon DEF Carries
<1>8. Tlv(48, content) \o <<>> = Tlv(48, content)
  BY <1>1, <1>5, FieldSize
<1>9. Whole(Tlv(48, content))
  BY <1>1, <1>5, WrittenWhole DEF Values
<1> QED
  BY <1>4, <1>5, <1>7, <1>8, <1>9, Zenon DEF p

(* A field of one byte *)
LEMMA SmallField ==
  ASSUME NEW tag \in Byte, NEW n \in Byte
  PROVE  /\ <<n>> \in Values
         /\ Tlv(tag, <<n>>) \in Seq(Byte)
         /\ Len(Tlv(tag, <<n>>)) \in Nat /\ Len(Tlv(tag, <<n>>)) <= 5
<1> DEFINE value == <<n>>
<1>1. value \in Values /\ Len(value) = 1
  <2>1. value \in Seq(Byte) /\ Len(value) = 1 /\ Len(value) <= 255
    OBVIOUS
  <2> QED
    BY <2>1, SizesFit
<1> HIDE DEF value
<1>2. /\ Tlv(tag, value) \in Seq(Byte)
      /\ Len(Tlv(tag, value)) \in Nat /\ Len(Tlv(tag, value)) <= Len(value) + 4
  BY <1>1, FieldSize
<1>3. /\ Tlv(tag, value) \in Seq(Byte)
      /\ Len(Tlv(tag, value)) \in Nat /\ Len(Tlv(tag, value)) <= 5
  BY <1>1, <1>2
<1> QED
  BY <1>1, <1>3 DEF value

(* The v1 traps of the agent are of the form above, *)
LEMMA V1TrapsMeant ==
  ASSUME NEW oid \in Oids, NameSized(EncodeOid(oid)),
         NEW g, g.wire = EncodeV1(oid), g.alert = TrapAlert(oid)
  PROVE  MeantV1(g) /\ Whole(g.wire)
<1> DEFINE name == EncodeOid(oid)
           address == <<10, 0, 0, 1>>
           f == Tlv(6, name)
           a == Tlv(64, address)
           c == Tlv(2, <<6>>)
           s == Tlv(2, <<1>>)
           u == Tlv(67, <<9>>)
           body == f \o (a \o (c \o (s \o u)))
<1>1. /\ 6 \in Byte /\ 64 \in Byte /\ 2 \in Byte /\ 1 \in Byte /\ 9 \in Byte /\ 67 \in Byte
      /\ 164 \in Byte /\ 10 \in Byte /\ 0 \in Byte
  BY SmallNumbers
<1>2. name \in Values /\ Len(name) <= 640 /\ Len(name) \in Nat
  BY OidRoundTrip, SizesFit DEF NameSized
<1>3. address \in Values /\ Len(address) = 4
  <2>1. address \in Seq(Byte) /\ Len(address) = 4 /\ Len(address) <= 255
    BY <1>1
  <2> QED
    BY <2>1, SizesFit
<1>4. <<6>> \in Values /\ <<1>> \in Values /\ <<9>> \in Values
  BY <1>1, SmallField
<1> HIDE DEF name, address
<1>5. /\ f \in Seq(Byte) /\ Len(f) \in Nat /\ Len(f) <= 644
      /\ a \in Seq(Byte) /\ Len(a) \in Nat /\ Len(a) <= 8
      /\ c \in Seq(Byte) /\ Len(c) \in Nat /\ Len(c) <= 5
      /\ s \in Seq(Byte) /\ Len(s) \in Nat /\ Len(s) <= 5
      /\ u \in Seq(Byte) /\ Len(u) \in Nat /\ Len(u) <= 5
      /\ u \o <<>> = u
  <2>1. f \in Seq(Byte) /\ Len(f) \in Nat /\ Len(f) <= Len(name) + 4
    BY <1>1, <1>2, FieldSize
  <2>2. a \in Seq(Byte) /\ Len(a) \in Nat /\ Len(a) <= Len(address) + 4
    BY <1>1, <1>3, FieldSize
  <2>3. /\ c \in Seq(Byte) /\ Len(c) \in Nat /\ Len(c) <= 5
        /\ s \in Seq(Byte) /\ Len(s) \in Nat /\ Len(s) <= 5
        /\ u \in Seq(Byte) /\ Len(u) \in Nat /\ Len(u) <= 5
    BY <1>1, SmallField
  <2>4. u \o <<>> = u
    BY <1>1, <1>4, FieldSize
  <2> HIDE DEF f, a, c, s, u
  <2>5. Len(f) <= 644 /\ Len(a) <= 8
    BY <1>2, <1>3, <2>1, <2>2
  <2> QED
    BY <2>1, <2>2, <2>3, <2>4, <2>5
<1>7. EncodeV1(oid) = Message(Tlv(164, body))
  BY DEF EncodeV1, OidField, IntField, name, address
<1> HIDE DEF f, a, c, s, u
<1>8. body \in Values /\ PduSized(body)
  <2>1. body \in Seq(Byte)
    BY <1>5
  <2>2. Len(body) = Len(f) + Len(a) + Len(c) + Len(s) + Len(u)
    BY <1>5
  <2> HIDE DEF body
  <2>3. Len(body) <= 3000
    BY <1>5, <2>2
  <2> QED
    BY <2>1, <2>3, SizesFit DEF PduSized
<1> DEFINE trailing == <<>>
<1>6. trailing \in Seq(Byte) /\ u \o trailing = u
  BY <1>5
<1> HIDE DEF body, trailing
<1>9. IsV1(body, name)
  <2>1. body = f \o (a \o (c \o (s \o (u \o trailing))))
    BY <1>6 DEF body
  <2> DEFINE six == <<6>>
             one == <<1>>
             nine == <<9>>
             t1 == 6
             t2 == 64
             t3 == 2
             t4 == 67
  <2>2. /\ body = Tlv(t1, name) \o (Tlv(t2, address) \o (Tlv(t3, six) \o
                  (Tlv(t3, one) \o (Tlv(t4, nine) \o trailing))))
        /\ six \in Values /\ one \in Values /\ nine \in Values
        /\ t1 \in Byte /\ t2 \in Byte /\ t3 \in Byte /\ t4 \in Byte
    BY <1>1, <1>4, <2>1 DEF f, a, c, s, u
  <2> HIDE DEF six, one, nine, t1, t2, t3, t4
  <2> QED
    BY <1>3, <1>6, <2>2, Zenon DEF IsV1
<1>10. PICK content \in Values :
         EncodeV1(oid) = Tlv(48, content) \o <<>> /\ Carries(content, 164, body)
  BY <1>1, <1>7, <1>8, MessageCarries
<1>11. g.wire = Tlv(48, content) \o trailing
  BY <1>10 DEF trailing
<1>12. /\ EncodeOid(oid) \in Values
       /\ Carries(content, 164, body) /\ IsV1(body, EncodeOid(oid))
  BY <1>2, <1>9, <1>10 DEF name
<1>13. Whole(g.wire)
  <2>1. Whole(Message(Tlv(164, body)))
    BY <1>1, <1>8, MessageCarries
  <2> QED
    BY <1>7, <2>1
<1> QED
  BY <1>6, <1>8, <1>11, <1>12, <1>13, Zenon DEF MeantV1

(* a v2c PDU has the four fields of one, *)
LEMMA V2Body ==
  ASSUME NEW binds \in Values, VarbindsSized(binds)
  PROVE  \E body \in Values :
           /\ body = IntField(7) \o (IntField(0) \o (IntField(0) \o Tlv(48, binds)))
           /\ PduSized(body) /\ IsV2(body, binds)
<1> DEFINE seven == <<7>>
           zero == <<0>>
           t1 == 2
           t2 == 48
           trailing == <<>>
           r == Tlv(t1, seven)
           z == Tlv(t1, zero)
           l == Tlv(t2, binds)
           body == r \o (z \o (z \o l))
<1>1. 7 \in Byte /\ 0 \in Byte /\ t1 \in Byte /\ t2 \in Byte
  BY SmallNumbers
<1>2. /\ r \in Seq(Byte) /\ Len(r) \in Nat /\ Len(r) <= 5 /\ seven \in Values
      /\ z \in Seq(Byte) /\ Len(z) \in Nat /\ Len(z) <= 5 /\ zero \in Values
  BY <1>1, SmallField
<1>3. l \in Seq(Byte) /\ Len(l) \in Nat /\ Len(l) <= Len(binds) + 4 /\ l \o trailing = l
  BY <1>1, FieldSize
<1>4. trailing \in Seq(Byte) /\ Len(binds) \in Nat
  BY DEF Values
<1>5. body = IntField(7) \o (IntField(0) \o (IntField(0) \o Tlv(48, binds)))
  BY DEF IntField
<1> HIDE DEF r, z, l, trailing
<1>6. body = r \o (z \o (z \o (l \o trailing)))
  BY <1>3
<1>7. body \in Seq(Byte)
  BY <1>2, <1>3
<1>8. Len(body) = Len(r) + Len(z) + Len(z) + Len(l)
  BY <1>2, <1>3
<1> HIDE DEF body
<1>9. PduSized(body) /\ body \in Values
  <2>1. Len(binds) <= 2000
    BY DEF VarbindsSized
  <2>2. Len(body) <= 3000
    BY <1>2, <1>3, <1>4, <1>8, <2>1
  <2> QED
    BY <1>7, <2>2, SizesFit DEF PduSized
<1>10. body = Tlv(t1, seven) \o (Tlv(t1, zero) \o (Tlv(t1, zero) \o (Tlv(t2, binds) \o trailing)))
  BY <1>6 DEF r, z, l
<1> HIDE DEF seven, zero, t1, t2
<1>11. IsV2(body, binds)
  BY <1>1, <1>2, <1>4, <1>10, Zenon DEF IsV2
<1> QED
  BY <1>5, <1>9, <1>11

(* and a field that holds a name is as short as the name. *)
LEMMA NameSize ==
  ASSUME NEW oid \in Oids, NameSized(EncodeOid(oid))
  PROVE  /\ EncodeOid(oid) \in Values
         /\ OidField(oid) \in Seq(Byte)
         /\ Len(OidField(oid)) \in Nat /\ Len(OidField(oid)) <= 644
<1> DEFINE name == EncodeOid(oid)
           field == Tlv(6, name)
<1>1. name \in Values /\ Len(name) \in Nat /\ Len(name) <= 640 /\ 6 \in Byte
  BY OidRoundTrip, SmallNumbers, SizesFit DEF NameSized
<1> HIDE DEF name
<1>2. field \in Seq(Byte) /\ Len(field) \in Nat /\ Len(field) <= Len(name) + 4
  BY <1>1, FieldSize
<1> HIDE DEF field
<1>3. Len(field) <= 644
  BY <1>1, <1>2
<1> QED
  BY <1>1, <1>2, <1>3 DEF name, field, OidField

(* The list of two varbinds begins with the first, and that with its name. *)
LEMMA VarbindsBegin ==
  ASSUME NEW first \in Oids, NameSized(EncodeOid(first)),
         NEW second \in Oids, NameSized(EncodeOid(second))
  PROVE  \E binds, varbind \in Values :
           /\ binds = Tlv(48, OidField(first) \o Tlv(67, <<9>>)) \o
                     Tlv(48, OidField(second) \o OidField(first))
           /\ VarbindsSized(binds)
           /\ Begins(binds, varbind) /\ Begins(varbind, EncodeOid(first))
<1> DEFINE f == OidField(first)
           s == OidField(second)
           v == Tlv(67, <<9>>)
           name == EncodeOid(first)
           one == f \o v
           two == s \o f
           t1 == 48
           t2 == 6
           a == Tlv(t1, one)
           b == Tlv(t1, two)
           binds == a \o b
<1>1. t1 \in Byte /\ t2 \in Byte /\ 67 \in Byte /\ 9 \in Byte
  BY SmallNumbers
<1>2. /\ f \in Seq(Byte) /\ Len(f) \in Nat /\ Len(f) <= 644
      /\ s \in Seq(Byte) /\ Len(s) \in Nat /\ Len(s) <= 644
  BY NameSize
<1>3. v \in Seq(Byte) /\ Len(v) \in Nat /\ Len(v) <= 5
  BY <1>1, SmallField
<1>4. f = Tlv(t2, name)
  BY DEF OidField
<1>5. binds = Tlv(48, OidField(first) \o Tlv(67, <<9>>)) \o Tlv(48, OidField(second) \o OidField(first))
  OBVIOUS
<1> HIDE DEF f, s, v, name
<1>6. one \in Values /\ Len(one) \in Nat /\ Len(one) <= 649
  <2>1. one \in Seq(Byte) /\ Len(one) = Len(f) + Len(v)
    BY <1>2, <1>3
  <2> HIDE DEF one
  <2>2. Len(one) \in Nat /\ Len(one) <= 649
    BY <1>2, <1>3, <2>1
  <2>3. VarbindsSized(one)
    BY <2>2 DEF VarbindsSized
  <2> QED
    BY <2>1, <2>2, <2>3, SizesFit
<1>7. two \in Values /\ Len(two) \in Nat /\ Len(two) <= 1288
  <2>1. two \in Seq(Byte) /\ Len(two) = Len(s) + Len(f)
    BY <1>2
  <2> HIDE DEF two
  <2>2. Len(two) \in Nat /\ Len(two) <= 1288
    BY <1>2, <2>1
  <2>3. VarbindsSized(two)
    BY <2>2 DEF VarbindsSized
  <2> QED
    BY <2>1, <2>2, <2>3, SizesFit
<1>8. Begins(one, name)
  <2>1. one = Tlv(t2, name) \o v
    BY <1>4
  <2> HIDE DEF one, t2
  <2> QED
    BY <1>1, <1>3, <2>1, Zenon DEF Begins
<1> HIDE DEF one, two, t1, t2
<1>9. /\ a \in Seq(Byte) /\ Len(a) \in Nat /\ Len(a) <= Len(one) + 4
      /\ b \in Seq(Byte) /\ Len(b) \in Nat /\ Len(b) <= Len(two) + 4
  BY <1>1, <1>6, <1>7, FieldSize
<1>10. Begins(binds, one)
  BY <1>1, <1>9, Zenon DEF Begins
<1> HIDE DEF a, b
<1>11. binds \in Values /\ VarbindsSized(binds)
  <2>1. binds \in Seq(Byte) /\ Len(binds) = Len(a) + Len(b)
    BY <1>9
  <2> HIDE DEF binds
  <2>2. Len(binds) <= 2000
    BY <1>6, <1>7, <1>9, <2>1
  <2> QED
    BY <2>1, <2>2, SizesFit DEF VarbindsSized
<1>12. Begins(one, EncodeOid(first))
  BY <1>8 DEF name
<1> HIDE DEF binds
<1> QED
  BY <1>5, <1>6, <1>10, <1>11, <1>12, Zenon

(* So are its v2c traps, *)
LEMMA V2TrapsMeant ==
  ASSUME NEW first \in Oids, NameSized(EncodeOid(first)),
         NEW second \in Oids, NameSized(EncodeOid(second)),
         NEW g, g.wire = EncodeV2(first, second), g.alert = TrapAlert(first)
  PROVE  MeantV2(g) /\ Whole(g.wire)
<1>1. PICK binds \in Values, varbind \in Values :
        /\ binds = Tlv(48, OidField(first) \o Tlv(67, <<9>>)) \o
                  Tlv(48, OidField(second) \o OidField(first))
        /\ VarbindsSized(binds)
        /\ Begins(binds, varbind) /\ Begins(varbind, EncodeOid(first))
  BY VarbindsBegin
<1>2. PICK body \in Values :
        /\ body = IntField(7) \o (IntField(0) \o (IntField(0) \o Tlv(48, binds)))
        /\ PduSized(body) /\ IsV2(body, binds)
  BY <1>1, V2Body
<1>3. EncodeV2(first, second) = Message(Tlv(167, body))
  BY <1>1, <1>2, Zenon DEF EncodeV2
<1>4. 167 \in Byte
  BY SmallNumbers
<1> DEFINE trailing == <<>>
<1>5. PICK content \in Values :
        EncodeV2(first, second) = Tlv(48, content) \o trailing /\ Carries(content, 167, body)
  BY <1>2, <1>3, <1>4, MessageCarries
<1>6. trailing \in Seq(Byte)
  OBVIOUS
<1> HIDE DEF trailing
<1>7. g.wire = Tlv(48, content) \o trailing
  BY <1>5
<1>8. EncodeOid(first) \in Values
  BY NameSize
<1>9. Whole(g.wire)
  <2>1. Whole(Message(Tlv(167, body)))
    BY <1>2, <1>4, MessageCarries
  <2> QED
    BY <1>3, <2>1
<1> QED
  BY <1>1, <1>2, <1>5, <1>6, <1>7, <1>8, <1>9, Zenon DEF MeantV2

(* A bare message, *)
LEMMA BareBuilt ==
  ASSUME NEW g, NEW content \in Values, NEW body \in Values,
         g.wire = Tlv(48, content) \o <<>>, g.alert = TrapAlert(<<>>),
         \/ Carries(content, 167, body) /\ IsV2(body, <<>>)
         \/ \E tag \in Byte \ {164, 167} : Carries(content, tag, body)
  PROVE  MeantBare(g)
<1> DEFINE trailing == <<>>
<1>1. trailing \in Seq(Byte) /\ g.wire = Tlv(48, content) \o trailing
  OBVIOUS
<1> HIDE DEF trailing
<1> QED
  BY <1>1, Zenon DEF MeantBare

(* its v2c trap with no varbinds *)
LEMMA BareMeant ==
  ASSUME NEW g, g.wire = EncodeBare, g.alert = TrapAlert(<<>>)
  PROVE  MeantBare(g) /\ Whole(g.wire)
<1> DEFINE nothing == <<>>
<1>1. nothing \in Values /\ VarbindsSized(nothing)
  <2>1. nothing \in Seq(Byte) /\ Len(nothing) <= 2000
    OBVIOUS
  <2> HIDE DEF nothing
  <2> QED
    BY <2>1, SizesFit DEF VarbindsSized
<1>2. 167 \in Byte
  BY SmallNumbers
<1> HIDE DEF nothing
<1>3. PICK body \in Values :
        /\ body = IntField(7) \o (IntField(0) \o (IntField(0) \o Tlv(48, nothing)))
        /\ PduSized(body) /\ IsV2(body, nothing)
  BY <1>1, V2Body
<1>4. EncodeBare = Message(Tlv(167, body)) /\ IsV2(body, <<>>)
  BY <1>3, Zenon DEF EncodeBare, nothing
<1>5. PICK content \in Values :
        EncodeBare = Tlv(48, content) \o <<>> /\ Carries(content, 167, body)
  BY <1>2, <1>3, <1>4, MessageCarries
<1>6. Whole(g.wire)
  <2>1. Whole(Message(Tlv(167, body)))
    BY <1>2, <1>3, MessageCarries
  <2> QED
    BY <1>4, <2>1
<1> QED
  BY <1>4, <1>5, <1>6, BareBuilt

(* and its requests. *)
LEMMA RequestMeant ==
  ASSUME NEW g, g.wire = EncodeGet, g.alert = TrapAlert(<<>>)
  PROVE  MeantBare(g) /\ Whole(g.wire)
<1> DEFINE request == IntField(7)
<1>1. 160 \in Byte /\ 160 # 164 /\ 160 # 167 /\ 2 \in Byte /\ 7 \in Byte
  BY SmallNumbers
<1>2. request \in Values /\ PduSized(request)
  <2>1. request \in Seq(Byte) /\ Len(request) \in Nat /\ Len(request) <= 5
    BY <1>1, SmallField DEF IntField
  <2> HIDE DEF request
  <2>2. Len(request) <= 3000
    BY <2>1
  <2> QED
    BY <2>1, <2>2, SizesFit DEF PduSized
<1>3. EncodeGet = Message(Tlv(160, request))
  BY DEF EncodeGet
<1> HIDE DEF request
<1>4. PICK content \in Values :
        EncodeGet = Tlv(48, content) \o <<>> /\ Carries(content, 160, request)
  BY <1>1, <1>2, <1>3, MessageCarries
<1>5. \E tag \in Byte \ {164, 167} : Carries(content, tag, request)
  BY <1>1, <1>4
<1>6. Whole(g.wire)
  <2>1. Whole(Message(Tlv(160, request)))
    BY <1>1, <1>2, MessageCarries
  <2> QED
    BY <1>3, <2>1
<1> QED
  BY <1>2, <1>4, <1>5, <1>6, BareBuilt

(* What the agent of Alerts sends about the objects it can name: its traps,   *)
(* whole,                                                                     *)
Traps(names) ==
  {[wire |-> EncodeV1(o), alert |-> TrapAlert(o)] : o \in names}
    \cup {[wire |-> EncodeV2(o, p), alert |-> TrapAlert(o)] : o \in names, p \in names}
    \cup {[wire |-> EncodeBare, alert |-> TrapAlert(<<>>)],
          [wire |-> EncodeGet, alert |-> TrapAlert(<<>>)]}

(* or cut anywhere. *)
Sent(g, names) ==
  \E t \in Traps(names) :
    \/ g.wire = t.wire /\ g.alert = t.alert
    \/ \E n \in 0 .. Len(t.wire) - 1 : g.wire = SubSeq(t.wire, 1, n) /\ g.alert = NoAlert

(* All of it means something. *)
LEMMA SentMeant ==
  ASSUME NEW names \in SUBSET Oids, \A o \in names : NameSized(EncodeOid(o)),
         NEW g, Sent(g, names)
  PROVE  MeantV1(g) \/ MeantV2(g) \/ MeantBare(g) \/ MeantCut(g)
<1>1. PICK t \in Traps(names) :
        \/ g.wire = t.wire /\ g.alert = t.alert
        \/ \E n \in 0 .. Len(t.wire) - 1 : g.wire = SubSeq(t.wire, 1, n) /\ g.alert = NoAlert
  BY DEF Sent
<1>2. ASSUME NEW h, h.wire = t.wire, h.alert = t.alert
      PROVE  (MeantV1(h) \/ MeantV2(h) \/ MeantBare(h)) /\ Whole(h.wire)
  <2>1. CASE \E o \in names : t = [wire |-> EncodeV1(o), alert |-> TrapAlert(o)]
    <3>1. PICK o \in names : t = [wire |-> EncodeV1(o), alert |-> TrapAlert(o)]
      BY <2>1
    <3>2. h.wire = EncodeV1(o) /\ h.alert = TrapAlert(o)
      BY <1>2, <3>1
    <3> QED
      BY <3>2, V1TrapsMeant
  <2>2. CASE \E o, p \in names : t = [wire |-> EncodeV2(o, p), alert |-> TrapAlert(o)]
    <3>1. PICK o \in names, p \in names : t = [wire |-> EncodeV2(o, p), alert |-> TrapAlert(o)]
      BY <2>2
    <3>2. h.wire = EncodeV2(o, p) /\ h.alert = TrapAlert(o)
      BY <1>2, <3>1
    <3> QED
      BY <3>2, V2TrapsMeant
  <2>3. CASE t = [wire |-> EncodeBare, alert |-> TrapAlert(<<>>)]
    BY <1>2, <2>3, BareMeant
  <2>4. CASE t = [wire |-> EncodeGet, alert |-> TrapAlert(<<>>)]
    BY <1>2, <2>4, RequestMeant
  <2> QED
    BY <2>1, <2>2, <2>3, <2>4 DEF Traps
<1>3. Whole(t.wire)
  BY <1>2
<1> QED
  BY <1>1, <1>2, <1>3 DEF MeantCut

(* Whatever objects the agents report on, identified by no more arcs than the *)
(* 128 of RFC 2578, whole messages and cut ones, and whatever lines there     *)
(* are: an alert shows what its sender meant.                                 *)
THEOREM AgentsAlwaysTrue ==
  ASSUME NEW names \in SUBSET Oids, \A o \in names : Len(o) <= 128,
         \A l \in Listener : \A g \in Datagrams[l] :
            IF l = "syslog" THEN MeantLine(g) ELSE Sent(g, names)
  PROVE  ListenersSpec => []AlertsTrue
<1>1. \A o \in names : NameSized(EncodeOid(o))
  BY NamesFit
<1>2. \A l \in Listener : \A g \in Datagrams[l] : Meant(l, g)
  BY <1>1, SentMeant DEF Meant
<1> QED
  BY <1>2, AlertsAlwaysTrue

-----------------------------------------------------------------------------
(***************************************************************************)
(* Secrets: the key that seals, and the passwords.                         *)
(***************************************************************************)
SealedRow == {r \in Rows : r.key # NoKey /\ r.text # NoPassword}
SomeRow == {Absent, NoSecret} \cup SealedRow

(* What a process has in its memory, by the phase it is in. *)
Placed ==
  /\ \A d \in DeviceIds : table[d] \in SomeRow
  /\ phase \in {"down", "ensuring", "checking"} => next = 1
  /\ phase = "importing" => next <= Len(Json)
  /\ phase # "down" => source # "none"
  /\ phase # "up" => task = "idle"
  /\ task = "idle" => rowsLeft = {}

SecretsOK == SecretsTypeOK /\ Placed

Clean == mishaps \cap {"unsaved", "fallback"} = {}

(* The process seals with the key that is kept. *)
MemoryKept ==
  Clean /\ phase # "down" => source = kind /\ (kind # "vault" => mem = disk[kind])

KeyInv == SecretsOK /\ MemoryKept /\ KeyKept

(* The password at rest of each device, and how the one given may differ. *)
Held(d) == IF table[d] = Absent THEN Missing ELSE table[d].text

Excepted(d) ==
  \/ d \in excused
  \/ given[d] = Missing /\ "emptied" \in mishaps
  \/ given[d] = NoPassword /\ d \in EnvDevices

Kept(d) == given[d] = Held(d) \/ Excepted(d) \/ (table[d] = Absent /\ "cut" \in mishaps)

(* What is still to be written keeps a password as what is at rest does. *)
Saving(d) == (given[d] = list[d] \/ Excepted(d)) /\ (list[d] = Missing => given[d] = Missing)

Pending(d) == \E i \in next .. Len(Json) : Json[i].device = d

AllKept ==
  /\ phase \in {"down", "ensuring", "checking"} => Present = {} \/ \A d \in DeviceIds : Kept(d)
  /\ phase = "importing" => \A d \in DeviceIds : IF Pending(d) THEN table[d] = Absent ELSE Kept(d)
  /\ phase = "up" => \A d \in DeviceIds : IF d \in rowsLeft THEN Saving(d) ELSE Kept(d)

(* A table is empty because nothing was imported yet or because the user      *)
(* deleted everything, and so is the place of a device.                       *)
EmptyTable ==
  /\ Present = {} \/ phase = "importing" =>
       "emptied" \in mishaps \/ \A d \in DeviceIds : given[d] = Legacy(d)
  /\ \A d \in DeviceIds : table[d] = Absent => given[d] \in {Missing, Legacy(d)}

PasswordInv == SecretsOK /\ AllKept /\ EmptyTable

(* The numbers that stand for no key, no password and no row are no others. *)
LEMMA SecretsNumbers ==
  /\ MaxTexts \in Nat /\ MaxStarts \in Nat /\ Count \in Nat /\ Count <= MaxTexts
  /\ NoKey \notin SealKeys /\ Unreachable \notin SealKeys /\ Unreachable # NoKey
  /\ NoPassword \in Texts /\ Garbled \in Texts /\ Garbled # NoPassword
  /\ Missing \notin Texts /\ 1 \in Texts /\ 1 \in SealKeys
  /\ 0 .. MaxTexts \subseteq Texts
BY SecretsAssumption DEF SealKeys, NoKey, Unreachable, NoPassword, Texts, Garbled, Missing

(* The rows there are: none, one without a password, and sealed ones. *)
LEMMA SecretsRows ==
  /\ Absent \in Rows /\ NoSecret \in Rows /\ Absent # NoSecret
  /\ Absent.key = NoKey /\ NoSecret.key = NoKey /\ NoSecret.text = NoPassword
  /\ SomeRow \subseteq Rows /\ Absent \notin SealedRow /\ NoSecret \notin SealedRow
  /\ \A r \in SomeRow : /\ r.key = NoKey => r = Absent \/ r = NoSecret
                        /\ r # Absent => r.text \in Texts
                        /\ r.key # NoKey => r.key \in SealKeys /\ r.text # NoPassword
<1>1. Absent \in Rows /\ NoSecret \in Rows /\ Absent.text = Garbled
      /\ Absent.key = NoKey /\ NoSecret.key = NoKey /\ NoSecret.text = NoPassword
  BY SecretsNumbers DEF Absent, NoSecret, Rows
<1>2. Absent # NoSecret
  BY <1>1, SecretsNumbers
<1> QED
  BY <1>1, <1>2 DEF SomeRow, SealedRow, Rows

(* A row that is written holds its text, and is sealed with the answer. *)
LEMMA RowWritten ==
  ASSUME NEW text \in Texts, NEW answer, CanSeal(text, answer)
  PROVE  /\ Row(text, answer) \in SomeRow /\ Row(text, answer) # Absent
         /\ Row(text, answer).text = text
         /\ Row(text, answer).key # NoKey => Row(text, answer).key = answer
<1>1. CASE text = NoPassword
  BY <1>1, SecretsRows DEF Row, SomeRow
<1>2. CASE text # NoPassword
  <2>1. answer \in SealKeys
    BY <1>2 DEF CanSeal
  <2>2. PICK r : r = [key |-> answer, text |-> text]
    OBVIOUS
  <2>3. r \in Rows /\ r.key = answer /\ r.text = text
    BY <2>1, <2>2 DEF Rows
  <2>4. Row(text, answer) = r
    BY <1>2, <2>2 DEF Row, Sealed
  <2> QED
    BY <1>2, <2>1, <2>3, <2>4, SecretsNumbers, SecretsRows DEF SomeRow, SealedRow
<1> QED
  BY <1>1, <1>2

(* What a row opens to is a text, its own unless it could not be opened. *)
LEMMA RowOpened ==
  ASSUME NEW r \in SomeRow, r # Absent, NEW answer
  PROVE  /\ Opened(r, answer) \in Texts
         /\ r.key = NoKey => Opened(r, answer) = NoPassword /\ r.text = NoPassword
         /\ r.key # NoKey /\ r.key = answer => Opened(r, answer) = r.text /\ r.text # NoPassword
BY SecretsRows, SecretsNumbers DEF Opened

(* A backend answers with a key, with none, or not at all. *)
LEMMA AnswersTyped ==
  ASSUME SecretsTypeOK
  PROVE  Answers \subseteq {NoKey} \cup SealKeys \cup {Unreachable}
<1>1. CASE source = "vault"
  <2>1. kind = "vault"
    BY <1>1 DEF SecretsTypeOK
  <2>2. disk["vault"] \in {NoKey} \cup SealKeys
    BY <2>1 DEF SecretsTypeOK
  <2> QED
    BY <1>1, <2>2 DEF Answers
<1>2. CASE source # "vault"
  BY <1>2 DEF SecretsTypeOK, Answers
<1> QED
  BY <1>1, <1>2

(* An entry of the JSON inventory, and the password of its device *)
LEMMA JsonEntries ==
  /\ Len(Json) \in Nat /\ DOMAIN Json = 1 .. Len(Json)
  /\ \A i \in DOMAIN Json : /\ Json[i].device \in DeviceIds /\ Json[i].text \in Texts
                            /\ Json[i].key \in {NoKey} \cup SealKeys
                            /\ Legacy(Json[i].device) = Json[i].text
  /\ \A d : Legacy(d) \in Texts \cup {Missing}
  /\ \A d : (\A i \in DOMAIN Json : Json[i].device # d) => Legacy(d) = Missing
<1> DEFINE Entry == [device : DeviceIds, text : Texts, key : {NoKey} \cup SealKeys]
<1>1. Json \in Seq(Entry) /\ \A i, j \in DOMAIN Json : Json[i].device = Json[j].device => i = j
  BY SecretsAssumption
<1>2. \A e \in Entry : e.device \in DeviceIds /\ e.text \in Texts /\ e.key \in {NoKey} \cup SealKeys
  OBVIOUS
<1> HIDE DEF Entry
<1>3. Len(Json) \in Nat /\ DOMAIN Json = 1 .. Len(Json) /\ \A i \in DOMAIN Json : Json[i] \in Entry
  BY <1>1
<1>4. ASSUME NEW i \in DOMAIN Json
      PROVE  Legacy(Json[i].device) = Json[i].text
  <2>1. PICK e : e = CHOOSE x \in {Json[j] : j \in DOMAIN Json} : x.device = Json[i].device
    OBVIOUS
  <2>2. \E x \in {Json[j] : j \in DOMAIN Json} : x.device = Json[i].device
    OBVIOUS
  <2>3. e \in {Json[j] : j \in DOMAIN Json} /\ e.device = Json[i].device
    BY <2>1, <2>2
  <2>4. e = Json[i]
    BY <1>1, <2>3
  <2> QED
    BY <2>1, <2>4 DEF Legacy
<1>5. ASSUME NEW d
      PROVE  (\A i \in DOMAIN Json : Json[i].device # d) => Legacy(d) = Missing
  BY DEF Legacy
<1>6. ASSUME NEW d
      PROVE  Legacy(d) \in Texts \cup {Missing}
  BY <1>2, <1>3, <1>4, <1>5
<1> QED
  BY <1>2, <1>3, <1>4, <1>5, <1>6

(* The import is at an entry of the inventory. *)
LEMMA NextEntry ==
  ASSUME SecretsOK, phase = "importing"
  PROVE  next \in DOMAIN Json /\ next \in 1 .. Len(Json) /\ Len(Json) \in Nat
<1>1. next <= Len(Json)
  BY DEF SecretsOK, Placed
<1>2. next \in 1 .. Len(Json) + 1
  BY DEF SecretsOK, SecretsTypeOK
<1>3. Len(Json) \in Nat /\ DOMAIN Json = 1 .. Len(Json)
  BY JsonEntries
<1>4. next \in 1 .. Len(Json)
  BY <1>1, <1>2, <1>3
<1> QED
  BY <1>3, <1>4

(* Both installations, the new one and the one in use, are well formed. *)
LEMMA SecretsOKInit ==
  SecretsInit => SecretsOK
<1> SUFFICES ASSUME SecretsInit PROVE SecretsOK
  OBVIOUS
<1> USE DEF SecretsInit
<1>1. kind \in Kinds /\ source \in {"none", "env", kind} /\ mem \in {NoKey} \cup SealKeys
  OBVIOUS
<1>2. starts \in 0 .. MaxStarts /\ fresh \in 0 .. MaxTexts /\ var \in Texts /\ varMem \in Texts
  BY SecretsNumbers
<1>3. disk \in [Kinds \cup {"env"} -> {NoKey} \cup SealKeys]
  BY SecretsNumbers
<1>4. next \in 1 .. Len(Json) + 1
  <2>1. Len(Json) \in Nat
    BY SecretsAssumption
  <2> QED
    BY <2>1
<1>5. list \in [DeviceIds -> Texts \cup {Missing}] /\ shown \in [DeviceIds -> Texts \cup {Missing}]
  BY DEF Empty
<1>6. \A d \in DeviceIds : d \in Texts /\ d # NoPassword
  BY SecretsNumbers DEF DeviceIds, Texts, NoPassword, Garbled
<1>7. given \in [DeviceIds -> Texts \cup {Missing}]
  BY <1>6, JsonEntries
<1>8. \A d \in DeviceIds : table[d] \in SomeRow
  <2>1. ASSUME NEW d \in DeviceIds
        PROVE  Sealed(d, 1) \in SealedRow
    <3>1. [key |-> 1, text |-> d] \in Rows
      BY <1>6, SecretsNumbers DEF Rows
    <3> QED
      BY <1>6, <3>1, SecretsNumbers DEF Sealed, SealedRow
  <2> QED
    BY <1>6, <2>1 DEF SomeRow
<1>9. table \in [DeviceIds -> Rows]
  <2>1. \E f : table = [d \in DeviceIds |-> f[d]]
    <3>1. CASE table = [d \in DeviceIds |-> Absent]
      BY <3>1
    <3>2. CASE table = [d \in DeviceIds |-> Sealed(given[d], 1)]
      BY <3>2
    <3> QED
      BY <3>1, <3>2
  <2> QED
    BY <1>8, <2>1, SecretsRows
<1>10. SecretsTypeOK
  BY <1>1, <1>2, <1>3, <1>4, <1>5, <1>7, <1>9 DEF SecretsTypeOK
<1> QED
  BY <1>8, <1>10 DEF SecretsOK, Placed

(* The process ends. *)
LEMMA DownOK ==
  ASSUME SecretsOK, Down
  PROVE  SecretsOK'
<1>1. SecretsTypeOK /\ Placed
  BY DEF SecretsOK
<1>2. Len(Json) \in Nat
  BY SecretsAssumption
<1>3. SecretsTypeOK'
  BY <1>1, <1>2, SecretsNumbers DEF Down, SecretsTypeOK, Empty
<1>4. Placed'
  BY <1>1 DEF Down, Placed
<1> QED
  BY <1>3, <1>4 DEF SecretsOK

(* What a load lists for a device: nothing for a missing one, the password of *)
(* a row that opens, a blank or the variable for one that is blank.           *)
LEMMA LoadLists ==
  ASSUME SecretsOK, NEW answers, NEW value \in Variable, NEW d \in DeviceIds,
         NEW l, l = ListedPasswords(answers, value)[d]
  PROVE  /\ table[d] = Absent => l = Missing
         /\ table[d] # Absent => l \in Texts
         /\ table[d] # Absent /\ d \notin Secret =>
              table[d].text = NoPassword /\ (l = NoPassword \/ d \in EnvDevices)
         /\ d \in Secret /\ answers[d] = table[d].key => l = table[d].text
<1>1. table[d] \in SomeRow
  BY DEF SecretsOK, Placed
<1>2. value \in Texts
  BY SecretsNumbers DEF Variable, SecretsOK, SecretsTypeOK
<1>3. l = IF table[d] = Absent THEN Missing
          ELSE IF Opened(table[d], answers[d]) = NoPassword /\ d \in EnvDevices THEN value
          ELSE Opened(table[d], answers[d])
  BY DEF ListedPasswords
<1>4. d \in Secret <=> table[d].key # NoKey
  BY DEF Secret
<1>5. CASE table[d] = Absent
  BY <1>3, <1>4, <1>5, SecretsRows
<1>6. CASE table[d] # Absent
  <2>1. /\ Opened(table[d], answers[d]) \in Texts
        /\ table[d].key = NoKey => Opened(table[d], answers[d]) = NoPassword /\ table[d].text = NoPassword
        /\ table[d].key # NoKey /\ table[d].key = answers[d] =>
             Opened(table[d], answers[d]) = table[d].text /\ table[d].text # NoPassword
    BY <1>1, <1>6, RowOpened
  <2> QED
    BY <1>2, <1>3, <1>4, <1>6, <2>1
<1> QED
  BY <1>5, <1>6

(* A load, and the change made to the list *)
LEMMA LoadOK ==
  ASSUME SecretsOK, NEW name \in {"refresh", "change"}, NEW change, NEW wish, NEW blamed,
         LoadAndChange(name, change, wish, blamed), fresh' \in 0 .. MaxTexts,
         \A d \in DOMAIN change : change[d] \in Texts \cup {Missing},
         wish \in [DeviceIds -> Texts \cup {Missing}]
  PROVE  SecretsOK'
<1>1. SecretsTypeOK /\ Placed
  BY DEF SecretsOK
<1>2. PICK answers \in [DeviceIds -> Answers], value \in Variable :
        list' = [d \in DeviceIds |->
                   IF d \in DOMAIN change THEN change[d] ELSE ListedPasswords(answers, value)[d]]
  BY DEF LoadAndChange
<1>3. list' \in [DeviceIds -> Texts \cup {Missing}]
  <2>1. ASSUME NEW d \in DeviceIds
        PROVE  ListedPasswords(answers, value)[d] \in Texts \cup {Missing}
    BY LoadLists
  <2> QED
    BY <1>2, <2>1
<1>4. phase = "up" /\ task' = name /\ rowsLeft' = Present /\ given' = wish
      /\ UNCHANGED <<bootVars, table, shown, var, varMem, mishaps>>
  BY DEF LoadAndChange
<1>5. Present \subseteq DeviceIds
  BY DEF Present
<1>6. SecretsTypeOK'
  BY <1>1, <1>3, <1>4, <1>5 DEF SecretsTypeOK, bootVars
<1>7. Placed'
  BY <1>1, <1>4 DEF Placed, bootVars
<1> QED
  BY <1>6, <1>7 DEF SecretsOK

(* The form of a device is submitted: a change of one password. *)
LEMMA FormChanges ==
  ASSUME SecretsOK, NEW d \in DeviceIds, SetPassword(d) \/ EditOther(d) \/ RemoveDevice(d)
  PROVE  \E text, wish, blamed :
           /\ text \in Texts \cup {Missing}
           /\ LoadAndChange("change", [e \in {d} |-> text], wish, blamed)
           /\ table[d] # Absent /\ fresh' \in 0 .. MaxTexts
           /\ wish \in [DeviceIds -> Texts \cup {Missing}]
           /\ wish[d] = text \/ (d \in blamed /\ text # Missing)
           /\ \A e \in DeviceIds : e # d => wish[e] = given[e]
<1>1. SecretsTypeOK
  BY DEF SecretsOK
<1>2. CASE SetPassword(d)
  <2>1. /\ table[d] # Absent /\ fresh < MaxTexts /\ fresh' = fresh + 1
        /\ LoadAndChange("change", [e \in {d} |-> fresh'], [given EXCEPT ![d] = fresh'], {})
    BY <1>2 DEF SetPassword
  <2>2. fresh' \in 0 .. MaxTexts /\ fresh' \in Texts
    BY <1>1, <2>1, SecretsNumbers DEF SecretsTypeOK
  <2>3. PICK wish : wish = [given EXCEPT ![d] = fresh']
    OBVIOUS
  <2>4. wish \in [DeviceIds -> Texts \cup {Missing}] /\ wish[d] = fresh'
        /\ \A e \in DeviceIds : e # d => wish[e] = given[e]
    BY <1>1, <2>2, <2>3 DEF SecretsTypeOK
  <2>5. PICK text : text = fresh'
    OBVIOUS
  <2>6. LoadAndChange("change", [e \in {d} |-> text], wish, {})
    BY <2>1, <2>3, <2>5
  <2> QED
    BY <2>1, <2>2, <2>4, <2>5, <2>6
<1>3. CASE EditOther(d)
  <2>1. /\ shown[d] # Missing /\ table[d] # Absent /\ fresh' = fresh
        /\ LoadAndChange("change", [e \in {d} |-> shown[d]], given, {d})
    BY <1>3 DEF EditOther
  <2>2. fresh' \in 0 .. MaxTexts /\ shown[d] \in Texts \cup {Missing} /\ given \in [DeviceIds -> Texts \cup {Missing}]
    BY <1>1, <2>1 DEF SecretsTypeOK
  <2> QED
    BY <2>1, <2>2
<1>4. CASE RemoveDevice(d)
  <2>1. /\ table[d] # Absent /\ fresh' = fresh
        /\ LoadAndChange("change", [e \in {d} |-> Missing], [given EXCEPT ![d] = Missing], {})
    BY <1>4 DEF RemoveDevice
  <2>2. PICK wish : wish = [given EXCEPT ![d] = Missing]
    OBVIOUS
  <2>3. wish \in [DeviceIds -> Texts \cup {Missing}] /\ wish[d] = Missing
        /\ \A e \in DeviceIds : e # d => wish[e] = given[e]
    BY <1>1, <2>2 DEF SecretsTypeOK
  <2>4. fresh' \in 0 .. MaxTexts
    BY <1>1, <2>1 DEF SecretsTypeOK
  <2>5. LoadAndChange("change", [e \in {d} |-> Missing], wish, {})
    BY <2>1, <2>2
  <2> QED
    BY <2>1, <2>3, <2>4, <2>5
<1> QED
  BY <1>2, <1>3, <1>4

(* One step for every action *)
LEMMA SecretsOKStep ==
  SecretsOK /\ [SecretsNext]_secretsVars => SecretsOK'
<1> SUFFICES ASSUME SecretsOK, [SecretsNext]_secretsVars PROVE SecretsOK'
  OBVIOUS
<1>1. SecretsTypeOK /\ Placed
  BY DEF SecretsOK
<1>2. CASE StartApp
  <2>1. /\ phase = "down" /\ starts < MaxStarts /\ starts' = starts + 1 /\ phase' = "ensuring"
        /\ UNCHANGED <<kind, disk, next, table, listVars, var, fresh, given, excused>>
    BY <1>2 DEF StartApp
  <2>2. source' \in {kind, "env"} /\ source' # "none"
    <3>1. kind # "none"
      BY <1>1, SecretsAssumption DEF SecretsTypeOK
    <3> QED
      BY <1>2, <3>1 DEF StartApp, GetBackend, Fallback
  <2>3. mem' \in {NoKey} \cup SealKeys
    <3>1. disk[source'] \in {NoKey} \cup SealKeys
      BY <1>1, <2>2 DEF SecretsTypeOK
    <3> QED
      BY <1>2, <3>1 DEF StartApp, ReadStore
  <2>4. starts' \in 0 .. MaxStarts
    BY <1>1, <2>1, SecretsNumbers DEF SecretsTypeOK
  <2>5. varMem' \in Texts
    BY <1>1, <1>2, SecretsNumbers DEF StartApp, SecretsTypeOK
  <2>6. SecretsTypeOK'
    BY <1>1, <2>1, <2>2, <2>3, <2>4, <2>5 DEF SecretsTypeOK, listVars
  <2>7. Placed'
    BY <1>1, <2>1, <2>2 DEF Placed, listVars
  <2> QED
    BY <2>6, <2>7 DEF SecretsOK
<1>3. CASE StopApp
  BY <1>3, DownOK DEF StopApp
<1>4. CASE EnsureKey
  <2>1. /\ phase = "ensuring" /\ phase' = "checking"
        /\ UNCHANGED <<kind, source, starts, next, table, listVars, varVars, given, excused>>
    BY <1>4 DEF EnsureKey
  <2>2. starts + 1 \in SealKeys
    BY <1>1, SecretsNumbers DEF SecretsTypeOK, SealKeys
  <2>3. source \in Kinds \cup {"env"}
    BY <1>1, <2>1 DEF Placed, SecretsTypeOK
  <2>4. mem' \in {mem, starts + 1} /\ disk' \in {disk, [disk EXCEPT ![source] = starts + 1]}
    BY <1>4 DEF EnsureKey, Put
  <2>5. mem' \in {NoKey} \cup SealKeys
    BY <1>1, <2>2, <2>4 DEF SecretsTypeOK
  <2>6. disk' \in [Kinds \cup {"env"} -> {NoKey} \cup SealKeys]
    BY <1>1, <2>2, <2>4 DEF SecretsTypeOK
  <2>7. SecretsTypeOK'
    BY <1>1, <2>1, <2>5, <2>6 DEF SecretsTypeOK, listVars, varVars
  <2>8. Placed'
    BY <1>1, <2>1 DEF Placed, listVars
  <2> QED
    BY <2>7, <2>8 DEF SecretsOK
<1>5. CASE CheckTable
  <2>1. CASE Down
    BY <2>1, DownOK
  <2>2. CASE /\ phase = "checking"
             /\ phase' = IF Present = {} /\ Json # <<>> THEN "importing" ELSE "up"
             /\ UNCHANGED <<kind, disk, source, mem, starts, next, table, listVars, varVars, secretsHistory>>
    <3>1. SecretsTypeOK'
      BY <1>1, <2>2 DEF SecretsTypeOK, listVars, varVars, secretsHistory
    <3>2. Json # <<>> => 1 <= Len(Json)
      BY SecretsAssumption
    <3>3. Placed'
      BY <1>1, <2>2, <3>2 DEF Placed, listVars
    <3> QED
      BY <3>1, <3>3 DEF SecretsOK
  <2> QED
    BY <1>5, <2>1, <2>2 DEF CheckTable
<1>6. CASE ImportRow
  <2>1. phase = "importing" /\ next \in DOMAIN Json /\ next \in 1 .. Len(Json)
    BY <1>6, NextEntry DEF ImportRow
  <2>2. CASE Down
    BY <2>2, DownOK
  <2>3. ASSUME NEW opening \in Answers, NEW sealing \in Answers,
               CanSeal(Imported(Json[next], opening), sealing),
               table' = [table EXCEPT ![Json[next].device] = Row(Imported(Json[next], opening), sealing)],
               next' = next + 1, phase' = IF next = Len(Json) THEN "up" ELSE "importing",
               UNCHANGED <<kind, disk, source, mem, starts, listVars, varVars, given, mishaps>>
        PROVE  SecretsOK'
    <3>1. Json[next].device \in DeviceIds /\ Imported(Json[next], opening) \in Texts
      BY <2>1, JsonEntries, SecretsNumbers DEF Imported
    <3>2. PICK r : r = Row(Imported(Json[next], opening), sealing)
      OBVIOUS
    <3>3. r \in SomeRow /\ r \in Rows
      BY <2>3, <3>1, <3>2, RowWritten, SecretsRows
    <3>4. /\ table' \in [DeviceIds -> Rows]
          /\ \A d \in DeviceIds : table'[d] \in SomeRow
      <4>1. table' = [table EXCEPT ![Json[next].device] = r]
        BY <2>3, <3>2
      <4> QED
        BY <1>1, <3>1, <3>3, <4>1 DEF SecretsTypeOK, Placed
    <3>5. /\ next' \in 1 .. Len(Json) + 1
          /\ phase' = "importing" => next' <= Len(Json)
          /\ phase' \in {"up", "importing"}
      BY <2>1, <2>3, JsonEntries
    <3>6. SecretsTypeOK'
      BY <1>1, <2>3, <3>4, <3>5 DEF SecretsTypeOK, listVars, varVars
    <3>7. Placed'
      BY <1>1, <2>1, <2>3, <3>4, <3>5 DEF Placed, listVars
    <3> QED
      BY <3>6, <3>7 DEF SecretsOK
  <2> QED
    BY <1>6, <2>2, <2>3 DEF ImportRow
<1>7. CASE Refresh
  <2>1. LoadAndChange("refresh", <<>>, given, {}) /\ fresh' = fresh
    BY <1>7 DEF Refresh
  <2>2. PICK change : change = <<>>
    OBVIOUS
  <2>3. DOMAIN change = {}
    BY <2>2
  <2>4. fresh' \in 0 .. MaxTexts /\ given \in [DeviceIds -> Texts \cup {Missing}]
    BY <1>1, <2>1 DEF SecretsTypeOK
  <2> QED
    BY <2>1, <2>2, <2>3, <2>4, LoadOK
<1>8. ASSUME NEW d \in DeviceIds, SetPassword(d) \/ EditOther(d) \/ RemoveDevice(d)
      PROVE  SecretsOK'
  <2>1. PICK text, wish, blamed :
          /\ text \in Texts \cup {Missing}
          /\ LoadAndChange("change", [e \in {d} |-> text], wish, blamed)
          /\ fresh' \in 0 .. MaxTexts /\ wish \in [DeviceIds -> Texts \cup {Missing}]
    BY <1>8, FormChanges
  <2>2. PICK change : change = [e \in {d} |-> text]
    OBVIOUS
  <2>3. \A e \in DOMAIN change : change[e] \in Texts \cup {Missing}
    BY <2>1, <2>2
  <2> QED
    BY <2>1, <2>2, <2>3, LoadOK
<1>9. CASE SaveRow
  <2>1. phase = "up"
    BY <1>1, <1>9 DEF SaveRow, Placed
  <2>2. UNCHANGED <<bootVars, varVars, given, mishaps>>
    BY <1>9 DEF SaveRow
  <2>3. PICK d \in Listing, answer \in Answers :
          \/ /\ CanSeal(list[d], answer)
             /\ table' = [table EXCEPT ![d] = Row(list[d], answer)]
             /\ rowsLeft' = rowsLeft \ {d}
             /\ UNCHANGED <<task, list, shown, excused>>
          \/ /\ ~CanSeal(list[d], answer)
             /\ excused' = excused \cup rowsLeft
             /\ Leave
             /\ UNCHANGED table
    BY <1>9 DEF SaveRow
  <2>4. d \in DeviceIds /\ list[d] \in Texts
    BY <1>1 DEF Listing, SecretsTypeOK
  <2>5. CASE /\ CanSeal(list[d], answer)
             /\ table' = [table EXCEPT ![d] = Row(list[d], answer)]
             /\ rowsLeft' = rowsLeft \ {d}
             /\ UNCHANGED <<task, list, shown, excused>>
    <3>1. PICK r : r = Row(list[d], answer)
      OBVIOUS
    <3>2. r \in SomeRow /\ r \in Rows
      BY <2>4, <2>5, <3>1, RowWritten, SecretsRows
    <3>3. /\ table' \in [DeviceIds -> Rows]
          /\ \A e \in DeviceIds : table'[e] \in SomeRow
      BY <1>1, <2>4, <2>5, <3>1, <3>2 DEF SecretsTypeOK, Placed
    <3>4. SecretsTypeOK'
      BY <1>1, <2>2, <2>5, <3>3 DEF SecretsTypeOK, bootVars, varVars
    <3>5. Placed'
      BY <1>1, <1>9, <2>1, <2>2, <2>5, <3>3 DEF SaveRow, Placed, bootVars
    <3> QED
      BY <3>4, <3>5 DEF SecretsOK
  <2>6. CASE Leave /\ UNCHANGED table
    <3>1. SecretsTypeOK'
      BY <1>1, <2>2, <2>6 DEF SecretsTypeOK, Leave, Empty, bootVars, varVars
    <3>2. Placed'
      BY <1>1, <2>1, <2>2, <2>6 DEF Placed, Leave, bootVars
    <3> QED
      BY <3>1, <3>2 DEF SecretsOK
  <2> QED
    BY <2>3, <2>5, <2>6
<1>10. CASE DeleteRow
  <2>1. PICK d \in rowsLeft : table' = [table EXCEPT ![d] = Absent] /\ rowsLeft' = rowsLeft \ {d}
    BY <1>10 DEF DeleteRow
  <2>2. task # "idle" /\ UNCHANGED <<bootVars, task, list, shown, varVars, given, excused>>
    BY <1>10 DEF DeleteRow
  <2>3. d \in DeviceIds
    BY <1>1 DEF SecretsTypeOK
  <2>4. /\ table' \in [DeviceIds -> Rows]
        /\ \A e \in DeviceIds : table'[e] \in SomeRow
    BY <1>1, <2>1, <2>3, SecretsRows DEF SecretsTypeOK, Placed, SomeRow
  <2>5. SecretsTypeOK'
    BY <1>1, <2>1, <2>2, <2>4 DEF SecretsTypeOK, bootVars, varVars
  <2>6. Placed'
    BY <1>1, <2>2, <2>4 DEF Placed, bootVars
  <2> QED
    BY <2>5, <2>6 DEF SecretsOK
<1>11. CASE SaveDone
  <2>1. task # "idle" /\ Leave /\ UNCHANGED <<bootVars, table, varVars, secretsHistory>>
    BY <1>11 DEF SaveDone
  <2>2. SecretsTypeOK'
    BY <1>1, <2>1 DEF SecretsTypeOK, Leave, Empty, bootVars, varVars, secretsHistory
  <2>3. Placed'
    BY <1>1, <2>1 DEF Placed, Leave, bootVars
  <2> QED
    BY <2>2, <2>3 DEF SecretsOK
<1>12. CASE RotateVariable
  <2>1. /\ fresh < MaxTexts /\ fresh' = fresh + 1 /\ var' = fresh'
        /\ UNCHANGED <<bootVars, table, listVars, varMem, secretsHistory>>
    BY <1>12 DEF RotateVariable
  <2>2. fresh' \in 0 .. MaxTexts /\ var' \in Texts
    BY <1>1, <2>1, SecretsNumbers DEF SecretsTypeOK
  <2>3. SecretsTypeOK'
    BY <1>1, <2>1, <2>2 DEF SecretsTypeOK, bootVars, listVars, secretsHistory
  <2>4. Placed'
    BY <1>1, <2>1 DEF Placed, bootVars, listVars
  <2> QED
    BY <2>3, <2>4 DEF SecretsOK
<1>13. CASE UNCHANGED secretsVars
  <2>1. SecretsTypeOK'
    BY <1>1, <1>13 DEF SecretsTypeOK, secretsVars, bootVars, listVars, varVars, secretsHistory
  <2>2. Placed'
    BY <1>1, <1>13 DEF Placed, secretsVars, bootVars, listVars
  <2> QED
    BY <2>1, <2>2 DEF SecretsOK
<1> QED
  BY <1>2, <1>3, <1>4, <1>5, <1>6, <1>7, <1>8, <1>9, <1>10, <1>11, <1>12, <1>13 DEF SecretsNext

(* Types, for any devices, inventories, kinds of backends and bounds. *)
THEOREM SecretsTypeCorrect == SecretsSpec => []SecretsTypeOK
<1>1. SecretsOK => SecretsTypeOK
  BY DEF SecretsOK
<1> QED
  BY <1>1, SecretsOKInit, SecretsOKStep, PTL DEF SecretsSpec

(* While nothing went wrong, what the backend answers is the key it keeps. *)
LEMMA AnswersKept ==
  ASSUME SecretsOK, MemoryKept, Clean, phase # "down", NEW answer \in Answers, answer # Unreachable
  PROVE  answer = disk[kind]
BY DEF MemoryKept, Answers

(* A step that touches neither the rows nor the kept key *)
LEMMA KeysUntouched ==
  ASSUME KeyKept, UNCHANGED <<kind, disk, table>>, mishaps \subseteq mishaps'
  PROVE  KeyKept'
BY DEF KeyKept, Secret

(* A step that touches no key, in memory or kept *)
LEMMA MemoryUntouched ==
  ASSUME MemoryKept, UNCHANGED <<kind, disk, source, mem>>, phase # "down", mishaps \subseteq mishaps'
  PROVE  MemoryKept'
BY DEF MemoryKept, Clean

(* A row is written, sealed with the key the backend answers. *)
LEMMA RowKeyKept ==
  ASSUME SecretsOK, MemoryKept, KeyKept, phase # "down",
         NEW d \in DeviceIds, NEW text \in Texts, NEW answer \in Answers, CanSeal(text, answer),
         table' = [table EXCEPT ![d] = Row(text, answer)], UNCHANGED <<kind, disk, mishaps>>
  PROVE  KeyKept'
<1>1. PICK r : r = Row(text, answer)
  OBVIOUS
<1>2. r \in SomeRow /\ (r.key # NoKey => r.key = answer /\ answer \in SealKeys)
  BY <1>1, RowWritten, SecretsRows
<1>3. Clean /\ r.key # NoKey => r.key = disk[kind]
  BY <1>2, AnswersKept, SecretsNumbers
<1>4. \A e \in DeviceIds : table'[e] = IF e = d THEN r ELSE table[e]
  BY <1>1 DEF SecretsOK, SecretsTypeOK
<1> QED
  BY <1>3, <1>4 DEF KeyKept, Secret, Clean

(* In an installation in use every row is sealed with the key that is kept. *)
LEMMA KeyInvInit ==
  SecretsInit => KeyInv
<1> SUFFICES ASSUME SecretsInit PROVE KeyInv
  OBVIOUS
<1>1. SecretsOK
  BY SecretsOKInit
<1>2. MemoryKept
  BY DEF MemoryKept, SecretsInit
<1>3. KeyKept
  <2>1. CASE table = [d \in DeviceIds |-> Absent]
    BY <2>1, SecretsRows DEF KeyKept, Secret
  <2>2. CASE /\ disk = [k \in Kinds \cup {"env"} |-> IF k = kind THEN 1 ELSE NoKey]
             /\ table = [d \in DeviceIds |-> Sealed(given[d], 1)]
    <3>1. disk[kind] = 1
      BY <2>2 DEF SecretsInit
    <3>2. \A d \in DeviceIds : table[d].key = 1
      BY <2>2 DEF Sealed
    <3> QED
      BY <3>1, <3>2 DEF KeyKept, Secret
  <2> QED
    BY <2>1, <2>2 DEF SecretsInit
<1> QED
  BY <1>1, <1>2, <1>3 DEF KeyInv

(* One step for every action: a new key is made only where none is kept, and  *)
(* then no row is sealed.                                                     *)
LEMMA KeyInvStep ==
  KeyInv /\ [SecretsNext]_secretsVars => KeyInv'
<1> SUFFICES ASSUME KeyInv, [SecretsNext]_secretsVars PROVE KeyInv'
  OBVIOUS
<1>1. SecretsOK /\ MemoryKept /\ KeyKept
  BY DEF KeyInv
<1>2. SecretsOK'
  BY <1>1, SecretsOKStep
<1>3. SecretsTypeOK /\ Placed
  BY <1>1 DEF SecretsOK
<1>4. ASSUME Down, mishaps \subseteq mishaps'
      PROVE  KeyInv'
  <2>1. KeyKept'
    BY <1>1, <1>4, KeysUntouched DEF Down
  <2>2. MemoryKept'
    BY <1>4 DEF Down, MemoryKept
  <2> QED
    BY <1>2, <2>1, <2>2 DEF KeyInv
<1>5. ASSUME UNCHANGED <<kind, disk, source, mem, table>>, phase # "down", mishaps \subseteq mishaps'
      PROVE  KeyInv'
  BY <1>1, <1>2, <1>5, KeysUntouched, MemoryUntouched DEF KeyInv
<1>6. CASE StartApp
  <2>1. UNCHANGED <<kind, disk, table>> /\ mishaps \subseteq mishaps' /\ ReadStore
        /\ (GetBackend \/ Fallback)
    BY <1>6 DEF StartApp, GetBackend, Fallback
  <2>2. KeyKept'
    BY <1>1, <2>1, KeysUntouched
  <2>3. CASE GetBackend
    BY <1>2, <2>1, <2>2, <2>3 DEF GetBackend, ReadStore, MemoryKept, KeyInv
  <2>4. CASE Fallback
    BY <1>2, <2>2, <2>4 DEF Fallback, MemoryKept, Clean, KeyInv
  <2> QED
    BY <2>1, <2>3, <2>4
<1>7. CASE StopApp
  BY <1>4, <1>7 DEF StopApp
<1>8. CASE EnsureKey
  <2>1. phase = "ensuring" /\ UNCHANGED <<kind, source, table>>
    BY <1>8 DEF EnsureKey, listVars
  <2>2. CASE UNCHANGED <<disk, mem, mishaps>>
    BY <1>5, <2>1, <2>2
  <2>3. CASE NoKey \in Answers /\ Put(starts + 1)
    <3>1. kind \in Kinds \cup {"env"} /\ disk \in [Kinds \cup {"env"} -> {NoKey} \cup SealKeys]
      BY <1>3 DEF SecretsTypeOK
    <3>2. Clean' => /\ Clean /\ disk' = [disk EXCEPT ![source] = starts + 1]
                    /\ mem' = IF source = "vault" THEN mem ELSE starts + 1
      BY <2>3 DEF Put, Clean
    <3>3. Clean' => source = kind
      BY <1>1, <2>1, <3>2 DEF MemoryKept
    <3>4. Clean' => disk'[kind] = starts + 1 /\ (kind # "vault" => mem' = starts + 1)
      BY <3>1, <3>2, <3>3
    <3>5. MemoryKept'
      BY <2>1, <3>3, <3>4 DEF MemoryKept
    <3>6. Clean' => disk[kind] = NoKey
      BY <1>1, <2>1, <2>3, <3>2, AnswersKept, SecretsNumbers
    <3>7. Clean' => Secret' = {}
      BY <1>1, <2>1, <3>2, <3>6 DEF KeyKept, Secret, Clean
    <3>8. KeyKept'
      BY <3>7 DEF KeyKept, Clean
    <3> QED
      BY <1>2, <3>5, <3>8 DEF KeyInv
  <2> QED
    BY <1>8, <2>2, <2>3 DEF EnsureKey
<1>9. CASE CheckTable
  BY <1>4, <1>5, <1>9 DEF CheckTable, secretsHistory
<1>10. CASE ImportRow
  <2>1. phase = "importing"
    BY <1>10 DEF ImportRow
  <2>2. next \in DOMAIN Json
    BY <1>1, <2>1, NextEntry
  <2>3. CASE Down /\ mishaps' = mishaps \cup {"cut"}
    BY <1>4, <2>3
  <2>4. ASSUME NEW opening \in Answers, NEW sealing \in Answers,
               CanSeal(Imported(Json[next], opening), sealing),
               table' = [table EXCEPT ![Json[next].device] = Row(Imported(Json[next], opening), sealing)],
               UNCHANGED <<kind, disk, source, mem, mishaps>>
        PROVE  KeyInv'
    <3>1. Json[next].device \in DeviceIds /\ Imported(Json[next], opening) \in Texts
      BY <2>2, JsonEntries, SecretsNumbers DEF Imported
    <3>2. PICK d \in DeviceIds : d = Json[next].device
      BY <3>1
    <3>3. PICK text \in Texts : text = Imported(Json[next], opening)
      BY <3>1
    <3>4. KeyKept'
      BY <1>1, <2>1, <2>4, <3>2, <3>3, RowKeyKept
    <3>5. MemoryKept'
      BY <1>1, <2>1, <2>4, MemoryUntouched
    <3> QED
      BY <1>2, <3>4, <3>5 DEF KeyInv
  <2> QED
    BY <1>10, <2>3, <2>4 DEF ImportRow
<1>11. ASSUME NEW name, NEW change, NEW wish, NEW blamed, LoadAndChange(name, change, wish, blamed)
       PROVE  KeyInv'
  BY <1>5, <1>11 DEF LoadAndChange, bootVars
<1>12. CASE Refresh
  BY <1>11, <1>12 DEF Refresh
<1>13. ASSUME NEW d \in DeviceIds, SetPassword(d) \/ EditOther(d) \/ RemoveDevice(d)
       PROVE  KeyInv'
  BY <1>1, <1>11, <1>13, FormChanges
<1>14. task # "idle" => phase = "up"
  BY <1>3 DEF Placed
<1>15. CASE SaveRow
  <2>1. phase = "up" /\ UNCHANGED <<kind, disk, source, mem, mishaps>>
    BY <1>14, <1>15 DEF SaveRow, bootVars
  <2>2. CASE UNCHANGED table
    BY <1>5, <2>1, <2>2
  <2>3. ASSUME NEW d \in Listing, NEW answer \in Answers, CanSeal(list[d], answer),
               table' = [table EXCEPT ![d] = Row(list[d], answer)]
        PROVE  KeyInv'
    <3>1. d \in DeviceIds /\ list[d] \in Texts
      BY <1>3 DEF Listing, SecretsTypeOK
    <3>2. KeyKept'
      BY <1>1, <2>1, <2>3, <3>1, RowKeyKept
    <3>3. MemoryKept'
      BY <1>1, <2>1, MemoryUntouched
    <3> QED
      BY <1>2, <3>2, <3>3 DEF KeyInv
  <2> QED
    BY <1>15, <2>2, <2>3 DEF SaveRow
<1>16. CASE DeleteRow
  <2>1. phase = "up" /\ UNCHANGED <<kind, disk, source, mem>> /\ mishaps \subseteq mishaps'
    BY <1>14, <1>16 DEF DeleteRow, bootVars
  <2>2. MemoryKept'
    BY <1>1, <2>1, MemoryUntouched
  <2>3. PICK d \in DeviceIds : table' = [table EXCEPT ![d] = Absent]
    BY <1>3, <1>16 DEF DeleteRow, SecretsTypeOK
  <2>4. \A e \in DeviceIds : table'[e] = table[e] \/ table'[e].key = NoKey
    BY <1>3, <2>3, SecretsRows DEF SecretsTypeOK
  <2>5. KeyKept'
    BY <1>1, <2>1, <2>4 DEF KeyKept, Secret
  <2> QED
    BY <1>2, <2>2, <2>5 DEF KeyInv
<1>17. CASE SaveDone
  BY <1>5, <1>14, <1>17 DEF SaveDone, bootVars, secretsHistory
<1>18. CASE RotateVariable \/ UNCHANGED secretsVars
  <2>1. UNCHANGED <<kind, disk, source, mem, phase, table, mishaps>>
    BY <1>18 DEF RotateVariable, bootVars, secretsHistory, secretsVars
  <2>2. KeyKept'
    BY <1>1, <2>1, KeysUntouched
  <2>3. MemoryKept'
    BY <1>1, <2>1 DEF MemoryKept, Clean
  <2> QED
    BY <1>2, <2>2, <2>3 DEF KeyInv
<1> QED
  BY <1>6, <1>7, <1>8, <1>9, <1>10, <1>12, <1>13, <1>15, <1>16, <1>17, <1>18 DEF SecretsNext

(* Nobody regenerates a key that is in use (ensure_encrypt_key): unless a key *)
(* could not be written down or the process fell back on another backend,     *)
(* every sealed row is sealed with the key the installation keeps.            *)
THEOREM KeysStay == SecretsSpec => []KeyKept
<1>1. KeyInv => KeyKept
  BY DEF KeyInv
<1> QED
  BY <1>1, KeyInvInit, KeyInvStep, PTL DEF SecretsSpec

-----------------------------------------------------------------------------
(* What is at rest keeps a password, or excuses it, as long as nobody writes  *)
(* the row or gives another password.                                         *)
LEMMA KeptStays ==
  ASSUME NEW d \in DeviceIds, Kept(d), given'[d] = given[d], table'[d] = table[d],
         d \in excused => d \in excused', mishaps \subseteq mishaps'
  PROVE  Kept(d)'
BY DEF Kept, Excepted, Held

(* The same of a table that is empty *)
LEMMA EmptyStays ==
  ASSUME EmptyTable, UNCHANGED <<table, given>>, mishaps \subseteq mishaps',
         phase' = "importing" => phase = "importing" \/ Present = {}
  PROVE  EmptyTable'
BY DEF EmptyTable, Present

(* The process ends: what was being written is excused, an import was cut.    *)
LEMMA DownKeeps ==
  ASSUME SecretsOK, AllKept, EmptyTable, Down, mishaps \subseteq mishaps', excused \subseteq excused',
         phase = "importing" => "cut" \in mishaps',
         phase = "up" => rowsLeft \subseteq excused'
  PROVE  AllKept' /\ EmptyTable'
<1>1. UNCHANGED <<table, given>> /\ phase' = "down"
  BY DEF Down
<1>2. EmptyTable'
  BY <1>1, EmptyStays
<1>3. CASE phase = "importing"
  <2>1. ASSUME NEW d \in DeviceIds
        PROVE  Kept(d)'
    <3>1. CASE Pending(d)
      BY <1>1, <1>3, <3>1 DEF AllKept, Kept
    <3>2. CASE ~Pending(d)
      BY <1>1, <1>3, <3>2, KeptStays DEF AllKept
    <3> QED
      BY <3>1, <3>2
  <2> QED
    BY <1>1, <1>2, <2>1 DEF AllKept
<1>4. CASE phase = "up"
  <2>1. ASSUME NEW d \in DeviceIds
        PROVE  Kept(d)'
    <3>1. CASE d \in rowsLeft
      BY <1>4, <3>1 DEF Kept, Excepted
    <3>2. CASE d \notin rowsLeft
      BY <1>1, <1>4, <3>2, KeptStays DEF AllKept
    <3> QED
      BY <3>1, <3>2
  <2> QED
    BY <1>1, <1>2, <2>1 DEF AllKept
<1>5. CASE phase \in {"down", "ensuring", "checking"}
  <2>1. Present = {} => Present' = {}
    BY <1>1 DEF Present
  <2>2. ASSUME Present # {}, NEW d \in DeviceIds
        PROVE  Kept(d)'
    BY <1>1, <1>5, <2>2, KeptStays DEF AllKept
  <2> QED
    BY <1>1, <1>2, <2>1, <2>2 DEF AllKept
<1> QED
  BY <1>3, <1>4, <1>5 DEF SecretsOK, SecretsTypeOK

(* A step of the start that leaves the table alone *)
LEMMA StartUpKeeps ==
  ASSUME AllKept, EmptyTable, UNCHANGED <<table, given, excused>>, mishaps \subseteq mishaps',
         phase \in {"down", "ensuring"}, phase' \in {"ensuring", "checking"}
  PROVE  AllKept' /\ EmptyTable'
<1>1. EmptyTable'
  BY EmptyStays
<1>2. Present = {} => Present' = {}
  BY DEF Present
<1>3. ASSUME Present # {}, NEW d \in DeviceIds
      PROVE  Kept(d)'
  BY <1>3, KeptStays DEF AllKept
<1> QED
  BY <1>1, <1>2, <1>3 DEF AllKept

(* With an empty table, a device the inventory does not name has no password. *)
LEMMA NothingToImport ==
  ASSUME SecretsOK, EmptyTable, Present = {}, NEW d \in DeviceIds,
         \A i \in DOMAIN Json : Json[i].device # d
  PROVE  Kept(d)
<1>1. table[d] = Absent
  BY DEF Present
<1>2. given[d] = Missing
  BY <1>1, JsonEntries DEF EmptyTable
<1> QED
  BY <1>1, <1>2 DEF Kept, Held

(* The import decides whether it is needed. *)
LEMMA CheckKeeps ==
  ASSUME SecretsOK, AllKept, EmptyTable, phase = "checking",
         phase' = IF Present = {} /\ Json # <<>> THEN "importing" ELSE "up",
         UNCHANGED <<next, table, listVars, given, excused, mishaps>>
  PROVE  AllKept' /\ EmptyTable'
<1>1. EmptyTable'
  BY EmptyStays
<1>2. SecretsTypeOK /\ Placed
  BY DEF SecretsOK
<1>3. next = 1 /\ rowsLeft = {} /\ rowsLeft' = {} /\ next' = 1
  BY <1>2 DEF Placed, listVars
<1>4. \A d \in DeviceIds : Kept(d) => Kept(d)'
  BY KeptStays
<1>5. CASE Present = {} /\ Json # <<>>
  <2>1. ASSUME NEW d \in DeviceIds
        PROVE  IF Pending(d)' THEN table'[d] = Absent ELSE Kept(d)'
    <3>1. table'[d] = Absent
      BY <1>5 DEF Present
    <3>2. ASSUME ~Pending(d)'
          PROVE  Kept(d)'
      <4>1. \A i \in DOMAIN Json : Json[i].device # d
        BY <1>3, <3>2, JsonEntries DEF Pending
      <4> QED
        BY <1>4, <1>5, <4>1, NothingToImport
    <3> QED
      BY <3>1, <3>2
  <2> QED
    BY <1>1, <1>5, <2>1 DEF AllKept
<1>6. CASE Present = {} /\ Json = <<>>
  <2>1. \A d \in DeviceIds : Kept(d)
    BY <1>6, NothingToImport
  <2> QED
    BY <1>1, <1>3, <1>4, <1>6, <2>1 DEF AllKept
<1>7. CASE Present # {}
  <2>1. \A d \in DeviceIds : Kept(d)
    BY <1>7 DEF AllKept
  <2> QED
    BY <1>1, <1>3, <1>4, <1>7, <2>1 DEF AllKept
<1> QED
  BY <1>5, <1>6, <1>7

(* One entry of the JSON inventory is imported. *)
LEMMA ImportKeeps ==
  ASSUME SecretsOK, AllKept, EmptyTable, phase = "importing", NEW text \in Texts, NEW answer,
         CanSeal(text, answer),
         table' = [table EXCEPT ![Json[next].device] = Row(text, answer)],
         excused' = IF text = Json[next].text THEN excused \ {Json[next].device}
                    ELSE excused \cup {Json[next].device},
         next' = next + 1,
         phase' = IF next = Len(Json) THEN "up" ELSE "importing",
         UNCHANGED <<listVars, given, mishaps>>
  PROVE  AllKept' /\ EmptyTable'
<1>1. SecretsTypeOK /\ Placed
  BY DEF SecretsOK
<1>2. next \in DOMAIN Json /\ next \in 1 .. Len(Json) /\ Len(Json) \in Nat
  BY NextEntry
<1>3. PICK d \in DeviceIds : d = Json[next].device
  BY <1>2, JsonEntries
<1>4. PICK r : r = Row(text, answer)
  OBVIOUS
<1>5. r # Absent /\ r.text = text
  BY <1>4, RowWritten
<1>6. \A e \in DeviceIds : table'[e] = IF e = d THEN r ELSE table[e]
  BY <1>1, <1>3, <1>4 DEF SecretsTypeOK
<1>7. Pending(d)
  BY <1>2, <1>3 DEF Pending
<1>8. table[d] = Absent
  BY <1>7 DEF AllKept
<1>9. ~Pending(d)'
  <2>1. \A i, j \in DOMAIN Json : Json[i].device = Json[j].device => i = j
    BY SecretsAssumption
  <2>2. \A i \in next + 1 .. Len(Json) : i \in DOMAIN Json /\ i # next
    BY <1>2, JsonEntries
  <2> QED
    BY <1>2, <1>3, <2>1, <2>2 DEF Pending
<1>10. \A e \in DeviceIds : Pending(e)' => Pending(e)
  BY <1>2 DEF Pending
<1>11. \A e \in DeviceIds : e # d /\ Pending(e) => Pending(e)'
  <2>1. \A i \in next .. Len(Json) : i # next => i \in next + 1 .. Len(Json)
    BY <1>2
  <2> QED
    BY <1>3, <2>1 DEF Pending
<1>12. next = Len(Json) => \A e \in DeviceIds : ~Pending(e)'
  BY <1>2 DEF Pending
<1>13. Kept(d)'
  <2>1. CASE text = Json[next].text
    <3>1. Legacy(d) = text
      BY <1>2, <1>3, <2>1, JsonEntries
    <3>2. "emptied" \in mishaps \/ given[d] = Legacy(d)
      BY DEF EmptyTable
    <3>3. given[d] \in {Missing, Legacy(d)}
      BY <1>8 DEF EmptyTable
    <3>4. table'[d].text = text /\ table'[d] # Absent
      BY <1>5, <1>6
    <3> QED
      BY <3>1, <3>2, <3>3, <3>4 DEF Kept, Held, Excepted
  <2>2. CASE text # Json[next].text
    BY <1>3, <2>2 DEF Kept, Excepted
  <2> QED
    BY <2>1, <2>2
<1>14. ASSUME NEW e \in DeviceIds, e # d, ~Pending(e)
       PROVE  Kept(e)'
  <2>1. Kept(e)
    BY <1>14 DEF AllKept
  <2>2. e \in excused => e \in excused'
    BY <1>3, <1>14
  <2> QED
    BY <1>6, <1>14, <2>1, <2>2, KeptStays
<1>15. AllKept'
  <2>1. ASSUME NEW e \in DeviceIds
        PROVE  IF Pending(e)' THEN table'[e] = Absent ELSE Kept(e)'
    BY <1>6, <1>9, <1>10, <1>11, <1>13, <1>14 DEF AllKept
  <2>2. rowsLeft' = {}
    BY <1>1 DEF Placed, listVars
  <2>3. CASE next = Len(Json)
    BY <1>12, <2>1, <2>2, <2>3 DEF AllKept
  <2>4. CASE next # Len(Json)
    BY <2>1, <2>4 DEF AllKept
  <2> QED
    BY <2>3, <2>4
<1>16. EmptyTable'
  <2>1. "emptied" \in mishaps \/ \A e \in DeviceIds : given[e] = Legacy(e)
    BY DEF EmptyTable
  <2>2. \A e \in DeviceIds : table'[e] = Absent => given[e] \in {Missing, Legacy(e)}
    BY <1>5, <1>6 DEF EmptyTable
  <2> QED
    BY <2>1, <2>2 DEF EmptyTable
<1> QED
  BY <1>15, <1>16

(* A load, and the change of at most one password: what will be written keeps *)
(* the passwords, for what did not open is excused.                           *)
LEMMA LoadKeeps ==
  ASSUME SecretsOK, AllKept, EmptyTable, NEW name, NEW change, NEW wish, NEW blamed,
         LoadAndChange(name, change, wish, blamed), DOMAIN change \subseteq Present,
         \A d \in DOMAIN change : wish[d] = change[d] \/ (d \in blamed /\ change[d] # Missing),
         \A d \in DeviceIds \ DOMAIN change : wish[d] = given[d]
  PROVE  AllKept' /\ EmptyTable'
<1>1. SecretsTypeOK /\ Placed
  BY DEF SecretsOK
<1>2. /\ phase = "up" /\ task = "idle" /\ rowsLeft' = Present /\ given' = wish
      /\ UNCHANGED <<bootVars, table, mishaps>>
  BY DEF LoadAndChange
<1>3. rowsLeft = {} /\ phase' = "up"
  BY <1>1, <1>2 DEF Placed, bootVars
<1>4. PICK answers \in [DeviceIds -> Answers], value \in Variable :
        /\ \A d \in Secret : ~Raises(answers[d])
        /\ list' = [d \in DeviceIds |->
                     IF d \in DOMAIN change THEN change[d] ELSE ListedPasswords(answers, value)[d]]
        /\ excused' = ((excused \cup {d \in Secret : answers[d] \notin {NoKey, table[d].key}})
                         \ DOMAIN change) \cup blamed
  BY DEF LoadAndChange
<1>5. \A d \in DeviceIds : Kept(d)
  BY <1>2, <1>3 DEF AllKept
<1>6. ASSUME NEW d \in DeviceIds, d \notin Present
      PROVE  Kept(d)'
  <2>1. d \notin DOMAIN change
    BY <1>6
  <2>2. given'[d] = given[d] /\ (d \in excused => d \in excused')
    BY <1>2, <1>4, <2>1
  <2> QED
    BY <1>2, <1>5, <2>2, KeptStays
<1>7. ASSUME NEW d \in DeviceIds, d \in DOMAIN change
      PROVE  Saving(d)'
  <2>1. list'[d] = change[d] /\ given'[d] = wish[d]
    BY <1>2, <1>4, <1>7
  <2> QED
    BY <1>4, <1>7, <2>1 DEF Saving, Excepted
<1>8. ASSUME NEW d \in DeviceIds, d \in Present, d \notin DOMAIN change
      PROVE  Saving(d)'
  <2>1. PICK l : l = ListedPasswords(answers, value)[d]
    OBVIOUS
  <2>2. list'[d] = l /\ given'[d] = given[d]
    BY <1>2, <1>4, <1>8, <2>1
  <2>3. table[d] # Absent
    BY <1>8 DEF Present
  <2>4. /\ l \in Texts
        /\ d \notin Secret => table[d].text = NoPassword /\ (l = NoPassword \/ d \in EnvDevices)
        /\ d \in Secret /\ answers[d] = table[d].key => l = table[d].text
    BY <2>1, <2>3, LoadLists
  <2>5. l # Missing
    BY <2>4, SecretsNumbers
  <2>6. CASE Excepted(d)
    BY <1>2, <1>4, <1>8, <2>2, <2>5, <2>6 DEF Excepted, Saving
  <2>7. CASE ~Excepted(d)
    <3>1. given[d] = table[d].text
      BY <1>5, <2>3, <2>7 DEF Kept, Held
    <3>2. CASE d \in Secret /\ answers[d] = table[d].key
      BY <2>2, <2>4, <2>5, <3>1, <3>2 DEF Saving
    <3>3. CASE d \in Secret /\ answers[d] # table[d].key
      <4>1. answers[d] # NoKey
        BY <1>4, <3>3 DEF Raises
      <4>2. d \in excused'
        BY <1>4, <1>8, <3>3, <4>1
      <4> QED
        BY <2>2, <2>5, <4>2 DEF Saving, Excepted
    <3>4. CASE d \notin Secret
      BY <2>2, <2>4, <2>5, <3>1, <3>4 DEF Saving, Excepted
    <3> QED
      BY <3>2, <3>3, <3>4
  <2> QED
    BY <2>6, <2>7
<1>9. AllKept'
  BY <1>2, <1>3, <1>6, <1>7, <1>8 DEF AllKept
<1>10. EmptyTable'
  <2>1. ASSUME NEW d \in DeviceIds, table[d] = Absent
        PROVE  given'[d] = given[d]
    <3>1. d \notin DOMAIN change
      BY <2>1 DEF Present
    <3> QED
      BY <1>2, <3>1
  <2>2. Present' = Present
    BY <1>2 DEF Present
  <2>3. Present = {} => \A d \in DeviceIds : given'[d] = given[d]
    BY <2>1 DEF Present
  <2> QED
    BY <1>2, <1>3, <2>1, <2>2, <2>3 DEF EmptyTable
<1> QED
  BY <1>9, <1>10

(* The save of one row *)
LEMMA RowKeeps ==
  ASSUME SecretsOK, AllKept, EmptyTable, phase = "up", NEW d \in Listing, NEW answer,
         CanSeal(list[d], answer), table' = [table EXCEPT ![d] = Row(list[d], answer)],
         rowsLeft' = rowsLeft \ {d}, UNCHANGED <<phase, list, given, excused, mishaps>>
  PROVE  AllKept' /\ EmptyTable'
<1>1. d \in DeviceIds /\ d \in rowsLeft /\ list[d] \in Texts /\ table \in [DeviceIds -> Rows]
  BY DEF Listing, SecretsOK, SecretsTypeOK
<1>2. PICK r : r = Row(list[d], answer)
  OBVIOUS
<1>3. r # Absent /\ r.text = list[d]
  BY <1>1, <1>2, RowWritten
<1>4. \A e \in DeviceIds : table'[e] = IF e = d THEN r ELSE table[e]
  BY <1>1, <1>2
<1>5. Kept(d)'
  <2>1. Saving(d)
    BY <1>1 DEF AllKept
  <2> QED
    BY <1>1, <1>3, <1>4, <2>1 DEF Saving, Kept, Held, Excepted
<1>6. ASSUME NEW e \in DeviceIds, e # d
      PROVE  IF e \in rowsLeft' THEN Saving(e)' ELSE Kept(e)'
  <2>1. CASE e \in rowsLeft
    BY <1>6, <2>1 DEF AllKept, Saving, Excepted
  <2>2. CASE e \notin rowsLeft
    BY <1>4, <1>6, <2>2, KeptStays DEF AllKept
  <2> QED
    BY <2>1, <2>2
<1>7. AllKept'
  BY <1>5, <1>6 DEF AllKept
<1>8. EmptyTable'
  <2>1. Present' # {}
    BY <1>1, <1>3, <1>4 DEF Present
  <2> QED
    BY <1>3, <1>4, <2>1 DEF EmptyTable
<1> QED
  BY <1>7, <1>8

(* The deletion of one row *)
LEMMA DeletionKeeps ==
  ASSUME SecretsOK, AllKept, EmptyTable, phase = "up", Listing = {}, NEW d \in rowsLeft,
         table' = [table EXCEPT ![d] = Absent], rowsLeft' = rowsLeft \ {d},
         mishaps' = mishaps \cup (IF Present \subseteq rowsLeft THEN {"emptied"} ELSE {}),
         UNCHANGED <<phase, list, given, excused>>
  PROVE  AllKept' /\ EmptyTable'
<1>1. d \in DeviceIds /\ table \in [DeviceIds -> Rows]
  BY DEF SecretsOK, SecretsTypeOK
<1>2. \A e \in DeviceIds : table'[e] = IF e = d THEN Absent ELSE table[e]
  BY <1>1
<1>3. given[d] = Missing
  BY <1>1 DEF AllKept, Saving, Listing
<1>4. ASSUME NEW e \in DeviceIds
      PROVE  IF e \in rowsLeft' THEN Saving(e)' ELSE Kept(e)'
  <2>1. CASE e = d
    BY <1>2, <1>3, <2>1 DEF Kept, Held
  <2>2. CASE e # d /\ e \in rowsLeft
    BY <2>2 DEF AllKept, Saving, Excepted
  <2>3. CASE e # d /\ e \notin rowsLeft
    BY <1>2, <2>3, KeptStays DEF AllKept
  <2> QED
    BY <2>1, <2>2, <2>3
<1>5. AllKept'
  BY <1>4 DEF AllKept
<1>6. EmptyTable'
  <2>1. Present' = {} => "emptied" \in mishaps'
    <3>1. Present' = {} => Present \subseteq {d}
      BY <1>2 DEF Present
    <3> QED
      BY <3>1
  <2>2. \A e \in DeviceIds : table'[e] = Absent => given[e] \in {Missing, Legacy(e)}
    BY <1>2, <1>3 DEF EmptyTable
  <2> QED
    BY <2>1, <2>2 DEF EmptyTable
<1> QED
  BY <1>5, <1>6

(* Nothing is written any more, and what was not written is excused. *)
LEMMA LeaveKeeps ==
  ASSUME AllKept, EmptyTable, phase = "up", rowsLeft' = {}, rowsLeft \subseteq excused',
         excused \subseteq excused', UNCHANGED <<phase, table, given, mishaps>>
  PROVE  AllKept' /\ EmptyTable'
<1>1. EmptyTable'
  BY EmptyStays
<1>2. ASSUME NEW d \in DeviceIds
      PROVE  Kept(d)'
  <2>1. CASE d \in rowsLeft
    BY <2>1 DEF Kept, Excepted
  <2>2. CASE d \notin rowsLeft
    BY <2>2, KeptStays DEF AllKept
  <2> QED
    BY <2>1, <2>2
<1> QED
  BY <1>1, <1>2 DEF AllKept

(* At first the passwords given are at rest, or in the JSON inventory. *)
LEMMA PasswordInvInit ==
  SecretsInit => PasswordInv
<1> SUFFICES ASSUME SecretsInit PROVE PasswordInv
  OBVIOUS
<1>1. SecretsOK
  BY SecretsOKInit
<1>2. phase = "down"
  BY DEF SecretsInit
<1>3. CASE /\ table = [d \in DeviceIds |-> Absent]
           /\ given = [d \in DeviceIds |-> Legacy(d)]
  <2>1. Present = {}
    BY <1>3 DEF Present
  <2>2. \A d \in DeviceIds : given[d] = Legacy(d)
    BY <1>3
  <2> QED
    BY <1>1, <1>2, <2>1, <2>2 DEF PasswordInv, AllKept, EmptyTable
<1>4. CASE /\ given = [d \in DeviceIds |-> d]
           /\ table = [d \in DeviceIds |-> Sealed(given[d], 1)]
  <2>1. \A d \in DeviceIds : table[d].key = 1 /\ table[d].text = given[d]
    BY <1>4 DEF Sealed
  <2>2. \A d \in DeviceIds : table[d] # Absent
    BY <2>1, SecretsRows, SecretsNumbers
  <2>3. \A d \in DeviceIds : Kept(d)
    BY <2>1, <2>2 DEF Kept, Held
  <2>4. Present = {} => DeviceIds = {}
    BY <2>2 DEF Present
  <2> QED
    BY <1>1, <1>2, <2>2, <2>3, <2>4 DEF PasswordInv, AllKept, EmptyTable
<1> QED
  BY <1>3, <1>4 DEF SecretsInit

(* One step for every action *)
LEMMA PasswordInvStep ==
  PasswordInv /\ [SecretsNext]_secretsVars => PasswordInv'
<1> SUFFICES ASSUME PasswordInv, [SecretsNext]_secretsVars PROVE PasswordInv'
  OBVIOUS
<1>1. SecretsOK /\ AllKept /\ EmptyTable
  BY DEF PasswordInv
<1>2. SecretsOK'
  BY <1>1, SecretsOKStep
<1> SUFFICES AllKept' /\ EmptyTable'
  BY <1>2 DEF PasswordInv
<1>3. SecretsTypeOK /\ Placed
  BY <1>1 DEF SecretsOK
<1>4. task # "idle" => phase = "up"
  BY <1>3 DEF Placed
<1>5. phase # "up" => rowsLeft = {}
  BY <1>3 DEF Placed
<1>6. CASE StartApp
  <2>1. /\ phase = "down" /\ phase' = "ensuring" /\ mishaps \subseteq mishaps'
        /\ UNCHANGED <<table, given, excused>>
    BY <1>6 DEF StartApp, GetBackend, Fallback
  <2> QED
    BY <1>1, <2>1, StartUpKeeps
<1>7. CASE StopApp
  <2>1. /\ Down /\ mishaps \subseteq mishaps' /\ excused \subseteq excused'
        /\ phase = "importing" => "cut" \in mishaps'
        /\ rowsLeft \subseteq excused'
    BY <1>7 DEF StopApp
  <2> QED
    BY <1>1, <2>1, DownKeeps
<1>8. CASE EnsureKey
  <2>1. /\ phase = "ensuring" /\ phase' = "checking" /\ mishaps \subseteq mishaps'
        /\ UNCHANGED <<table, given, excused>>
    BY <1>8 DEF EnsureKey, Put
  <2> QED
    BY <1>1, <2>1, StartUpKeeps
<1>9. CASE CheckTable
  <2>1. phase = "checking"
    BY <1>9 DEF CheckTable
  <2>2. CASE Down /\ UNCHANGED <<excused, mishaps>>
    BY <1>1, <2>1, <2>2, DownKeeps
  <2>3. CASE /\ phase' = IF Present = {} /\ Json # <<>> THEN "importing" ELSE "up"
             /\ UNCHANGED <<kind, disk, source, mem, starts, next, table, listVars, varVars, secretsHistory>>
    <3>1. UNCHANGED <<next, table, listVars, given, excused, mishaps>>
      BY <2>3 DEF secretsHistory
    <3> QED
      BY <1>1, <2>1, <2>3, <3>1, CheckKeeps
  <2> QED
    BY <1>9, <2>2, <2>3 DEF CheckTable
<1>10. CASE ImportRow
  <2>1. phase = "importing"
    BY <1>10 DEF ImportRow
  <2>2. CASE Down /\ mishaps' = mishaps \cup {"cut"} /\ UNCHANGED excused
    BY <1>1, <2>1, <2>2, DownKeeps
  <2>3. ASSUME NEW opening \in Answers, NEW sealing \in Answers,
               NEW text, text = Imported(Json[next], opening), CanSeal(text, sealing),
               table' = [table EXCEPT ![Json[next].device] = Row(text, sealing)],
               excused' = IF text = Json[next].text THEN excused \ {Json[next].device}
                          ELSE excused \cup {Json[next].device},
               next' = next + 1,
               phase' = IF next = Len(Json) THEN "up" ELSE "importing",
               UNCHANGED <<listVars, given, mishaps>>
        PROVE  AllKept' /\ EmptyTable'
    <3>1. text \in Texts
      <4>1. next \in DOMAIN Json
        BY <1>1, <2>1, NextEntry
      <4> QED
        BY <2>3, <4>1, JsonEntries, SecretsNumbers DEF Imported
    <3> QED
      BY <1>1, <2>1, <2>3, <3>1, ImportKeeps
  <2> QED
    BY <1>10, <2>2, <2>3 DEF ImportRow
<1>11. CASE Refresh
  <2>1. PICK change : change = <<>>
    OBVIOUS
  <2>2. LoadAndChange("refresh", change, given, {}) /\ DOMAIN change = {}
    BY <1>11, <2>1 DEF Refresh
  <2> QED
    BY <1>1, <2>2, LoadKeeps
<1>12. ASSUME NEW d \in DeviceIds, SetPassword(d) \/ EditOther(d) \/ RemoveDevice(d)
       PROVE  AllKept' /\ EmptyTable'
  <2>1. PICK text, wish, blamed :
          /\ LoadAndChange("change", [e \in {d} |-> text], wish, blamed)
          /\ table[d] # Absent
          /\ wish[d] = text \/ (d \in blamed /\ text # Missing)
          /\ \A e \in DeviceIds : e # d => wish[e] = given[e]
    BY <1>1, <1>12, FormChanges
  <2>2. PICK change : change = [e \in {d} |-> text]
    OBVIOUS
  <2>3. DOMAIN change = {d} /\ change[d] = text
    BY <2>2
  <2>4. DOMAIN change \subseteq Present
    BY <1>12, <2>1, <2>3 DEF Present
  <2>5. LoadAndChange("change", change, wish, blamed)
    BY <2>1, <2>2
  <2> QED
    BY <1>1, <2>1, <2>3, <2>4, <2>5, LoadKeeps
<1>13. CASE SaveRow
  <2>1. phase = "up" /\ UNCHANGED <<phase, given, mishaps>>
    BY <1>4, <1>13 DEF SaveRow, bootVars
  <2>2. ASSUME NEW d \in Listing, NEW answer \in Answers, CanSeal(list[d], answer),
               table' = [table EXCEPT ![d] = Row(list[d], answer)],
               rowsLeft' = rowsLeft \ {d}, UNCHANGED <<list, excused>>
        PROVE  AllKept' /\ EmptyTable'
    BY <1>1, <2>1, <2>2, RowKeeps
  <2>3. CASE excused' = excused \cup rowsLeft /\ Leave /\ UNCHANGED table
    BY <1>1, <2>1, <2>3, LeaveKeeps DEF Leave
  <2> QED
    BY <1>13, <2>2, <2>3 DEF SaveRow
<1>14. CASE DeleteRow
  <2>1. phase = "up" /\ Listing = {} /\ UNCHANGED <<phase, list, given, excused>>
        /\ mishaps' = mishaps \cup (IF Present \subseteq rowsLeft THEN {"emptied"} ELSE {})
    BY <1>4, <1>14 DEF DeleteRow, bootVars
  <2>2. PICK d \in rowsLeft : table' = [table EXCEPT ![d] = Absent] /\ rowsLeft' = rowsLeft \ {d}
    BY <1>14 DEF DeleteRow
  <2> QED
    BY <1>1, <2>1, <2>2, DeletionKeeps
<1>15. CASE SaveDone
  <2>1. /\ phase = "up" /\ rowsLeft = {} /\ rowsLeft' = {}
        /\ UNCHANGED <<phase, table, given, mishaps, excused>>
    BY <1>4, <1>15 DEF SaveDone, Leave, bootVars, secretsHistory
  <2> QED
    BY <1>1, <2>1, LeaveKeeps
<1>16. CASE RotateVariable \/ UNCHANGED secretsVars
  <2>1. UNCHANGED <<phase, next, table, list, rowsLeft, given, excused, mishaps>>
    BY <1>16 DEF RotateVariable, secretsVars, bootVars, listVars, secretsHistory
  <2>2. Present' = Present
    BY <2>1 DEF Present
  <2> QED
    BY <1>1, <2>1, <2>2 DEF AllKept, EmptyTable, Pending, Kept, Saving, Held, Excepted
<1> QED
  BY <1>6, <1>7, <1>8, <1>9, <1>10, <1>11, <1>12, <1>13, <1>14, <1>15, <1>16 DEF SecretsNext

(* The passwords at rest are those given, whatever the backend answers,       *)
(* whichever row a save or a start was cut at: the exceptions PasswordsKept   *)
(* names are the only ones, for any devices, inventory and number of starts.  *)
THEOREM PasswordsStay == SecretsSpec => []PasswordsKept
<1>1. PasswordInv => PasswordsKept
  BY DEF PasswordInv, SecretsOK, Placed, AllKept, Kept, Held, Excepted, PasswordsKept
<1> QED
  BY <1>1, PasswordInvInit, PasswordInvStep, PTL DEF SecretsSpec
=============================================================================
