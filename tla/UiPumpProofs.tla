---------------------------- MODULE UiPumpProofs ----------------------------
(***************************************************************************)
(* What UiPump promises of the canvas, for any number of devices and       *)
(* worker threads and any sizes of the queues and batches.                 *)
(*                                                                         *)
(* CanvasExplained speaks of the latest status event of a device, and of   *)
(* what was lost or overtaken.  By itself it is not inductive: when the    *)
(* last event on its way for a device is shown, one has to know that it is *)
(* the latest one.  That is because the bus, the GUI's hand and the deque  *)
(* hold the events in the order in which they were published (Numbered),   *)
(* so that a callback can only be overtaken by a disconnection, and        *)
(* because no event on its way is later than last (Latest).  The count of  *)
(* drops is exact because an event leaves the bus but once.                *)
(***************************************************************************)
EXTENDS UiPump, FiniteSetTheorems, TLAPS

(* The members of a queue, and a queue whose events are in the order of their *)
(* numbers, whatever other callbacks stand between them                       *)
Members(s) == {s[i] : i \in DOMAIN s}

Sorted(s) == \A i, j \in DOMAIN s : i < j /\ s[i] # Plain /\ s[j] # Plain => s[i].n < s[j].n

(* Events that have left the bus and are to be shown *)
Ahead == (Queued \cup {guiHand}) \ {Plain}

HandOK == IF gui = "appending" THEN guiHand \in Event ELSE guiHand = Nothing

(* Events are numbered as they enter the bus, and overtake each other only    *)
(* when a disconnection is shown directly.                                    *)
Numbered ==
  /\ published \in 0 .. MaxEvents
  /\ Sorted(bus) /\ Sorted(uiQueue)
  /\ \A b \in Members(bus) : b.n <= published
  /\ \A e \in Ahead : e.n <= published /\ \A b \in Members(bus) : e.n < b.n
  /\ \A l \in lost : l[2].n <= published /\ \A b \in Members(bus) : l[2].n < b.n
  /\ guiHand # Nothing => \A e \in Queued \ {Plain} : e.n < guiHand.n

(* A disconnection never becomes a callback. *)
Direct ==
  /\ \A e \in Ahead : e.type # "DISCONNECTED"
  /\ \A l \in lost : l[2].type # "DISCONNECTED"

PumpOK == TypeOK /\ HandOK /\ Numbered /\ Direct

Dropped == {l \in lost : l[1] = "dropped"}

DropsCounted == IsFiniteSet(lost) /\ dropCount = Cardinality(Dropped)

(* The latest status event of a device is the last of those on their way; it  *)
(* is among them, or it was the last to be shown, or there is a reason.       *)
Latest ==
  \A d \in Devices :
    /\ last[d] # Nothing => IsStatus(last[d]) /\ last[d].dev = d
    /\ \A ev \in Waiting(d) : last[d] # Nothing /\ ev.n <= last[d].n

Shown(d) == canvas[d] = IF last[d] = Nothing THEN "offline" ELSE StatusOf(last[d], canvas[d])

Explained ==
  \A d \in Devices :
    \/ last[d] \in Waiting(d)
    \/ Shown(d) /\ Waiting(d) = {}
    \/ d \in overtaken
    \/ \E l \in lost : l[2] = last[d]

(* Everything on its way *)
Where == Members(bus) \cup Queued \cup {guiHand}

PumpInv == PumpOK /\ DropsCounted /\ Latest /\ Explained

(* An event is told from a callback that is none. *)
LEMMA EventsAreNotPlain ==
  ASSUME NEW ev \in Event
  PROVE  /\ ev # Plain /\ ev # Nothing
         /\ ev.n \in 1 .. MaxEvents /\ ev.dev \in Devices /\ ev.type \in Types
         /\ IsStatus(ev) <=> ev.type # "CONFIG_CHANGED"
<1>1. ev.n \in 1 .. MaxEvents /\ ev.dev \in Devices /\ ev.type \in Types
  BY DEF Event
<1>2. ev # <<>>
  <2>1. "n" \in DOMAIN ev
    BY DEF Event
  <2>2. "n" \notin DOMAIN <<>>
    OBVIOUS
  <2> QED
    BY <2>1, <2>2
<1> QED
  BY <1>1, <1>2 DEF Plain, Nothing, IsStatus

(* A status event says what the canvas shows, any other leaves it. *)
LEMMA StatusShown ==
  ASSUME NEW ev \in Event, NEW old
  PROVE  /\ IsStatus(ev) => StatusOf(ev, old) \in {"online", "offline"}
         /\ IsStatus(ev) => \A other : StatusOf(ev, other) = StatusOf(ev, old)
         /\ ~IsStatus(ev) => StatusOf(ev, old) = old
<1>1. ev.type \in Types /\ (IsStatus(ev) <=> ev.type # "CONFIG_CHANGED")
  BY EventsAreNotPlain
<1>2. CASE ev.type = "CONNECTED"
  BY <1>1, <1>2 DEF StatusOf
<1>3. CASE ev.type = "DISCONNECTED"
  BY <1>1, <1>3 DEF StatusOf
<1>4. CASE ev.type = "CONFIG_CHANGED"
  BY <1>1, <1>4 DEF StatusOf
<1> QED
  BY <1>1, <1>2, <1>3, <1>4 DEF Types

(* What a queue without its first member holds, and in which order *)
LEMMA TailOrdered ==
  ASSUME NEW S, NEW s \in Seq(S), s # <<>>
  PROVE  /\ Head(s) \in S /\ Head(s) \in Members(s) /\ Tail(s) \in Seq(S) /\ Len(Tail(s)) = Len(s) - 1
         /\ Members(Tail(s)) \subseteq Members(s)
         /\ Members(s) \subseteq Members(Tail(s)) \cup {Head(s)}
         /\ Sorted(s) => /\ Sorted(Tail(s))
                         /\ \A e \in Members(Tail(s)) : e # Plain /\ Head(s) # Plain => Head(s).n < e.n
<1>1. Len(s) \in Nat /\ Len(s) > 0 /\ DOMAIN s = 1 .. Len(s) /\ Head(s) = s[1] /\ 1 \in DOMAIN s
      /\ \A i \in DOMAIN s : s[i] \in S
  OBVIOUS
<1>2. Tail(s) \in Seq(S) /\ Len(Tail(s)) = Len(s) - 1 /\ DOMAIN Tail(s) = 1 .. Len(s) - 1
      /\ \A i \in 1 .. Len(s) - 1 : Tail(s)[i] = s[i + 1]
  BY <1>1
<1>3. \A i \in DOMAIN Tail(s) : i + 1 \in DOMAIN s /\ i \in Nat /\ Tail(s)[i] = s[i + 1]
  BY <1>1, <1>2
<1>4. \A i \in DOMAIN s : i = 1 \/ (i - 1 \in DOMAIN Tail(s) /\ Tail(s)[i - 1] = s[i])
  BY <1>1, <1>2
<1>5. Members(Tail(s)) \subseteq Members(s)
  BY <1>3 DEF Members
<1>6. Members(s) \subseteq Members(Tail(s)) \cup {Head(s)}
  BY <1>1, <1>4 DEF Members
<1>7. ASSUME Sorted(s)
      PROVE  Sorted(Tail(s))
  <2>1. ASSUME NEW i \in DOMAIN Tail(s), NEW j \in DOMAIN Tail(s), i < j,
               Tail(s)[i] # Plain, Tail(s)[j] # Plain
        PROVE  Tail(s)[i].n < Tail(s)[j].n
    <3>1. i + 1 < j + 1
      BY <1>3, <2>1
    <3> QED
      BY <1>3, <1>7, <2>1, <3>1 DEF Sorted
  <2> QED
    BY <2>1 DEF Sorted
<1>8. ASSUME Sorted(s), NEW e \in Members(Tail(s)), e # Plain, Head(s) # Plain
      PROVE  Head(s).n < e.n
  <2>1. PICK i \in DOMAIN Tail(s) : e = Tail(s)[i]
    BY DEF Members
  <2>2. i + 1 \in DOMAIN s /\ 1 < i + 1 /\ e = s[i + 1]
    BY <1>1, <1>2, <1>3, <2>1
  <2> QED
    BY <1>1, <1>8, <2>2 DEF Sorted
<1> QED
  BY <1>1, <1>2, <1>5, <1>6, <1>7, <1>8 DEF Members

(* What a queue with a new member holds, and in which order *)
LEMMA AppendOrdered ==
  ASSUME NEW S, NEW s \in Seq(S), NEW e \in S
  PROVE  /\ Append(s, e) \in Seq(S) /\ Len(Append(s, e)) = Len(s) + 1
         /\ Members(Append(s, e)) = Members(s) \cup {e}
         /\ Sorted(s) /\ (e = Plain \/ \A x \in Members(s) : x # Plain => x.n < e.n) =>
              Sorted(Append(s, e))
<1>1. Len(s) \in Nat /\ DOMAIN s = 1 .. Len(s)
  OBVIOUS
<1>2. Append(s, e) \in Seq(S) /\ Len(Append(s, e)) = Len(s) + 1 /\ DOMAIN Append(s, e) = 1 .. Len(s) + 1
      /\ Append(s, e)[Len(s) + 1] = e /\ \A i \in DOMAIN s : Append(s, e)[i] = s[i]
  BY <1>1
<1>3. \A i \in DOMAIN Append(s, e) : i \in DOMAIN s \/ i = Len(s) + 1
  BY <1>1, <1>2
<1>4. DOMAIN s \subseteq DOMAIN Append(s, e) /\ Len(s) + 1 \in DOMAIN Append(s, e)
  BY <1>1, <1>2
<1>5. Members(Append(s, e)) = Members(s) \cup {e}
  <2>1. Members(Append(s, e)) \subseteq Members(s) \cup {e}
    BY <1>2, <1>3 DEF Members
  <2>2. Members(s) \subseteq Members(Append(s, e))
    BY <1>2, <1>4 DEF Members
  <2>3. e \in Members(Append(s, e))
    BY <1>2, <1>4 DEF Members
  <2> QED
    BY <2>1, <2>2, <2>3
<1>6. ASSUME Sorted(s), e = Plain \/ \A x \in Members(s) : x # Plain => x.n < e.n
      PROVE  Sorted(Append(s, e))
  <2>1. ASSUME NEW i \in DOMAIN Append(s, e), NEW j \in DOMAIN Append(s, e), i < j,
               Append(s, e)[i] # Plain, Append(s, e)[j] # Plain
        PROVE  Append(s, e)[i].n < Append(s, e)[j].n
    <3>1. i \in DOMAIN s
      BY <1>1, <1>2, <2>1
    <3>2. CASE j \in DOMAIN s
      BY <1>2, <1>6, <2>1, <3>1, <3>2 DEF Sorted
    <3>3. CASE j = Len(s) + 1
      BY <1>2, <1>6, <2>1, <3>1, <3>3 DEF Members
    <3> QED
      BY <1>3, <3>2, <3>3
  <2> QED
    BY <2>1 DEF Sorted
<1> QED
  BY <1>2, <1>5, <1>6

(* What is in the queues, typed. *)
LEMMA QueuesTyped ==
  ASSUME TypeOK
  PROVE  /\ Queued = Members(uiQueue) /\ Members(bus) \subseteq Event
         /\ Queued \subseteq Event \cup {Plain} /\ Ahead \subseteq Event
         /\ \A l \in lost : l[1] \in {"dropped", "evicted", "cleared"} /\ l[2] \in Event
<1>1. Queued = Members(uiQueue)
  BY DEF Queued, Members
<1>2. Members(bus) \subseteq Event /\ Members(uiQueue) \subseteq Event \cup {Plain}
  BY DEF TypeOK, Members
<1>3. \A l \in lost : l[1] \in {"dropped", "evicted", "cleared"} /\ l[2] \in Event
  BY DEF TypeOK
<1> QED
  BY <1>1, <1>2, <1>3 DEF Ahead, TypeOK, Plain, Nothing

(* What pushing a callback does to the deque: the callback is its last, and a *)
(* callback that leaves it is recorded as evicted unless it is a plain one.   *)
LEMMA PushedOrEvicted ==
  ASSUME TypeOK, Sorted(uiQueue), NEW fn \in Event \cup {Plain}, Push(fn),
         fn # Plain => \A e \in Queued : e # Plain => e.n < fn.n
  PROVE  /\ uiQueue' \in Seq(Event \cup {Plain}) /\ Len(uiQueue') <= UiMax /\ Sorted(uiQueue')
         /\ fn \in Queued' /\ Queued' \subseteq Queued \cup {fn}
         /\ lost \subseteq lost'
         /\ \A l \in lost' \ lost : l[1] = "evicted" /\ l[2] \in Queued \ {Plain}
         /\ \A l \in lost' \ lost : l \in {"dropped", "evicted", "cleared"} \X Event
         /\ \A e \in Queued : e \in Queued' \/ e = Plain \/ \E l \in lost' : l[2] = e
         /\ IsFiniteSet(lost) => IsFiniteSet(lost')
<1> DEFINE callbacks == Event \cup {Plain}
<1>1. uiQueue \in Seq(callbacks) /\ Len(uiQueue) <= UiMax /\ UiMax \in Nat \ {0} /\ Len(uiQueue) \in Nat
  BY PumpAssumption DEF TypeOK
<1>2. Queued = Members(uiQueue) /\ Queued' = Members(uiQueue') /\ Queued \subseteq Event \cup {Plain}
  BY QueuesTyped DEF Queued, Members
<1>3. CASE Len(uiQueue) < UiMax
  <2>1. uiQueue' = Append(uiQueue, fn) /\ lost' = lost
    BY <1>3 DEF Push
  <2>2. /\ Append(uiQueue, fn) \in Seq(callbacks) /\ Len(Append(uiQueue, fn)) = Len(uiQueue) + 1
        /\ Members(Append(uiQueue, fn)) = Members(uiQueue) \cup {fn}
        /\ Sorted(Append(uiQueue, fn))
    BY <1>1, <1>2, AppendOrdered
  <2> QED
    BY <1>1, <1>2, <1>3, <2>1, <2>2
<1>4. CASE Len(uiQueue) >= UiMax
  <2> DEFINE rest == Tail(uiQueue)
             first == Head(uiQueue)
  <2>1. uiQueue # <<>> /\ ~(Len(uiQueue) < UiMax)
    BY <1>1, <1>4
  <2>2. uiQueue' = Append(rest, fn)
        /\ lost' = lost \cup {<<"evicted", gone>> : gone \in {first} \ {Plain}}
    BY <2>1 DEF Push
  <2>3. /\ first \in callbacks /\ first \in Queued /\ rest \in Seq(callbacks)
        /\ Len(rest) = Len(uiQueue) - 1 /\ Members(rest) \subseteq Queued
        /\ Queued \subseteq Members(rest) \cup {first} /\ Sorted(rest)
    BY <1>1, <1>2, <2>1, TailOrdered
  <2> HIDE DEF rest, first
  <2>4. /\ Append(rest, fn) \in Seq(callbacks) /\ Len(Append(rest, fn)) = Len(rest) + 1
        /\ Members(Append(rest, fn)) = Members(rest) \cup {fn}
        /\ Sorted(Append(rest, fn))
    BY <1>2, <2>3, AppendOrdered
  <2>5. Len(uiQueue') <= UiMax
    BY <1>1, <2>2, <2>3, <2>4
  <2>6. \A l \in lost' \ lost : l = <<"evicted", first>> /\ first # Plain
    BY <2>2
  <2>7. first = Plain \/ <<"evicted", first>> \in lost'
    BY <2>2
  <2>8. first # Plain => first \in Event
    BY <2>3
  <2>9. IsFiniteSet(lost) => IsFiniteSet(lost')
    <3>1. CASE first = Plain
      <4>1. lost' = lost
        BY <2>2, <3>1
      <4> QED
        BY <4>1
    <3>2. CASE first # Plain
      <4>1. lost' = lost \cup {<<"evicted", first>>}
        BY <2>2, <3>2
      <4> QED
        BY <4>1, FS_AddElement
    <3> QED
      BY <3>1, <3>2
  <2>10. \A e \in Queued : e \in Queued' \/ e = Plain \/ \E l \in lost' : l[2] = e
    <3> SUFFICES ASSUME NEW e \in Queued, e \notin Queued', e # Plain
                 PROVE  \E l \in lost' : l[2] = e
      OBVIOUS
    <3>1. e = first
      BY <1>2, <2>2, <2>3, <2>4
    <3>2. <<"evicted", first>> \in lost' /\ <<"evicted", first>>[2] = first
      BY <2>7, <3>1
    <3> QED
      BY <3>1, <3>2
  <2>11. uiQueue' \in Seq(Event \cup {Plain}) /\ Sorted(uiQueue')
    BY <2>2, <2>4
  <2>12. fn \in Queued' /\ Queued' \subseteq Queued \cup {fn} /\ lost \subseteq lost'
    BY <1>2, <2>2, <2>3, <2>4
  <2>13. \A l \in lost' \ lost : l[1] = "evicted" /\ l[2] \in Queued \ {Plain}
                                /\ l \in {"dropped", "evicted", "cleared"} \X Event
    BY <2>3, <2>6, <2>8
  <2> QED
    BY <2>5, <2>9, <2>10, <2>11, <2>12, <2>13
<1> QED
  BY <1>1, <1>3, <1>4

(* The numbers stay in order in a step that publishes nothing: what is ahead  *)
(* or lost was ahead before, or is the event that left the bus.               *)
LEMMA NumbersKept ==
  ASSUME PumpOK, TypeOK', published' = published,
         Sorted(bus'), Sorted(uiQueue'), Members(bus') \subseteq Members(bus),
         \A e \in Ahead' : \/ e \in Ahead
                           \/ /\ e \in Members(bus) /\ e.type # "DISCONNECTED"
                              /\ \A b \in Members(bus') : e.n < b.n,
         \A l \in lost' : \/ l \in lost
                          \/ l[2] \in Ahead
                          \/ /\ l[2] \in Members(bus) /\ l[2].type # "DISCONNECTED"
                             /\ \A b \in Members(bus') : l[2].n < b.n,
         guiHand' # Nothing => \A e \in Queued' \ {Plain} : e.n < guiHand'.n
  PROVE  Numbered' /\ Direct'
<1> USE DEF PumpOK, Numbered, Direct
<1>1. published' \in 0 .. MaxEvents /\ \A b \in Members(bus') : b.n <= published'
  OBVIOUS
<1>2. \A e \in Ahead' : e.n <= published' /\ (\A b \in Members(bus') : e.n < b.n) /\ e.type # "DISCONNECTED"
  OBVIOUS
<1>3. \A l \in lost' : l[2].n <= published' /\ (\A b \in Members(bus') : l[2].n < b.n)
                       /\ l[2].type # "DISCONNECTED"
  OBVIOUS
<1> QED
  BY <1>1, <1>2, <1>3

(* An event enters the bus with the next number. *)
LEMMA PutNumbered ==
  ASSUME PumpOK, NEW d \in Devices, NEW type \in Types, Put(d, type),
         UNCHANGED <<uiQueue, canvas, pc, guiVars, dropCount, plain, rebuilds, overtaken, lost>>
  PROVE  /\ TypeOK' /\ HandOK' /\ Numbered' /\ Direct'
         /\ \/ UNCHANGED <<bus, last>>
            \/ \E ev \in Event :
                 /\ ev.dev = d /\ ev.n = published + 1
                 /\ Members(bus') = Members(bus) \cup {ev}
                 /\ last' = [last EXCEPT ![d] = IF IsStatus(ev) THEN ev ELSE @]
<1>1. TypeOK /\ HandOK /\ Numbered /\ Direct
  BY DEF PumpOK
<1>2. published < MaxEvents /\ published' = published + 1 /\ published \in Nat /\ MaxEvents \in Nat
      /\ BusMax \in Nat
  BY <1>1, PumpAssumption DEF Put, Numbered
<1>3. UNCHANGED <<uiQueue, canvas, pc, gui, guiHand, left, dropCount, overtaken, lost>>
      /\ Queued' = Queued /\ Ahead' = Ahead
  BY DEF guiVars, Queued, Ahead
<1>4. HandOK' /\ Direct'
  BY <1>1, <1>3 DEF HandOK, Direct
<1>5. CASE ~(Len(bus) < BusMax)
  <2>1. UNCHANGED <<bus, last>> /\ Members(bus') = Members(bus)
    BY <1>5 DEF Put
  <2>2. TypeOK'
    BY <1>1, <1>3, <2>1 DEF TypeOK
  <2>3. Numbered'
    <3>1. published' \in 0 .. MaxEvents /\ Sorted(bus') /\ Sorted(uiQueue')
      BY <1>1, <1>2, <1>3, <2>1 DEF Numbered
    <3>2. \A b \in Members(bus') : b.n <= published'
      BY <1>1, <1>2, <2>1, QueuesTyped, EventsAreNotPlain DEF Numbered
    <3>3. \A e \in Ahead' : e.n <= published' /\ \A b \in Members(bus') : e.n < b.n
      BY <1>1, <1>2, <1>3, <2>1, QueuesTyped, EventsAreNotPlain DEF Numbered
    <3>4. \A l \in lost' : l[2].n <= published' /\ \A b \in Members(bus') : l[2].n < b.n
      BY <1>1, <1>2, <1>3, <2>1, QueuesTyped, EventsAreNotPlain DEF Numbered
    <3>5. guiHand' # Nothing => \A e \in Queued' \ {Plain} : e.n < guiHand'.n
      BY <1>1, <1>3 DEF Numbered
    <3> QED
      BY <3>1, <3>2, <3>3, <3>4, <3>5 DEF Numbered
  <2> QED
    BY <1>4, <2>1, <2>2, <2>3
<1>6. CASE Len(bus) < BusMax
  <2>1. PICK ev : ev = [n |-> published + 1, dev |-> d, type |-> type]
    OBVIOUS
  <2>2. bus' = Append(bus, ev) /\ last' = [last EXCEPT ![d] = IF IsStatus(ev) THEN ev ELSE @]
    BY <1>6, <2>1 DEF Put
  <2>3. ev \in Event /\ ev.dev = d /\ ev.n = published + 1
    BY <1>2, <2>1 DEF Event
  <2>4. bus \in Seq(Event) /\ Sorted(bus) /\ \A b \in Members(bus) : b \in Event /\ b.n < ev.n
    BY <1>1, <1>2, <2>3, QueuesTyped, EventsAreNotPlain DEF TypeOK, Numbered
  <2>5. /\ bus' \in Seq(Event) /\ Len(bus') = Len(bus) + 1 /\ Members(bus') = Members(bus) \cup {ev}
        /\ Sorted(bus')
    BY <2>2, <2>3, <2>4, AppendOrdered
  <2>6. TypeOK'
    <3>1. Len(bus') <= BusMax
      BY <1>2, <1>6, <2>4, <2>5
    <3>2. last' \in [Devices -> Event \cup {Nothing}]
      BY <1>1, <2>2, <2>3 DEF TypeOK
    <3> QED
      BY <1>1, <1>3, <2>5, <3>1, <3>2 DEF TypeOK
  <2>7. Numbered'
    <3>1. published' \in 0 .. MaxEvents /\ Sorted(bus') /\ Sorted(uiQueue')
      BY <1>1, <1>2, <1>3, <2>5 DEF Numbered
    <3>2. \A b \in Members(bus') : b.n <= published'
      BY <1>1, <1>2, <2>3, <2>5, QueuesTyped, EventsAreNotPlain DEF Numbered
    <3>3. \A e \in Ahead' : e.n <= published' /\ \A b \in Members(bus') : e.n < b.n
      BY <1>1, <1>2, <1>3, <2>3, <2>5, QueuesTyped, EventsAreNotPlain DEF Numbered
    <3>4. \A l \in lost' : l[2].n <= published' /\ \A b \in Members(bus') : l[2].n < b.n
      BY <1>1, <1>2, <1>3, <2>3, <2>5, QueuesTyped, EventsAreNotPlain DEF Numbered
    <3>5. guiHand' # Nothing => \A e \in Queued' \ {Plain} : e.n < guiHand'.n
      BY <1>1, <1>3 DEF Numbered
    <3> QED
      BY <3>1, <3>2, <3>3, <3>4, <3>5 DEF Numbered
  <2> QED
    BY <1>4, <2>2, <2>3, <2>5, <2>6, <2>7
<1> QED
  BY <1>5, <1>6

(* When nothing is shown, what stops being on its way is recorded as lost, so *)
(* whatever accounted for the canvas still does.                              *)
LEMMA NothingShown ==
  ASSUME TypeOK, TypeOK', Latest, Explained,
         UNCHANGED <<canvas, last, overtaken>>, lost \subseteq lost',
         Where' \subseteq Where \cup {Plain},
         \A e \in Where : e \in Where' \/ e = Plain \/ \E l \in lost' : l[2] = e
  PROVE  Latest' /\ Explained'
<1>1. Plain = Nothing /\ \A e : IsStatus(e) => e # Plain
  BY DEF Plain, Nothing, IsStatus
<1>2. \A d \in Devices : /\ Waiting(d) = {ev \in Where : IsStatus(ev) /\ ev.dev = d}
                         /\ Waiting(d)' = {ev \in Where' : IsStatus(ev) /\ ev.dev = d}
  BY DEF Waiting, Where, Members, Queued
<1>3. \A d \in Devices : Waiting(d)' \subseteq Waiting(d)
  BY <1>1, <1>2
<1>4. last' = last /\ canvas' = canvas /\ overtaken' = overtaken
  OBVIOUS
<1>5. Latest'
  BY <1>3, <1>4 DEF Latest
<1>6. ASSUME NEW d \in Devices
      PROVE  \/ last'[d] \in Waiting(d)'
             \/ Shown(d)' /\ Waiting(d)' = {}
             \/ d \in overtaken'
             \/ \E l \in lost' : l[2] = last'[d]
  <2>1. Shown(d)' <=> Shown(d)
    BY <1>4 DEF Shown
  <2>2. CASE last[d] \in Waiting(d)
    <3>1. last[d] \in Where /\ IsStatus(last[d]) /\ last[d].dev = d
      BY <1>2, <2>2
    <3>2. last[d] \in Where' \/ \E l \in lost' : l[2] = last[d]
      BY <1>1, <3>1
    <3> QED
      BY <1>2, <1>4, <3>1, <3>2
  <2>3. CASE Shown(d) /\ Waiting(d) = {}
    BY <1>3, <2>1, <2>3
  <2>4. CASE d \in overtaken \/ \E l \in lost : l[2] = last[d]
    BY <1>4, <2>4
  <2> QED
    BY <2>2, <2>3, <2>4 DEF Explained
<1> QED
  BY <1>5, <1>6 DEF Explained

(* When an event is shown, it is the latest of its device and the last on its *)
(* way, or another is still to come, or it overtook one.                      *)
LEMMA OneShown ==
  ASSUME TypeOK, TypeOK', Latest, Explained,
         NEW ev \in Event, ev \in Where, Show(ev),
         UNCHANGED <<last, lost>>, overtaken \subseteq overtaken',
         Where' \subseteq Where \cup {Plain}, Where \subseteq Where' \cup {ev, Plain},
         IsStatus(ev) /\ ev = last[ev.dev] =>
           ev.dev \in overtaken' \/ \A e \in Where' : ~(IsStatus(e) /\ e.dev = ev.dev)
  PROVE  Latest' /\ Explained'
<1>1. Plain = Nothing /\ \A e : IsStatus(e) => e # Plain
  BY DEF Plain, Nothing, IsStatus
<1>2. \A d \in Devices : /\ Waiting(d) = {e \in Where : IsStatus(e) /\ e.dev = d}
                         /\ Waiting(d)' = {e \in Where' : IsStatus(e) /\ e.dev = d}
  BY DEF Waiting, Where, Members, Queued
<1>3. \A d \in Devices : /\ Waiting(d)' \subseteq Waiting(d)
                         /\ \A e \in Waiting(d) : e \in Waiting(d)' \/ e = ev
  BY <1>1, <1>2
<1>4. last' = last /\ lost' = lost
  OBVIOUS
<1>5. Latest'
  BY <1>3, <1>4 DEF Latest
<1>6. canvas' = [canvas EXCEPT ![ev.dev] = StatusOf(ev, canvas[ev.dev])] /\ ev.dev \in Devices
      /\ canvas \in [Devices -> {"online", "offline"}]
  BY EventsAreNotPlain DEF Show, TypeOK
<1>7. ASSUME NEW d \in Devices
      PROVE  \/ last'[d] \in Waiting(d)'
             \/ Shown(d)' /\ Waiting(d)' = {}
             \/ d \in overtaken'
             \/ \E l \in lost' : l[2] = last'[d]
  <2>1. CASE d \in overtaken \/ \E l \in lost : l[2] = last[d]
    BY <1>4, <2>1
  <2>2. CASE ~(d = ev.dev /\ IsStatus(ev))
    <3>1. ev \notin Waiting(d)
      BY <1>2, <2>2
    <3>2. Waiting(d)' = Waiting(d)
      BY <1>3, <3>1
    <3>3. canvas'[d] = canvas[d]
      <4>1. CASE d = ev.dev
        BY <1>6, <2>2, <4>1, StatusShown
      <4>2. CASE d # ev.dev
        BY <1>6, <4>2
      <4> QED
        BY <4>1, <4>2
    <3>4. Shown(d)' <=> Shown(d)
      BY <1>4, <3>3 DEF Shown
    <3> QED
      BY <1>4, <2>1, <3>2, <3>4 DEF Explained
  <2>3. CASE d = ev.dev /\ IsStatus(ev)
    <3>1. ev \in Waiting(d)
      BY <1>2, <2>3
    <3>2. CASE last[d] = ev
      <4>1. canvas'[d] = StatusOf(ev, canvas[d])
        BY <1>6, <2>3
      <4>2. canvas'[d] = StatusOf(ev, canvas'[d])
        BY <2>3, <4>1, StatusShown
      <4>3. ev # Nothing
        BY EventsAreNotPlain
      <4>4. Shown(d)'
        BY <1>4, <3>2, <4>2, <4>3 DEF Shown
      <4>5. d \in overtaken' \/ Waiting(d)' = {}
        BY <1>2, <2>3, <3>2
      <4> QED
        BY <4>4, <4>5
    <3>3. CASE last[d] # ev
      <4>1. last[d] \in Waiting(d) \/ d \in overtaken \/ \E l \in lost : l[2] = last[d]
        BY <3>1 DEF Explained
      <4> QED
        BY <1>3, <1>4, <2>1, <3>3, <4>1
    <3> QED
      BY <3>2, <3>3
  <2> QED
    BY <2>2, <2>3
<1> QED
  BY <1>5, <1>7 DEF Explained

(* A new event is the latest of its device, and on its way. *)
LEMMA PutExplained ==
  ASSUME PumpOK, Latest, Explained, NEW d \in Devices, NEW type \in Types, Put(d, type),
         UNCHANGED <<uiQueue, canvas, pc, guiVars, dropCount, plain, rebuilds, overtaken, lost>>
  PROVE  Latest' /\ Explained'
<1>1. TypeOK /\ Numbered /\ TypeOK' /\ UNCHANGED <<uiQueue, canvas, guiHand, overtaken, lost>>
  BY PutNumbered DEF PumpOK, guiVars
<1>2. Queued' = Queued
  BY <1>1 DEF Queued
<1>3. CASE UNCHANGED <<bus, last>>
  <2>1. Where' = Where
    BY <1>1, <1>2, <1>3 DEF Where, Members
  <2> QED
    BY <1>1, <1>3, <2>1, NothingShown
<1>4. CASE \E ev \in Event :
             /\ ev.dev = d /\ ev.n = published + 1
             /\ Members(bus') = Members(bus) \cup {ev}
             /\ last' = [last EXCEPT ![d] = IF IsStatus(ev) THEN ev ELSE @]
  <2>1. PICK ev \in Event :
             /\ ev.dev = d /\ ev.n = published + 1
             /\ Members(bus') = Members(bus) \cup {ev}
             /\ last' = [last EXCEPT ![d] = IF IsStatus(ev) THEN ev ELSE @]
    BY <1>4
  <2>2. Where' = Where \cup {ev}
    BY <1>1, <1>2, <2>1 DEF Where
  <2>3. \A e \in Devices : /\ Waiting(e) = {x \in Where : IsStatus(x) /\ x.dev = e}
                           /\ Waiting(e)' = {x \in Where' : IsStatus(x) /\ x.dev = e}
    BY DEF Waiting, Where, Members, Queued
  <2>4. last \in [Devices -> Event \cup {Nothing}]
    BY <1>1 DEF TypeOK
  <2>5. \A x \in Where : IsStatus(x) => x \in Event /\ x.n <= published
    BY <1>1, QueuesTyped, EventsAreNotPlain DEF Where, Numbered, Ahead, IsStatus, Plain, Nothing, TypeOK
  <2>6. published \in Nat
    BY <1>1 DEF Numbered
  <2>7. ASSUME NEW e \in Devices, ~(e = d /\ IsStatus(ev))
        PROVE  /\ last'[e] = last[e] /\ Waiting(e)' = Waiting(e)
               /\ Shown(e)' <=> Shown(e)
    <3>1. last'[e] = last[e]
      BY <2>1, <2>4, <2>7
    <3>2. Waiting(e)' = Waiting(e)
      <4>1. ~(IsStatus(ev) /\ ev.dev = e)
        BY <2>1, <2>7
      <4>2. {x \in Where' : IsStatus(x) /\ x.dev = e} = {x \in Where : IsStatus(x) /\ x.dev = e}
        BY <2>2, <4>1
      <4> QED
        BY <2>3, <4>2
    <3> QED
      BY <1>1, <3>1, <3>2 DEF Shown
  <2>8. ASSUME IsStatus(ev)
        PROVE  /\ last'[d] = ev /\ ev \in Waiting(d)' /\ ev # Nothing
               /\ \A x \in Waiting(d)' : x.n <= ev.n
    <3>1. last'[d] = ev /\ ev # Nothing
      BY <2>1, <2>4, <2>8, EventsAreNotPlain
    <3>2. ev \in Waiting(d)'
      BY <2>1, <2>2, <2>3, <2>8
    <3>3. \A x \in Waiting(d)' : x = ev \/ x.n <= published
      BY <2>2, <2>3, <2>5
    <3>4. \A x \in Waiting(d)' : x \in Event /\ x.n \in Nat
      BY <2>2, <2>3, <2>5, EventsAreNotPlain
    <3>5. \A x \in Waiting(d)' : x.n <= ev.n
      BY <2>1, <2>6, <3>3, <3>4
    <3> QED
      BY <3>1, <3>2, <3>5
  <2>9. Latest'
    <3>1. ASSUME NEW e \in Devices
          PROVE  /\ last'[e] # Nothing => IsStatus(last'[e]) /\ last'[e].dev = e
                 /\ \A x \in Waiting(e)' : last'[e] # Nothing /\ x.n <= last'[e].n
      <4>1. CASE ~(e = d /\ IsStatus(ev))
        BY <2>7, <4>1 DEF Latest
      <4>2. CASE e = d /\ IsStatus(ev)
        BY <2>1, <2>8, <4>2
      <4> QED
        BY <4>1, <4>2
    <3> QED
      BY <3>1 DEF Latest
  <2>10. Explained'
    <3>1. ASSUME NEW e \in Devices
          PROVE  \/ last'[e] \in Waiting(e)'
                 \/ Shown(e)' /\ Waiting(e)' = {}
                 \/ e \in overtaken'
                 \/ \E l \in lost' : l[2] = last'[e]
      <4>1. CASE ~(e = d /\ IsStatus(ev))
        BY <1>1, <2>7, <4>1 DEF Explained
      <4>2. CASE e = d /\ IsStatus(ev)
        BY <2>8, <4>2
      <4> QED
        BY <4>1, <4>2
    <3> QED
      BY <3>1 DEF Explained
  <2> QED
    BY <2>9, <2>10
<1> QED
  BY <1>3, <1>4, PutNumbered

(* Why CanvasExplained follows: Explained says a little more. *)
LEMMA ExplainedIsEnough ==
  ASSUME Latest, Explained
  PROVE  CanvasExplained
<1>1. ASSUME NEW d \in Devices
      PROVE  \/ Waiting(d) # {}
             \/ canvas[d] = IF last[d] = Nothing THEN "offline" ELSE StatusOf(last[d], canvas[d])
             \/ d \in overtaken
             \/ \E l \in lost : l[2] = last[d]
  BY DEF Explained, Shown
<1> QED
  BY <1>1 DEF CanvasExplained

(* Initially nothing is on its way and every device is shown offline. *)
LEMMA PumpInit ==
  ASSUME Init
  PROVE  PumpInv
<1> USE DEF Init
<1>1. Queued = {} /\ Members(bus) = {} /\ Ahead = {} /\ Where = {Nothing}
  BY DEF Queued, Members, Ahead, Where, Plain, Nothing
<1>2. TypeOK
  <2>1. bus \in Seq(Event) /\ Len(bus) <= BusMax /\ uiQueue \in Seq(Event \cup {Plain}) /\ Len(uiQueue) <= UiMax
    BY PumpAssumption
  <2>2. left \in 0 .. PollBatch + EventBatch /\ dropCount \in Nat
    BY PumpAssumption
  <2>3. /\ canvas \in [Devices -> {"online", "offline"}] /\ pc \in [Workers -> {"idle", "appending"}]
        /\ gui \in {"idle", "callbacks", "drain", "appending"} /\ guiHand \in Event \cup {Nothing}
        /\ last \in [Devices -> Event \cup {Nothing}]
        /\ overtaken \in SUBSET Devices /\ lost \in SUBSET ({"dropped", "evicted", "cleared"} \X Event)
    OBVIOUS
  <2> QED
    BY <2>1, <2>2, <2>3 DEF TypeOK
<1>3. HandOK /\ Direct
  BY <1>1 DEF HandOK, Direct
<1>4. Numbered
  <2>1. published \in 0 .. MaxEvents
    BY PumpAssumption
  <2>2. Sorted(bus) /\ Sorted(uiQueue)
    BY DEF Sorted
  <2> QED
    BY <1>1, <2>1, <2>2 DEF Numbered
<1>5. DropsCounted
  <2>1. Dropped = {}
    BY DEF Dropped
  <2> QED
    BY <2>1, FS_EmptySet DEF DropsCounted
<1>6. \A d \in Devices : Waiting(d) = {}
  BY DEF Waiting, Queued, IsStatus, Nothing
<1>7. Latest /\ Explained
  BY <1>6 DEF Latest, Explained, Shown
<1> QED
  BY <1>2, <1>3, <1>4, <1>5, <1>7 DEF PumpInv, PumpOK

(* Pushing a callback on the deque keeps the numbers and the count of drops.  *)
LEMMA PushKeeps ==
  ASSUME PumpInv, NEW fn \in Event \cup {Plain}, Push(fn),
         \/ fn = Plain /\ guiHand' = guiHand
         \/ fn = guiHand /\ guiHand' = Nothing,
         HandOK', UNCHANGED <<bus, canvas, dropCount, bounds, last, overtaken>>,
         published' = published,
         pc' \in [Workers -> {"idle", "appending"}],
         gui' \in {"idle", "callbacks", "drain", "appending"}, left' = left
  PROVE  PumpInv'
<1>1. TypeOK /\ Numbered /\ Direct /\ DropsCounted /\ Latest /\ Explained /\ PumpOK
  BY DEF PumpInv, PumpOK
<1>2. fn # Plain => \A e \in Queued : e # Plain => e.n < fn.n
  BY <1>1 DEF Numbered, Plain, Nothing
<1>3. /\ uiQueue' \in Seq(Event \cup {Plain}) /\ Len(uiQueue') <= UiMax /\ Sorted(uiQueue')
      /\ fn \in Queued' /\ Queued' \subseteq Queued \cup {fn}
      /\ lost \subseteq lost'
      /\ \A l \in lost' \ lost : l[1] = "evicted" /\ l[2] \in Queued \ {Plain}
      /\ \A l \in lost' \ lost : l \in {"dropped", "evicted", "cleared"} \X Event
      /\ \A e \in Queued : e \in Queued' \/ e = Plain \/ \E l \in lost' : l[2] = e
      /\ IsFiniteSet(lost) => IsFiniteSet(lost')
  <2>1. Sorted(uiQueue)
    BY <1>1 DEF Numbered
  <2> QED
    BY <1>1, <1>2, <2>1, PushedOrEvicted
<1>4. Members(bus') = Members(bus) /\ UNCHANGED <<bus, canvas, dropCount, published, last, overtaken>>
  BY DEF Members
<1>5. guiHand' \in Event \cup {Nothing}
  BY <1>1 DEF TypeOK
<1>6. TypeOK'
  <2>1. lost' \in SUBSET ({"dropped", "evicted", "cleared"} \X Event)
    BY <1>1, <1>3 DEF TypeOK
  <2> QED
    BY <1>1, <1>3, <1>4, <1>5, <2>1 DEF TypeOK
<1>7. Numbered' /\ Direct'
  <2>1. \A e \in Ahead' : e \in Ahead
    BY <1>3 DEF Ahead, Plain, Nothing
  <2>2. \A l \in lost' : l \in lost \/ l[2] \in Ahead
    BY <1>3 DEF Ahead
  <2>3. guiHand' # Nothing => \A e \in Queued' \ {Plain} : e.n < guiHand'.n
    <3>1. CASE guiHand' = Nothing
      BY <3>1
    <3>2. CASE guiHand' = guiHand /\ fn = Plain
      BY <1>1, <1>3, <3>2 DEF Numbered
    <3> QED
      BY <3>1, <3>2
  <2>4. Sorted(bus')
    BY <1>1, <1>4 DEF Numbered
  <2> QED
    BY <1>1, <1>3, <1>4, <1>6, <2>1, <2>2, <2>3, <2>4, NumbersKept
<1>8. DropsCounted'
  <2>1. \A l \in lost' : l \in lost \/ l[1] # "dropped"
    BY <1>3
  <2>2. Dropped' = Dropped
    BY <1>3, <2>1 DEF Dropped
  <2> QED
    BY <1>1, <1>3, <1>4, <2>2 DEF DropsCounted
<1>9. Latest' /\ Explained'
  <2>1. Where' \subseteq Where \cup {Plain}
    BY <1>3, <1>4 DEF Where, Plain, Nothing
  <2>2. \A e \in Where : e \in Where' \/ e = Plain \/ \E l \in lost' : l[2] = e
    <3>1. ASSUME NEW e \in Where
          PROVE  e \in Where' \/ e = Plain \/ \E l \in lost' : l[2] = e
      <4>1. CASE e \in Members(bus)
        BY <1>4, <4>1 DEF Where
      <4>2. CASE e \in Queued
        BY <1>3, <4>2 DEF Where
      <4>3. CASE e = guiHand
        BY <1>3, <4>3 DEF Where, Plain, Nothing
      <4> QED
        BY <4>1, <4>2, <4>3 DEF Where
    <3> QED
      BY <3>1
  <2> QED
    BY <1>1, <1>3, <1>4, <1>6, <2>1, <2>2, NothingShown
<1> QED
  BY <1>6, <1>7, <1>8, <1>9 DEF PumpInv, PumpOK

(* A step that moves no event and no callback keeps everything. *)
LEMMA NothingMoves ==
  ASSUME PumpInv, UNCHANGED <<queues, canvas, guiHand, dropCount, published, history>>,
         pc' \in [Workers -> {"idle", "appending"}],
         gui' \in {"idle", "callbacks", "drain", "appending"}, gui' = "appending" <=> gui = "appending",
         left' \in 0 .. PollBatch + EventBatch
  PROVE  PumpInv'
<1>1. TypeOK /\ HandOK /\ Numbered /\ Direct /\ DropsCounted /\ Latest /\ Explained /\ PumpOK
  BY DEF PumpInv, PumpOK
<1>2. UNCHANGED <<bus, uiQueue, canvas, guiHand, dropCount, published, last, overtaken, lost>>
  BY DEF queues, history
<1>3. /\ Queued' = Queued /\ Members(bus') = Members(bus) /\ Ahead' = Ahead /\ Where' = Where
      /\ Dropped' = Dropped
  BY <1>2 DEF Queued, Members, Ahead, Where, Dropped
<1>4. TypeOK'
  BY <1>1, <1>2 DEF TypeOK
<1>5. HandOK' /\ DropsCounted'
  BY <1>1, <1>2, <1>3 DEF HandOK, DropsCounted
<1>6. Numbered' /\ Direct'
  <2>1. Sorted(bus') /\ Sorted(uiQueue')
    BY <1>1, <1>2 DEF Numbered
  <2>2. guiHand' # Nothing => \A e \in Queued' \ {Plain} : e.n < guiHand'.n
    BY <1>1, <1>2, <1>3 DEF Numbered
  <2> QED
    BY <1>1, <1>2, <1>3, <1>4, <2>1, <2>2, NumbersKept
<1>7. Latest' /\ Explained'
  BY <1>1, <1>2, <1>3, <1>4, NothingShown
<1> QED
  BY <1>4, <1>5, <1>6, <1>7 DEF PumpInv, PumpOK

(* Publishing keeps everything: a worker's events and the user's alike. *)
LEMMA PutKeeps ==
  ASSUME PumpInv, NEW d \in Devices, NEW type \in Types, Put(d, type),
         UNCHANGED <<uiQueue, canvas, pc, guiVars, dropCount, plain, rebuilds, overtaken, lost>>
  PROVE  PumpInv'
<1>1. PumpOK /\ DropsCounted /\ Latest /\ Explained
  BY DEF PumpInv
<1>2. TypeOK' /\ HandOK' /\ Numbered' /\ Direct'
  BY <1>1, PutNumbered
<1>3. Latest' /\ Explained'
  BY <1>1, PutExplained
<1>4. DropsCounted'
  BY <1>1 DEF DropsCounted, Dropped
<1> QED
  BY <1>2, <1>3, <1>4 DEF PumpInv, PumpOK

(* The GUI runs a callback: of all that is on its way for the device, the     *)
(* event it shows was published first.                                        *)
LEMMA CallbackKeeps ==
  ASSUME PumpInv, RunCallback
  PROVE  PumpInv'
<1>1. TypeOK /\ HandOK /\ Numbered /\ Direct /\ DropsCounted /\ Latest /\ Explained /\ PumpOK
  BY DEF PumpInv, PumpOK
<1>2. PICK ev : ev = Head(uiQueue)
  OBVIOUS
<1>3. /\ gui = "callbacks" /\ left > 0 /\ uiQueue # <<>> /\ uiQueue' = Tail(uiQueue) /\ left' = left - 1
      /\ IF ev = Plain THEN UNCHANGED canvas ELSE Show(ev)
      /\ UNCHANGED <<bus, pc, gui, guiHand, dropCount, bounds, published, last, overtaken, lost>>
  BY <1>2 DEF RunCallback, bounds, history
<1>4. /\ ev \in Event \cup {Plain} /\ ev \in Queued /\ uiQueue' \in Seq(Event \cup {Plain})
      /\ Len(uiQueue') = Len(uiQueue) - 1 /\ Queued' \subseteq Queued /\ Queued \subseteq Queued' \cup {ev}
      /\ Sorted(uiQueue') /\ \A e \in Queued' : e # Plain /\ ev # Plain => ev.n < e.n
  <2> DEFINE callbacks == Event \cup {Plain}
  <2>1. uiQueue \in Seq(callbacks) /\ Sorted(uiQueue)
    BY <1>1 DEF TypeOK, Numbered
  <2>2. Queued = Members(uiQueue) /\ Queued' = Members(uiQueue')
    BY DEF Queued, Members
  <2>3. /\ Head(uiQueue) \in callbacks /\ Head(uiQueue) \in Members(uiQueue)
        /\ Tail(uiQueue) \in Seq(callbacks) /\ Len(Tail(uiQueue)) = Len(uiQueue) - 1
        /\ Members(Tail(uiQueue)) \subseteq Members(uiQueue)
        /\ Members(uiQueue) \subseteq Members(Tail(uiQueue)) \cup {Head(uiQueue)}
        /\ Sorted(Tail(uiQueue))
        /\ \A e \in Members(Tail(uiQueue)) : e # Plain /\ Head(uiQueue) # Plain => Head(uiQueue).n < e.n
    BY <1>3, <2>1, TailOrdered
  <2> QED
    BY <1>2, <1>3, <2>2, <2>3
<1>5. guiHand = Nothing /\ guiHand' = Nothing
  BY <1>1, <1>3 DEF HandOK
<1>6. Members(bus') = Members(bus) /\ Dropped' = Dropped
  BY <1>3 DEF Members, Dropped
<1>7. TypeOK'
  <2>1. left' \in 0 .. PollBatch + EventBatch
    BY <1>1, <1>3, PumpAssumption DEF TypeOK
  <2>2. Len(uiQueue') <= UiMax
    BY <1>1, <1>3, <1>4, PumpAssumption DEF TypeOK
  <2>3. canvas' \in [Devices -> {"online", "offline"}]
    <3>1. CASE ev = Plain
      BY <1>1, <1>3, <3>1 DEF TypeOK
    <3>2. CASE ev # Plain
      <4>1. canvas' = [canvas EXCEPT ![ev.dev] = StatusOf(ev, canvas[ev.dev])] /\ ev \in Event
        BY <1>3, <1>4, <3>2 DEF Show
      <4>2. StatusOf(ev, canvas[ev.dev]) \in {"online", "offline"}
        BY <1>1, <4>1, StatusShown, EventsAreNotPlain DEF TypeOK
      <4> QED
        BY <1>1, <4>1, <4>2 DEF TypeOK
    <3> QED
      BY <3>1, <3>2
  <2> QED
    BY <1>1, <1>3, <1>4, <2>1, <2>2, <2>3 DEF TypeOK
<1>8. HandOK' /\ DropsCounted'
  BY <1>1, <1>3, <1>5, <1>6 DEF HandOK, DropsCounted
<1>9. Numbered' /\ Direct'
  <2>1. Ahead' \subseteq Ahead
    BY <1>3, <1>4 DEF Ahead
  <2>2. Sorted(bus')
    BY <1>1, <1>3 DEF Numbered
  <2> QED
    BY <1>1, <1>3, <1>4, <1>5, <1>6, <1>7, <2>1, <2>2, NumbersKept
<1>10. Where' \subseteq Where /\ Where \subseteq Where' \cup {ev} /\ ev \in Where
  BY <1>3, <1>4, <1>6 DEF Where
<1>11. Latest' /\ Explained'
  <2>1. CASE ev = Plain
    BY <1>1, <1>3, <1>7, <1>10, <2>1, NothingShown
  <2>2. CASE ev # Plain
    <3>1. ev \in Event /\ Show(ev)
      BY <1>3, <1>4, <2>2
    <3>2. \A e \in Where' : IsStatus(e) => e \in Event /\ ev.n < e.n
      <4>1. ASSUME NEW e \in Where', IsStatus(e)
            PROVE  e \in Event /\ ev.n < e.n
        <5>1. e # Nothing
          BY <4>1 DEF IsStatus
        <5>2. CASE e \in Queued'
          BY <1>1, <1>4, <2>2, <5>1, <5>2, QueuesTyped DEF Plain, Nothing
        <5>3. CASE e \in Members(bus')
          <6>1. ev \in Ahead
            BY <1>4, <2>2 DEF Ahead
          <6>2. e \in Members(bus)
            BY <1>6, <5>3
          <6> QED
            BY <1>1, <6>1, <6>2, QueuesTyped DEF Numbered
        <5> QED
          BY <1>5, <4>1, <5>1, <5>2, <5>3 DEF Where
      <4> QED
        BY <4>1
    <3>3. ASSUME IsStatus(ev), ev = last[ev.dev], NEW e \in Where', IsStatus(e), e.dev = ev.dev
          PROVE  FALSE
      <4>1. e \in Waiting(ev.dev)
        BY <1>10, <3>3 DEF Waiting, Where, Members, Queued
      <4>2. e.n <= ev.n
        BY <1>1, <3>1, <3>3, <4>1, EventsAreNotPlain DEF Latest
      <4>3. e.n \in Nat /\ ev.n \in Nat /\ ev.n < e.n
        BY <3>1, <3>2, <3>3, EventsAreNotPlain
      <4> QED
        BY <4>2, <4>3
    <3> QED
      BY <1>1, <1>3, <1>7, <1>10, <3>1, <3>3, OneShown
  <2> QED
    BY <2>1, <2>2
<1> QED
  BY <1>7, <1>8, <1>9, <1>11 DEF PumpInv, PumpOK

(* What a drain takes from the bus, whatever it then does with it *)
LEMMA Taken ==
  ASSUME PumpOK, bus # <<>>, bus' = Tail(bus), NEW ev, ev = Head(bus)
  PROVE  /\ ev \in Event /\ ev \in Members(bus) /\ bus' \in Seq(Event) /\ Len(bus') <= BusMax
         /\ Members(bus') \subseteq Members(bus) /\ Members(bus) \subseteq Members(bus') \cup {ev}
         /\ Sorted(bus') /\ \A b \in Members(bus') : b \in Event /\ ev.n < b.n
<1>1. bus \in Seq(Event) /\ Len(bus) <= BusMax /\ Sorted(bus) /\ BusMax \in Nat
  BY PumpAssumption DEF PumpOK, TypeOK, Numbered
<1>2. /\ Head(bus) \in Event /\ Head(bus) \in Members(bus) /\ Tail(bus) \in Seq(Event)
      /\ Len(Tail(bus)) = Len(bus) - 1
      /\ Members(Tail(bus)) \subseteq Members(bus)
      /\ Members(bus) \subseteq Members(Tail(bus)) \cup {Head(bus)}
      /\ Sorted(Tail(bus))
      /\ \A e \in Members(Tail(bus)) : e # Plain /\ Head(bus) # Plain => Head(bus).n < e.n
  BY <1>1, TailOrdered
<1>3. Len(bus') <= BusMax
  BY <1>1, <1>2
<1>4. \A b \in Members(bus') : b \in Event /\ b # Plain
  BY <1>2, EventsAreNotPlain DEF Members
<1> QED
  BY <1>2, <1>3, <1>4, EventsAreNotPlain

(* A disconnection is shown at once: what it overtakes is on record. *)
LEMMA CriticalKeeps ==
  ASSUME PumpInv, DrainCritical
  PROVE  PumpInv'
<1>1. TypeOK /\ HandOK /\ Numbered /\ Direct /\ DropsCounted /\ Latest /\ Explained /\ PumpOK
  BY DEF PumpInv, PumpOK
<1>2. PICK ev : ev = Head(bus)
  OBVIOUS
<1>3. /\ gui = "drain" /\ left > 0 /\ bus # <<>> /\ bus' = Tail(bus) /\ left' = left - 1
      /\ Show(ev)
      /\ overtaken' = overtaken \cup {fn.dev : fn \in {f \in Queued : IsStatus(f) /\ f.dev = ev.dev}}
      /\ UNCHANGED <<uiQueue, pc, gui, guiHand, dropCount, published, last, lost>>
  BY <1>2 DEF DrainCritical, bounds
<1>4. /\ ev \in Event /\ ev \in Members(bus) /\ bus' \in Seq(Event) /\ Len(bus') <= BusMax
      /\ Members(bus') \subseteq Members(bus) /\ Members(bus) \subseteq Members(bus') \cup {ev}
      /\ Sorted(bus') /\ \A b \in Members(bus') : b \in Event /\ ev.n < b.n
  BY <1>1, <1>2, <1>3, Taken
<1>5. guiHand = Nothing /\ guiHand' = Nothing /\ Queued' = Queued /\ Ahead' = Ahead /\ Dropped' = Dropped
  BY <1>1, <1>3 DEF HandOK, Queued, Ahead, Dropped
<1>6. TypeOK'
  <2>1. left' \in 0 .. PollBatch + EventBatch
    BY <1>1, <1>3, PumpAssumption DEF TypeOK
  <2>2. canvas' \in [Devices -> {"online", "offline"}]
    <3>1. canvas' = [canvas EXCEPT ![ev.dev] = StatusOf(ev, canvas[ev.dev])]
      BY <1>3 DEF Show
    <3>2. StatusOf(ev, canvas[ev.dev]) \in {"online", "offline"}
      BY <1>1, <1>4, StatusShown, EventsAreNotPlain DEF TypeOK
    <3> QED
      BY <1>1, <3>1, <3>2 DEF TypeOK
  <2>3. overtaken' \subseteq Devices
    <3>1. ev.dev \in Devices
      BY <1>4, EventsAreNotPlain
    <3> QED
      BY <1>1, <1>3, <3>1 DEF TypeOK
  <2> QED
    BY <1>1, <1>3, <1>4, <2>1, <2>2, <2>3 DEF TypeOK
<1>7. HandOK' /\ DropsCounted'
  BY <1>1, <1>3, <1>5 DEF HandOK, DropsCounted
<1>8. Numbered' /\ Direct'
  <2>1. Sorted(uiQueue')
    BY <1>1, <1>3 DEF Numbered
  <2> QED
    BY <1>1, <1>3, <1>4, <1>5, <1>6, <2>1, NumbersKept
<1>9. Where' \subseteq Where /\ Where \subseteq Where' \cup {ev} /\ ev \in Where
  BY <1>3, <1>4, <1>5 DEF Where
<1>10. Latest' /\ Explained'
  <2>1. ASSUME IsStatus(ev), ev = last[ev.dev], ev.dev \notin overtaken',
               NEW e \in Where', IsStatus(e), e.dev = ev.dev
        PROVE  FALSE
    <3>1. e \notin Queued
      BY <1>3, <2>1
    <3>2. e \in Members(bus')
      BY <1>5, <2>1, <3>1 DEF Where, IsStatus
    <3>3. e \in Waiting(ev.dev)
      BY <1>9, <2>1 DEF Waiting, Where, Members, Queued
    <3>4. e.n <= ev.n
      BY <1>1, <1>4, <2>1, <3>3, EventsAreNotPlain DEF Latest
    <3>5. e.n \in Nat /\ ev.n \in Nat /\ ev.n < e.n
      BY <1>4, <3>2, EventsAreNotPlain
    <3> QED
      BY <3>4, <3>5
  <2>2. overtaken \subseteq overtaken'
    BY <1>3
  <2> QED
    BY <1>1, <1>3, <1>4, <1>6, <1>9, <2>1, <2>2, OneShown
<1> QED
  BY <1>6, <1>7, <1>8, <1>10 DEF PumpInv, PumpOK

(* Any other event becomes the GUI's next callback, or a counted drop. *)
LEMMA OtherKeeps ==
  ASSUME PumpInv, DrainOther
  PROVE  PumpInv'
<1>1. TypeOK /\ HandOK /\ Numbered /\ Direct /\ DropsCounted /\ Latest /\ Explained /\ PumpOK
  BY DEF PumpInv, PumpOK
<1>2. PICK ev : ev = Head(bus)
  OBVIOUS
<1>3. /\ gui = "drain" /\ left > 0 /\ bus # <<>> /\ bus' = Tail(bus) /\ left' = left - 1
      /\ ev.type # "DISCONNECTED"
      /\ \/ /\ dropCount' = dropCount + 1 /\ lost' = lost \cup {<<"dropped", ev>>}
            /\ UNCHANGED <<gui, guiHand>>
         \/ gui' = "appending" /\ guiHand' = ev /\ UNCHANGED <<dropCount, lost>>
      /\ UNCHANGED <<uiQueue, canvas, pc, published, last, overtaken>>
  BY <1>2 DEF DrainOther, bounds, IsCritical
<1>4. /\ ev \in Event /\ ev \in Members(bus) /\ bus' \in Seq(Event) /\ Len(bus') <= BusMax
      /\ Members(bus') \subseteq Members(bus) /\ Members(bus) \subseteq Members(bus') \cup {ev}
      /\ Sorted(bus') /\ \A b \in Members(bus') : b \in Event /\ ev.n < b.n
  BY <1>1, <1>2, <1>3, Taken
<1>5. guiHand = Nothing /\ Queued' = Queued /\ ev # Nothing
  BY <1>1, <1>3, <1>4, EventsAreNotPlain DEF HandOK, Queued
<1>6. lost \subseteq lost' /\ \A l \in lost' \ lost : l = <<"dropped", ev>>
  BY <1>3
<1>7. TypeOK'
  <2>1. left' \in 0 .. PollBatch + EventBatch
    BY <1>1, <1>3, PumpAssumption DEF TypeOK
  <2>2. lost' \in SUBSET ({"dropped", "evicted", "cleared"} \X Event)
    BY <1>1, <1>3, <1>4 DEF TypeOK
  <2>3. dropCount' \in Nat /\ guiHand' \in Event \cup {Nothing}
    BY <1>1, <1>3, <1>4 DEF TypeOK
  <2>4. gui' \in {"idle", "callbacks", "drain", "appending"}
    BY <1>3
  <2> QED
    BY <1>1, <1>3, <1>4, <2>1, <2>2, <2>3, <2>4 DEF TypeOK
<1>8. HandOK'
  BY <1>3, <1>4, <1>5 DEF HandOK
<1>9. DropsCounted'
  <2>1. CASE dropCount' = dropCount + 1 /\ lost' = lost \cup {<<"dropped", ev>>}
    <3>1. PICK drop : drop = <<"dropped", ev>>
      OBVIOUS
    <3>2. drop \notin lost
      <4>1. drop[2] = ev
        BY <3>1
      <4>2. \A l \in lost : l[2].n < ev.n
        BY <1>1, <1>4 DEF Numbered
      <4> QED
        BY <1>4, <4>1, <4>2, EventsAreNotPlain
    <3>3. Dropped' = Dropped \cup {drop}
      BY <2>1, <3>1 DEF Dropped
    <3>4. IsFiniteSet(lost) /\ IsFiniteSet(lost') /\ IsFiniteSet(Dropped)
      BY <1>1, <2>1, FS_AddElement, FS_Subset DEF DropsCounted, Dropped
    <3>5. Cardinality(Dropped') = Cardinality(Dropped) + 1
      <4>1. drop \notin Dropped
        BY <3>2 DEF Dropped
      <4> QED
        BY <3>3, <3>4, <4>1, FS_AddElement
    <3> QED
      BY <1>1, <2>1, <3>4, <3>5 DEF DropsCounted
  <2>2. CASE UNCHANGED <<dropCount, lost>>
    BY <1>1, <2>2 DEF DropsCounted, Dropped
  <2> QED
    BY <1>3, <2>1, <2>2
<1>10. Numbered' /\ Direct'
  <2>1. \A e \in Ahead' : e \in Ahead \/ e = ev
    BY <1>3, <1>5 DEF Ahead
  <2>2. \A l \in lost' : l \in lost \/ l[2] = ev
    BY <1>6
  <2>3. guiHand' # Nothing => \A e \in Queued' \ {Plain} : e.n < guiHand'.n
    <3>1. \A e \in Queued \ {Plain} : e.n < ev.n
      BY <1>1, <1>4 DEF Numbered, Ahead
    <3>2. guiHand' = Nothing \/ guiHand' = ev
      BY <1>3, <1>5
    <3> QED
      BY <1>5, <3>1, <3>2
  <2>4. Sorted(uiQueue')
    BY <1>1, <1>3 DEF Numbered
  <2> QED
    BY <1>1, <1>3, <1>4, <1>7, <2>1, <2>2, <2>3, <2>4, NumbersKept
<1>11. Latest' /\ Explained'
  <2>1. Where' \subseteq Where
    BY <1>3, <1>4, <1>5 DEF Where
  <2>2. \A e \in Where : e \in Where' \/ e = Plain \/ \E l \in lost' : l[2] = e
    <3>1. ASSUME NEW e \in Where
          PROVE  e \in Where' \/ e = Plain \/ \E l \in lost' : l[2] = e
      <4>1. CASE e \in Members(bus) /\ e # ev
        BY <1>4, <4>1 DEF Where
      <4>2. CASE e \in Queued
        BY <1>5, <4>2 DEF Where
      <4>3. CASE e = guiHand
        BY <1>5, <4>3 DEF Plain, Nothing
      <4>4. CASE e = ev
        <5>1. guiHand' = ev \/ <<"dropped", ev>> \in lost'
          BY <1>3
        <5>2. <<"dropped", ev>>[2] = ev
          OBVIOUS
        <5> QED
          BY <4>4, <5>1, <5>2 DEF Where
      <4> QED
        BY <4>1, <4>2, <4>3, <4>4 DEF Where
    <3> QED
      BY <3>1
  <2> QED
    BY <1>1, <1>3, <1>6, <1>7, <2>1, <2>2, NothingShown
<1> QED
  BY <1>7, <1>8, <1>9, <1>10, <1>11 DEF PumpInv, PumpOK

(* A rebuild of the window clears the callbacks, on record. *)
LEMMA RebuildKeeps ==
  ASSUME PumpInv, RebuildUi
  PROVE  PumpInv'
<1>1. TypeOK /\ HandOK /\ Numbered /\ Direct /\ DropsCounted /\ Latest /\ Explained /\ PumpOK
  BY DEF PumpInv, PumpOK
<1>2. /\ gui = "idle" /\ uiQueue' = <<>>
      /\ lost' = lost \cup {<<"cleared", fn>> : fn \in Queued \ {Plain}}
      /\ UNCHANGED <<bus, canvas, pc, gui, guiHand, left, dropCount, published, last, overtaken>>
  BY DEF RebuildUi, guiVars
<1>3. guiHand = Nothing /\ guiHand' = Nothing /\ Queued' = {} /\ Members(bus') = Members(bus)
      /\ Ahead' = {}
  BY <1>1, <1>2 DEF HandOK, Queued, Members, Ahead, Plain, Nothing
<1>4. lost \subseteq lost' /\ \A l \in lost' \ lost : l[1] = "cleared" /\ l[2] \in Queued \ {Plain}
                              /\ l \in {"dropped", "evicted", "cleared"} \X Event
  BY <1>1, <1>2, QueuesTyped
<1>5. TypeOK'
  <2>1. lost' \in SUBSET ({"dropped", "evicted", "cleared"} \X Event)
    BY <1>1, <1>4 DEF TypeOK
  <2>2. uiQueue' \in Seq(Event \cup {Plain}) /\ Len(uiQueue') <= UiMax
    BY <1>2, PumpAssumption
  <2> QED
    BY <1>1, <1>2, <2>1, <2>2 DEF TypeOK
<1>6. HandOK'
  BY <1>1, <1>2 DEF HandOK
<1>7. DropsCounted'
  <2>1. Dropped' = Dropped
    BY <1>4 DEF Dropped
  <2>2. IsFiniteSet(lost')
    <3> DEFINE S == DOMAIN uiQueue
               T == {<<"cleared", uiQueue[i]>> : i \in S}
               f == [i \in S |-> <<"cleared", uiQueue[i]>>]
    <3>1. IsFiniteSet(S)
      <4>1. S = 1 .. Len(uiQueue) /\ Len(uiQueue) \in Int /\ 1 \in Int
        BY <1>1 DEF TypeOK
      <4> QED
        BY <4>1, FS_Interval
    <3>2. f \in Surjection(S, T)
      BY DEF Surjection
    <3>3. IsFiniteSet(T)
      BY <3>1, <3>2, FS_Surjection
    <3>4. lost' \subseteq lost \cup T
      BY <1>2 DEF Queued
    <3> QED
      BY <1>1, <3>3, <3>4, FS_Union, FS_Subset DEF DropsCounted
  <2> QED
    BY <1>1, <1>2, <2>1, <2>2 DEF DropsCounted
<1>8. Numbered' /\ Direct'
  <2>1. \A l \in lost' : l \in lost \/ l[2] \in Ahead
    BY <1>4 DEF Ahead
  <2>2. Sorted(bus') /\ Sorted(uiQueue')
    BY <1>1, <1>2 DEF Numbered, Sorted
  <2> QED
    BY <1>1, <1>2, <1>3, <1>5, <2>1, <2>2, NumbersKept
<1>9. Latest' /\ Explained'
  <2>1. Where' \subseteq Where
    BY <1>2, <1>3 DEF Where
  <2>2. \A e \in Where : e \in Where' \/ e = Plain \/ \E l \in lost' : l[2] = e
    <3>1. ASSUME NEW e \in Queued \ {Plain}
          PROVE  \E l \in lost' : l[2] = e
      <4>1. <<"cleared", e>> \in lost' /\ <<"cleared", e>>[2] = e
        BY <1>2
      <4> QED
        BY <4>1
    <3> QED
      BY <1>2, <1>3, <3>1 DEF Where
  <2> QED
    BY <1>1, <1>2, <1>4, <1>5, <2>1, <2>2, NothingShown
<1> QED
  BY <1>5, <1>6, <1>7, <1>8, <1>9 DEF PumpInv, PumpOK

(* Every step of the pump, one action at a time *)
LEMMA PumpStep ==
  ASSUME PumpInv, [Next]_vars
  PROVE  PumpInv'
<1>1. TypeOK /\ HandOK
  BY DEF PumpInv, PumpOK
<1>2. ASSUME NEW w \in Workers, Publish(w)
      PROVE  PumpInv'
  <2>1. PICK d \in Devices, type \in {"CONNECTED", "CONFIG_CHANGED"} : Put(d, type)
    BY <1>2 DEF Publish
  <2>2. type \in Types
    BY DEF Types
  <2> QED
    BY <1>2, <2>1, <2>2, PutKeeps DEF Publish
<1>3. ASSUME NEW w \in Workers, DispatchPlain(w)
      PROVE  PumpInv'
  BY <1>1, <1>3, NothingMoves DEF DispatchPlain, TypeOK, guiVars
<1>4. ASSUME NEW w \in Workers, AppendPlain(w)
      PROVE  PumpInv'
  <2>1. /\ Push(Plain) /\ pc' = [pc EXCEPT ![w] = "idle"]
        /\ UNCHANGED <<bus, canvas, gui, guiHand, left, dropCount, bounds, published, last, overtaken>>
    BY <1>4 DEF AppendPlain, guiVars, bounds
  <2>2. pc' \in [Workers -> {"idle", "appending"}] /\ gui' \in {"idle", "callbacks", "drain", "appending"}
    BY <1>1, <2>1 DEF TypeOK
  <2>3. HandOK'
    BY <1>1, <2>1 DEF HandOK
  <2> QED
    BY <2>1, <2>2, <2>3, PushKeeps
<1>5. ASSUME NEW d \in Devices, ClickDisconnect(d)
      PROVE  PumpInv'
  <2>1. "DISCONNECTED" \in Types
    BY DEF Types
  <2> QED
    BY <1>5, <2>1, PutKeeps DEF ClickDisconnect
<1>6. CASE PollStart
  <2>1. left' \in 0 .. PollBatch + EventBatch
    BY <1>6, PumpAssumption DEF PollStart
  <2> QED
    BY <1>1, <1>6, <2>1, NothingMoves DEF PollStart, TypeOK, bounds
<1>7. CASE RunCallback
  BY <1>7, CallbackKeeps
<1>8. CASE CallbacksDone
  <2>1. left' \in 0 .. PollBatch + EventBatch
    BY <1>8, PumpAssumption DEF CallbacksDone
  <2> QED
    BY <1>1, <1>8, <2>1, NothingMoves DEF CallbacksDone, TypeOK, bounds
<1>9. CASE DrainCritical
  BY <1>9, CriticalKeeps
<1>10. CASE DrainOther
  BY <1>10, OtherKeeps
<1>11. CASE GuiAppend
  <2>1. /\ gui = "appending" /\ Push(guiHand) /\ gui' = "drain" /\ guiHand' = Nothing
        /\ UNCHANGED <<bus, canvas, pc, left, dropCount, bounds, published, last, overtaken>>
    BY <1>11 DEF GuiAppend, bounds
  <2>2. pc' \in [Workers -> {"idle", "appending"}] /\ HandOK' /\ guiHand \in Event \cup {Plain}
    BY <1>1, <2>1 DEF TypeOK, HandOK
  <2> QED
    BY <2>1, <2>2, PushKeeps
<1>12. CASE PollEnd
  <2>1. left' \in 0 .. PollBatch + EventBatch
    BY <1>12, PumpAssumption DEF PollEnd
  <2> QED
    BY <1>1, <1>12, <2>1, NothingMoves DEF PollEnd, TypeOK, bounds
<1>13. CASE RebuildUi
  BY <1>13, RebuildKeeps
<1>14. CASE UNCHANGED vars
  BY <1>1, <1>14, NothingMoves DEF vars, guiVars, bounds, TypeOK
<1> QED
  BY <1>2, <1>3, <1>4, <1>5, <1>6, <1>7, <1>8, <1>9, <1>10, <1>11, <1>12, <1>13, <1>14 DEF Next, Poll

(* The inductive invariant holds in every behaviour of the pump. *)
LEMMA PumpInvariance == Spec => []PumpInv
<1>1. Init => PumpInv
  BY PumpInit
<1>2. PumpInv /\ [Next]_vars => PumpInv'
  BY PumpStep
<1> QED
  BY <1>1, <1>2, PTL DEF Spec

(* _ui_queue, the bus and the canvas are always what their types say. *)
THEOREM PumpTypeCorrect == Spec => []TypeOK
<1>1. PumpInv => TypeOK
  BY DEF PumpInv, PumpOK
<1> QED
  BY <1>1, PumpInvariance, PTL

(* A canvas that is wrong, with nothing on its way for the device, has an     *)
(* event overtaken, dropped, evicted or cleared for its reason.               *)
THEOREM CanvasAccounted == Spec => []CanvasExplained
<1>1. PumpInv => CanvasExplained
  BY ExplainedIsEnough DEF PumpInv
<1> QED
  BY <1>1, PumpInvariance, PTL

(* _poll_queue shows every disconnection it takes, whatever the state of      *)
(* the deque, and _event_drop_count counts the other events it drops.         *)
THEOREM DisconnectionsShown == Spec => []CriticalNeverLost
<1>1. PumpInv => CriticalNeverLost
  BY DEF PumpInv, PumpOK, Direct, DropsCounted, Dropped, CriticalNeverLost
<1> QED
  BY <1>1, PumpInvariance, PTL

=============================================================================
