------------------------------ MODULE EventBus ------------------------------
(***************************************************************************)
(* EventQueue of sdn_controller/event_queue.py: a bounded priority queue   *)
(* with a push side.  put() draws a ticket, inserts (waiting while the     *)
(* queue is full, giving up when its timeout expires) and then calls the   *)
(* subscribers in the producer's own thread, on a snapshot of the list     *)
(* taken under the bus lock.  get() removes the least (priority, ticket).  *)
(***************************************************************************)
EXTENDS Naturals, FiniteSets, Sequences

CONSTANTS
  Producers,     \* threads that call put()
  Subscribers,   \* callbacks that subscribe() and unsubscribe()
  Priorities,    \* priorities of events, 0 the most urgent
  Capacity,      \* maxsize of the queue (1000 in the application)
  PollMax,       \* max_events of poll()
  MaxEvents,     \* bound: events put in one behaviour
  MaxChanges     \* bound: subscribe()/unsubscribe() calls in one behaviour

ASSUME BusAssumption ==
  /\ Priorities \subseteq Nat
  /\ Capacity \in Nat \ {0}
  /\ PollMax \in Nat \ {0}
  /\ MaxEvents \in Nat
  /\ MaxChanges \in Nat

VARIABLES
  queue,        \* items in the PriorityQueue
  counter,      \* next ticket of itertools.count()
  subscribers,  \* the callbacks registered for the event type
  dropCount,    \* _drop_count
  place,        \* where each producer is in put()
  item,         \* the item each producer is putting
  toCall,       \* callbacks each producer still has to call
  batch         \* how many events the running poll() has drained

(* History, read by the properties only. *)
VARIABLES
  got,          \* events in the order in which they were taken from it
  dropped,      \* events put() gave up on
  calls,        \* <<callback, event>> pairs, one per call made
  owed,         \* for each put() in progress: callbacks registered all along
  eligible,     \* for each put() in progress: callbacks registered at any time
  changes       \* subscribe()/unsubscribe() calls so far

busHistory == <<got, dropped, calls, owed, eligible, changes>>
busVars == <<queue, counter, subscribers, dropCount, place, item, toCall, batch, busHistory>>

-----------------------------------------------------------------------------
Item == [prio : Priorities, ticket : Nat, from : Producers]

NoItem == <<>>

Before(i, j) == i.prio < j.prio \/ (i.prio = j.prio /\ i.ticket < j.ticket)

(* What the heap hands out next. *)
IsHead(i) == i \in queue /\ \A j \in queue \ {i} : Before(i, j)

(* Slip: one too many fits in. *)
Full_Late == Cardinality(queue) > Capacity

Full == Cardinality(queue) >= Capacity

NextTicket == counter + 1

Elements(seq) == {seq[n] : n \in DOMAIN seq}

BusInit ==
  /\ queue = {}
  /\ counter = 0
  /\ subscribers \in SUBSET Subscribers   \* registered before the threads start
  /\ dropCount = 0
  /\ place = [p \in Producers |-> "idle"]
  /\ item = [p \in Producers |-> NoItem]
  /\ toCall = [p \in Producers |-> {}]
  /\ batch = 0
  /\ got = <<>>
  /\ dropped = {}
  /\ calls = {}
  /\ owed = [p \in Producers |-> {}]
  /\ eligible = [p \in Producers |-> {}]
  /\ changes = 0

-----------------------------------------------------------------------------
(* put(): the ticket is drawn before the queue's own lock is taken. *)
Draw(p) ==
  /\ place[p] = "idle"
  /\ counter < MaxEvents
  /\ \E prio \in Priorities :
       item' = [item EXCEPT ![p] = [prio |-> prio, ticket |-> counter, from |-> p]]
  /\ counter' = NextTicket
  /\ place' = [place EXCEPT ![p] = "inserting"]
  /\ owed' = [owed EXCEPT ![p] = subscribers]
  /\ eligible' = [eligible EXCEPT ![p] = subscribers]
  /\ UNCHANGED <<queue, subscribers, dropCount, toCall, batch, got, dropped,
                 calls, changes>>

Insert(p) ==
  /\ place[p] = "inserting"
  /\ ~Full
  /\ queue' = queue \cup {item[p]}
  /\ place' = [place EXCEPT ![p] = "snapshot"]
  /\ UNCHANGED <<counter, subscribers, dropCount, item, toCall, batch, got, dropped,
                 calls, owed, eligible, changes>>

(* queue.Full: the queue is still full when the timeout expires (at once when *)
(* block is false).  The event is counted and nobody is notified.             *)
GiveUp(p) ==
  /\ place[p] = "inserting"
  /\ Full
  /\ dropCount' = dropCount + 1
  /\ dropped' = dropped \cup {item[p]}
  /\ item' = [item EXCEPT ![p] = NoItem]
  /\ owed' = [owed EXCEPT ![p] = {}]
  /\ eligible' = [eligible EXCEPT ![p] = {}]
  /\ place' = [place EXCEPT ![p] = "idle"]
  /\ UNCHANGED <<queue, counter, subscribers, toCall, batch, got, calls, changes>>

(* Slip: callbacks that unsubscribed are still on the list. *)
CopyCallbacks_All(p) ==
  /\ place[p] = "snapshot"
  /\ toCall' = [toCall EXCEPT ![p] = Subscribers]
  /\ place' = [place EXCEPT ![p] = "calling"]
  /\ UNCHANGED <<queue, counter, subscribers, dropCount, item, batch, busHistory>>

(* _notify(): copy the callbacks under the bus lock ... *)
CopyCallbacks(p) ==
  /\ place[p] = "snapshot"
  /\ toCall' = [toCall EXCEPT ![p] = subscribers]
  /\ place' = [place EXCEPT ![p] = "calling"]
  /\ UNCHANGED <<queue, counter, subscribers, dropCount, item, batch, busHistory>>

(* ... and call them without it.  A callback that raises is logged, and the *)
(* loop goes on: for the bus, a call is a call.                             *)
Call(p) ==
  /\ place[p] = "calling"
  /\ \E s \in toCall[p] :
       /\ toCall' = [toCall EXCEPT ![p] = @ \ {s}]
       /\ calls' = calls \cup {<<s, item[p]>>}
  /\ UNCHANGED <<queue, counter, subscribers, dropCount, place, item, batch, got,
                 dropped, owed, eligible, changes>>

Return(p) ==
  /\ place[p] = "calling"
  /\ toCall[p] = {}
  /\ item' = [item EXCEPT ![p] = NoItem]
  /\ owed' = [owed EXCEPT ![p] = {}]
  /\ eligible' = [eligible EXCEPT ![p] = {}]
  /\ place' = [place EXCEPT ![p] = "idle"]
  /\ UNCHANGED <<queue, counter, subscribers, dropCount, toCall, batch, got,
                 dropped, calls, changes>>

Subscribe(s) ==
  /\ changes < MaxChanges
  /\ s \notin subscribers
  /\ subscribers' = subscribers \cup {s}
  /\ eligible' = [p \in Producers |->
                    IF place[p] = "idle" THEN {} ELSE eligible[p] \cup {s}]
  /\ changes' = changes + 1
  /\ UNCHANGED <<queue, counter, dropCount, place, item, toCall, batch, got,
                 dropped, calls, owed>>

Unsubscribe(s) ==
  /\ changes < MaxChanges
  /\ s \in subscribers
  /\ subscribers' = subscribers \ {s}
  /\ owed' = [p \in Producers |-> owed[p] \ {s}]
  /\ changes' = changes + 1
  /\ UNCHANGED <<queue, counter, dropCount, place, item, toCall, batch, got,
                 dropped, calls, eligible>>

(* get(): the consumer, alone (the GUI thread), takes the head. *)
Take(i) ==
  /\ IsHead(i)
  /\ queue' = queue \ {i}
  /\ got' = Append(got, i)

Get ==
  /\ batch = 0
  /\ \E i \in queue : Take(i)
  /\ UNCHANGED <<counter, subscribers, dropCount, place, item, toCall, batch, 
                 dropped, calls, owed, eligible, changes>>

(* poll(): one get() after the other, the producers running in between. *)
PollNext ==
  /\ batch < PollMax
  /\ \E i \in queue :
       /\ Take(i)
       /\ batch' = batch + 1
  /\ UNCHANGED <<counter, subscribers, dropCount, place, item, toCall, dropped,
                 calls, owed, eligible, changes>>

PollEnd ==
  /\ batch # 0
  /\ batch >= PollMax \/ queue = {}
  /\ batch' = 0
  /\ UNCHANGED <<queue, counter, subscribers, dropCount, place, item, toCall, busHistory>>

PutStep(p) == Insert(p) \/ GiveUp(p) \/ CopyCallbacks(p) \/ Call(p) \/ Return(p)

BusNext ==
  \/ \E p \in Producers : Draw(p) \/ PutStep(p)
  \/ \E s \in Subscribers : Subscribe(s) \/ Unsubscribe(s)
  \/ Get
  \/ PollNext
  \/ PollEnd

BusSpec == BusInit /\ [][BusNext]_busVars

-----------------------------------------------------------------------------
BusTypeOK ==
  /\ queue \in SUBSET Item
  /\ counter \in Nat
  /\ subscribers \in SUBSET Subscribers
  /\ dropCount \in Nat
  /\ place \in [Producers -> {"idle", "inserting", "snapshot", "calling"}]
  /\ item \in [Producers -> Item \cup {NoItem}]
  /\ toCall \in [Producers -> SUBSET Subscribers]
  /\ batch \in 0 .. PollMax

InFlight == {item[p] : p \in {q \in Producers : place[q] = "inserting"}}

(* No event is lost or duplicated: every ticket drawn belongs to exactly one *)
(* event, which is on its way in, queued, taken or dropped, never two of     *)
(* these, and the drop counter counts the dropped ones.                      *)
Conservation ==
  /\ Cardinality(InFlight) + Cardinality(queue) + Len(got) + Cardinality(dropped) = counter
  /\ Cardinality(InFlight \cup queue \cup Elements(got) \cup dropped) = counter
  /\ dropCount = Cardinality(dropped)
  /\ Cardinality(queue) <= Capacity

(* Events of one producer and one priority are taken in the order in which   *)
(* it put them, whatever the other producers do.                             *)
ProducerFifo ==
  \A m, n \in DOMAIN got :
    /\ got[m].from = got[n].from
    /\ got[m].prio = got[n].prio
    /\ m < n
    => got[m].ticket < got[n].ticket

(* What the bus promises its one consumer. *)
Delivery == Conservation /\ ProducerFifo

(* When put() is about to return, every callback registered all along has    *)
(* been called, whichever of them raised; and nobody is called who was not   *)
(* registered at some moment of the call ("Apos unsubscribe, callback nao    *)
(* recebe novos eventos").  What a callback hears of entered the queue.       *)
PushComplete ==
  /\ \A c \in calls : c[2] \in queue \cup Elements(got)
  /\ \A p \in Producers : place[p] = "calling" =>
       /\ \A s \in owed[p] : s \in toCall[p] \/ <<s, item[p]>> \in calls
       /\ \A s \in Subscribers : <<s, item[p]>> \in calls => s \in eligible[p]

=============================================================================
