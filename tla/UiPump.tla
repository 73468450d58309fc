------------------------------- MODULE UiPump -------------------------------
(***************************************************************************)
(* How an SDN event reaches the topology canvas: app_threading.py and      *)
(* app_state.py, between the bus of EventBus and the widgets.  Worker      *)
(* threads publish on the bus and hand callbacks to the GUI through a      *)
(* bounded deque; the GUI thread alone runs _poll_queue, the handlers of   *)
(* the user's clicks and _rebuild_ui.  Every event of the application has  *)
(* the default priority, so the bus is a FIFO here (the race for tickets   *)
(* inside put() is the business of EventBus) and the subscribers, which    *)
(* touch neither queue, are left to ControllerCore.                        *)
(***************************************************************************)
EXTENDS Naturals, Sequences, FiniteSets

CONSTANTS
  Devices,      \* sources of events
  Workers,      \* hw-io threads
  UiMax,        \* maxlen of _ui_queue (1000 in the application)
  BusMax,       \* maxsize of the bus (1000)
  PollBatch,    \* _POLL_BATCH (500)
  EventBatch,   \* _EVENT_BATCH (50)
  MaxEvents,    \* bound: events published in one behaviour
  MaxPlain,     \* bound: callbacks of other kinds handed to the GUI
  MaxRebuilds   \* bound: UI rebuilds (theme changes)

ASSUME PumpAssumption ==
  /\ UiMax \in Nat \ {0}
  /\ BusMax \in Nat \ {0}
  /\ PollBatch \in Nat \ {0}
  /\ EventBatch \in Nat \ {0}
  /\ MaxEvents \in Nat /\ MaxPlain \in Nat /\ MaxRebuilds \in Nat

VARIABLES
  bus,        \* events waiting on the bus
  uiQueue,    \* _ui_queue: callbacks waiting for the GUI
  canvas,     \* the status the canvas shows for each device
  pc,         \* is each worker between _dispatch's test and its append?
  gui,        \* what the GUI thread is in the middle of
  guiHand,    \* the event it is about to append as a callback
  left,       \* what remains of the current batch
  dropCount,  \* _event_drop_count
  published,  \* events published so far
  plain,      \* plain callbacks made so far
  rebuilds    \* UI rebuilds so far

(* History, read by the properties only. *)
VARIABLES
  last,       \* for each device, the latest status event to enter the bus
  overtaken,  \* devices of which an event was shown before an earlier one
  lost        \* <<cause, event>> for callbacks of events that never run

queues == <<bus, uiQueue>>
guiVars == <<gui, guiHand, left>>
bounds == <<published, plain, rebuilds>>
history == <<last, overtaken, lost>>
vars == <<queues, canvas, pc, guiVars, dropCount, bounds, history>>

-----------------------------------------------------------------------------
Types == {"CONNECTED", "DISCONNECTED", "CONFIG_CHANGED"}

Event == [n : 1 .. MaxEvents, dev : Devices, type : Types]

Plain == <<>>       \* a callback that is not an SDN event
Nothing == <<>>     \* an empty hand, or no event yet

IsStatus(ev) == ev # Nothing /\ ev.type # "CONFIG_CHANGED"

(* _on_sdn_event, as far as the canvas goes. *)
StatusOf(ev, old) ==
  CASE ev.type = "CONNECTED"    -> "online"
    [] ev.type = "DISCONNECTED" -> "offline"
    [] OTHER                    -> old

(* Slip: the handler raises before it reaches the canvas. *)
Show_Never(ev) == UNCHANGED canvas

Show(ev) == canvas' = [canvas EXCEPT ![ev.dev] = StatusOf(ev, @)]

Queued == {uiQueue[i] : i \in DOMAIN uiQueue}

(* Slip: no event passes for critical. *)
IsCritical_Never(ev) == FALSE

IsCritical(ev) == ev.type = "DISCONNECTED"

(* deque(maxlen).append: a full deque loses its oldest member. *)
Push(fn) ==
  IF Len(uiQueue) < UiMax
  THEN /\ uiQueue' = Append(uiQueue, fn)
       /\ UNCHANGED lost
  ELSE /\ uiQueue' = Append(Tail(uiQueue), fn)
       /\ lost' = lost \cup {<<"evicted", gone>> : gone \in {Head(uiQueue)} \ {Plain}}

UiFull == Len(uiQueue) >= UiMax

Init ==
  /\ bus = <<>>
  /\ uiQueue = <<>>
  /\ canvas = [d \in Devices |-> "offline"]
  /\ pc = [w \in Workers |-> "idle"]
  /\ gui = "idle"
  /\ guiHand = Nothing
  /\ left = 0
  /\ dropCount = 0
  /\ published = 0
  /\ plain = 0
  /\ rebuilds = 0
  /\ last = [d \in Devices |-> Nothing]
  /\ overtaken = {}
  /\ lost = {}

-----------------------------------------------------------------------------
(* EventQueue.put, which waits on a full bus and gives up after half a second. *)
Put(d, type) ==
  /\ published < MaxEvents
  /\ published' = published + 1
  /\ IF Len(bus) < BusMax
     THEN LET ev == [n |-> published + 1, dev |-> d, type |-> type] IN
          /\ bus' = Append(bus, ev)
          /\ last' = [last EXCEPT ![d] = IF IsStatus(ev) THEN ev ELSE @]
     ELSE UNCHANGED <<bus, last>>

(* An hw-io thread publishes: _do_connect, the command handlers. *)
Publish(w) ==
  /\ pc[w] = "idle"
  /\ \E d \in Devices, type \in {"CONNECTED", "CONFIG_CHANGED"} : Put(d, type)
  /\ UNCHANGED <<uiQueue, canvas, pc, guiVars, dropCount, plain, rebuilds, overtaken, lost>>

(* _dispatch of any other callback: the length is tested, then the callback  *)
(* appended; another thread may append in between.                           *)
DispatchPlain(w) ==
  /\ pc[w] = "idle"
  /\ plain < MaxPlain
  /\ plain' = plain + 1
  /\ pc' = [pc EXCEPT ![w] = IF UiFull THEN "idle" ELSE "appending"]
  /\ UNCHANGED <<queues, canvas, guiVars, dropCount, published, rebuilds, history>>

AppendPlain(w) ==
  /\ pc[w] = "appending"
  /\ Push(Plain)
  /\ pc' = [pc EXCEPT ![w] = "idle"]
  /\ UNCHANGED <<bus, canvas, guiVars, dropCount, bounds, last, overtaken>>

-----------------------------------------------------------------------------
(* _toggle_connect on a live session: the GUI thread publishes the           *)
(* disconnection itself.  On a full bus it waits for a consumer that is      *)
(* itself, times out and loses the event.                                    *)
ClickDisconnect(d) ==
  /\ gui = "idle"
  /\ Put(d, "DISCONNECTED")
  /\ UNCHANGED <<uiQueue, canvas, pc, guiVars, dropCount, plain, rebuilds, overtaken, lost>>

(* Slip: with no callback waiting, the poll leaves the events alone too. *)
PollStart_WhenQueued ==
  /\ gui = "idle" /\ uiQueue # <<>>
  /\ gui' = "callbacks"
  /\ left' = PollBatch
  /\ UNCHANGED <<queues, canvas, pc, guiHand, dropCount, bounds, history>>

(* _poll_queue, on the 50 ms timer: a batch of callbacks ... *)
PollStart ==
  /\ gui = "idle"
  /\ gui' = "callbacks"
  /\ left' = PollBatch
  /\ UNCHANGED <<queues, canvas, pc, guiHand, dropCount, bounds, history>>

RunCallback ==
  /\ gui = "callbacks"
  /\ left > 0
  /\ uiQueue # <<>>
  /\ uiQueue' = Tail(uiQueue)
  /\ left' = left - 1
  /\ IF Head(uiQueue) = Plain THEN UNCHANGED canvas ELSE Show(Head(uiQueue))
  /\ UNCHANGED <<bus, pc, gui, guiHand, dropCount, bounds, history>>

CallbacksDone ==
  /\ gui = "callbacks"
  /\ left = 0 \/ uiQueue = <<>>
  /\ gui' = "drain"
  /\ left' = EventBatch
  /\ UNCHANGED <<queues, canvas, pc, guiHand, dropCount, bounds, history>>

(* ... then a batch of events: a disconnection is shown at once ... *)
DrainCritical ==
  /\ gui = "drain"
  /\ left > 0
  /\ bus # <<>>
  /\ LET ev == Head(bus) IN
     /\ IsCritical(ev)
     /\ Show(ev)
     /\ overtaken' = overtaken \cup
          {fn.dev : fn \in {f \in Queued : IsStatus(f) /\ f.dev = ev.dev}}
  /\ bus' = Tail(bus)
  /\ left' = left - 1
  /\ UNCHANGED <<uiQueue, pc, gui, guiHand, dropCount, bounds, last, lost>>

(* ... any other becomes a callback for the next poll, or is counted as      *)
(* dropped when the deque is full.                                           *)
DrainOther ==
  /\ gui = "drain"
  /\ left > 0
  /\ bus # <<>>
  /\ ~IsCritical(Head(bus))
  /\ bus' = Tail(bus)
  /\ left' = left - 1
  /\ IF UiFull
     THEN /\ dropCount' = dropCount + 1
          /\ lost' = lost \cup {<<"dropped", Head(bus)>>}
          /\ UNCHANGED <<gui, guiHand>>
     ELSE /\ gui' = "appending"
          /\ guiHand' = Head(bus)
          /\ UNCHANGED <<dropCount, lost>>
  /\ UNCHANGED <<uiQueue, canvas, pc, bounds, last, overtaken>>

GuiAppend ==
  /\ gui = "appending"
  /\ Push(guiHand)
  /\ gui' = "drain"
  /\ guiHand' = Nothing
  /\ UNCHANGED <<bus, canvas, pc, left, dropCount, bounds, last, overtaken>>

PollEnd ==
  /\ gui = "drain"
  /\ left = 0 \/ bus = <<>>
  /\ gui' = "idle"
  /\ left' = 0
  /\ UNCHANGED <<queues, canvas, pc, guiHand, dropCount, bounds, history>>

(* _rebuild_ui: pending callbacks are cleared, whatever they were for. *)
RebuildUi ==
  /\ gui = "idle"
  /\ rebuilds < MaxRebuilds
  /\ rebuilds' = rebuilds + 1
  /\ uiQueue' = <<>>
  /\ lost' = lost \cup {<<"cleared", fn>> : fn \in Queued \ {Plain}}
  /\ UNCHANGED <<bus, canvas, pc, guiVars, dropCount, published, plain, last, overtaken>>

Poll ==
  \/ PollStart \/ RunCallback \/ CallbacksDone
  \/ DrainCritical \/ DrainOther \/ GuiAppend \/ PollEnd

Next ==
  \/ \E w \in Workers : Publish(w) \/ DispatchPlain(w) \/ AppendPlain(w)
  \/ \E d \in Devices : ClickDisconnect(d)
  \/ Poll
  \/ RebuildUi

Spec == Init /\ [][Next]_vars

(* The poll timer keeps firing and the GUI thread returns from every handler; *)
(* an append that was decided is made.                                        *)
FairSpec == Spec /\ WF_vars(Poll) /\ \A w \in Workers : WF_vars(AppendPlain(w))

-----------------------------------------------------------------------------
TypeOK ==
  /\ bus \in Seq(Event) /\ Len(bus) <= BusMax
  /\ uiQueue \in Seq(Event \cup {Plain}) /\ Len(uiQueue) <= UiMax
  /\ canvas \in [Devices -> {"online", "offline"}]
  /\ pc \in [Workers -> {"idle", "appending"}]
  /\ gui \in {"idle", "callbacks", "drain", "appending"}
  /\ guiHand \in Event \cup {Nothing}
  /\ left \in 0 .. PollBatch + EventBatch
  /\ dropCount \in Nat
  /\ last \in [Devices -> Event \cup {Nothing}]
  /\ overtaken \in SUBSET Devices
  /\ lost \in SUBSET ({"dropped", "evicted", "cleared"} \X Event)

(* Status events of a device on their way to the canvas. *)
Waiting(d) ==
  {ev \in {bus[i] : i \in DOMAIN bus} \cup Queued \cup {guiHand} :
     IsStatus(ev) /\ ev.dev = d}

(* When nothing is on its way for a device, and until the next inventory      *)
(* refresh, the canvas shows what its latest status event says, unless one of *)
(* them was overtaken by a disconnection, dropped, evicted or cleared: there  *)
(* is no other way for the canvas to be wrong.                                *)
CanvasExplained ==
  \A d \in Devices :
    \/ Waiting(d) # {}
    \/ canvas[d] = IF last[d] = Nothing THEN "offline" ELSE StatusOf(last[d], canvas[d])
    \/ d \in overtaken
    \/ \E l \in lost : l[2] = last[d]

(* "critico: processa direto, nunca dropado": whatever happens to the deque,  *)
(* a disconnection taken from the bus is never among the lost callbacks, and  *)
(* the drop counter counts the events dropped.                                *)
CriticalNeverLost ==
  /\ \A l \in lost : l[2].type # "DISCONNECTED"
  /\ dropCount = Cardinality({l \in lost : l[1] = "dropped"})

(* No status event stays on its way for ever, however many callbacks and      *)
(* events of the other kinds the batches carry.                               *)
Settles == \A d \in Devices : Waiting(d) # {} ~> Waiting(d) = {}

=============================================================================
