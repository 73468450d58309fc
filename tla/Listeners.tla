----------------------------- MODULE Listeners -----------------------------
(***************************************************************************)
(* The push sources of sdn_controller/listeners.py: a UDP socket and a     *)
(* daemon thread each, started in app.__init__ and stopped in _on_close by *)
(* the GUI thread.  stop() raises a flag, closes the socket and waits two  *)
(* seconds for the thread; a thread that is still handling a datagram then *)
(* is left behind, and start() lowers the flag it should see.              *)
(*                                                                         *)
(* Threads and sockets are numbered by the start that made them.           *)
(***************************************************************************)
EXTENDS Alerts, FiniteSets

CONSTANTS
  Sources,     \* the listeners enabled by the environment, in their order
  Datagrams,   \* what each listener may receive: [source, wire, alert], bytes or
               \* pieces, and what the sender means by them
  Digits,      \* value of each run of digits
  MaxThreads   \* bound: starts of each listener

Incarnations == 1 .. MaxThreads
NoNumber == 0
Silence == [from |-> [source |-> "none", wire |-> <<>>, alert |-> NoAlert], as |-> NoAlert]
Listener == {Sources[i] : i \in DOMAIN Sources}

ASSUME ListenersAssumption ==
  /\ Listener \subseteq {"snmp-trap", "syslog"}
  /\ \A i, j \in DOMAIN Sources : Sources[i] = Sources[j] => i = j
  /\ \A l \in Listener : \A g \in Datagrams[l] : g.source = l
  /\ DOMAIN Digits \cap {"open", "close", "blank"} = {}
  /\ MaxThreads \in Nat

VARIABLES
  sock,     \* _sock of each listener, or None
  open,     \* sockets not closed
  owner,    \* _thread of each listener, or None
  halt,     \* _stop of each listener
  begun,    \* starts of each listener so far
  started,  \* sources that start_alert_listeners returned
  thread,   \* [at, sock] of each thread
  gui,      \* what the GUI thread is doing
  closing,  \* _on_close has begun
  alert     \* the datagram the last step published, and the alert it became

(* History, read by the properties only. *)
VARIABLES
  left,     \* joins that timed out, of each listener
  quiet     \* listeners whose last stop() saw the thread end

listenerVars ==
  <<sock, open, owner, halt, begun, started, thread, gui, closing, alert, left, quiet>>

-----------------------------------------------------------------------------
Asleep == [at |-> "none", sock |-> NoNumber]
GuiIdle == [at |-> "idle", source |-> "none", thread |-> NoNumber]

ListenersInit ==
  /\ sock = [l \in Listener |-> NoNumber]
  /\ open = [l \in Listener |-> {}]
  /\ owner = [l \in Listener |-> NoNumber]
  /\ halt = [l \in Listener |-> FALSE]
  /\ begun = [l \in Listener |-> 0]
  /\ started = {}
  /\ thread = [l \in Listener |-> [n \in Incarnations |-> Asleep]]
  /\ gui = GuiIdle
  /\ closing = FALSE
  /\ alert = Silence
  /\ left = [l \in Listener |-> 0]
  /\ quiet = {}

Live(l) == {n \in Incarnations : thread[l][n].at \notin {"none", "ended"}}

(* is_running *)
IsRunning(l) == owner[l] \in Live(l)

(* start_alert_listeners tries the sources in order, each once; afterwards    *)
(* a source it returned may be stopped and started again.                     *)
MayStart(l) ==
  /\ gui = GuiIdle
  /\ ~closing
  /\ begun[l] < MaxThreads
  /\ \/ l \in started
     \/ begun[l] = 0 /\ \A m \in Listener : begun[m] # 0 \/ m = l \/
          \E i, j \in DOMAIN Sources : Sources[i] = l /\ Sources[j] = m /\ i < j

(* bind is refused: a warning, and the application goes on without it. *)
BindFails(l) ==
  /\ MayStart(l)
  /\ ~IsRunning(l)
  /\ begun' = [begun EXCEPT ![l] = @ + 1]
  /\ UNCHANGED <<sock, open, owner, halt, started, thread, gui, closing, left, quiet>>

(* start: the socket of a thread that died on its own is let go when its only *)
(* reference is overwritten.                                                  *)
StartListener(l) ==
  /\ MayStart(l)
  /\ ~IsRunning(l)
  /\ LET n == begun[l] + 1
     IN /\ begun' = [begun EXCEPT ![l] = n]
        /\ open' = [open EXCEPT ![l] = (@ \ {sock[l]}) \cup {n}]
        /\ sock' = [sock EXCEPT ![l] = n]
        /\ halt' = [halt EXCEPT ![l] = FALSE]
        /\ owner' = [owner EXCEPT ![l] = n]
        /\ thread' = [thread EXCEPT ![l][n].at = "checking"]
  /\ started' = started \cup {l}
  /\ quiet' = quiet \ {l}
  /\ UNCHANGED <<gui, closing, left>>

(* _on_close: from here on the started sources are stopped, one by one. *)
Close ==
  /\ ~closing
  /\ gui = GuiIdle
  /\ closing' = TRUE
  /\ UNCHANGED <<sock, open, owner, halt, begun, started, thread, gui, left, quiet>>

(* stop: the flag, *)
StopSignals(l) ==
  /\ gui = GuiIdle
  /\ l \in started
  /\ halt' = [halt EXCEPT ![l] = TRUE]
  /\ gui' = [at |-> "closing", source |-> l, thread |-> NoNumber]
  /\ UNCHANGED <<sock, open, owner, begun, started, thread, closing, left, quiet>>

(* Slip: the reference to the socket is dropped, and the socket left open. *)
StopCloses_Open ==
  LET l == gui.source
  IN /\ gui.at = "closing"
     /\ sock' = [sock EXCEPT ![l] = NoNumber]
     /\ owner' = [owner EXCEPT ![l] = NoNumber]
     /\ gui' = [at |-> "joining", source |-> l, thread |-> owner[l]]
     /\ UNCHANGED <<open, halt, begun, started, thread, closing, left, quiet>>

(* the socket and the reference to the thread,                                *)
StopCloses ==
  LET l == gui.source
  IN /\ gui.at = "closing"
     /\ open' = [open EXCEPT ![l] = @ \ {sock[l]}]
     /\ sock' = [sock EXCEPT ![l] = NoNumber]
     /\ owner' = [owner EXCEPT ![l] = NoNumber]
     /\ gui' = [at |-> "joining", source |-> l, thread |-> owner[l]]
     /\ UNCHANGED <<halt, begun, started, thread, closing, left, quiet>>

(* and the join.  A receive wakes up every half second, so that the two       *)
(* seconds run out only on a thread that is handling a datagram.              *)
JoinEnds ==
  /\ gui.at = "joining"
  /\ gui.thread \notin Live(gui.source)
  /\ quiet' = IF Live(gui.source) = {} \/ left[gui.source] = 0
              THEN quiet \cup {gui.source} ELSE quiet
  /\ gui' = GuiIdle
  /\ started' = IF closing THEN started \ {gui.source} ELSE started
  /\ UNCHANGED <<sock, open, owner, halt, begun, thread, closing, left>>

JoinTimesOut ==
  /\ gui.at = "joining"
  /\ gui.thread \in Live(gui.source)
  /\ thread[gui.source][gui.thread].at = "handling"
  /\ left' = [left EXCEPT ![gui.source] = @ + 1]
  /\ gui' = GuiIdle
  /\ started' = IF closing THEN started \ {gui.source} ELSE started
  /\ UNCHANGED <<sock, open, owner, halt, begun, thread, closing, quiet>>

-----------------------------------------------------------------------------
(* _loop: the flag and the socket,                                            *)
Check(l, n) ==
  /\ thread[l][n].at = "checking"
  /\ thread' = [thread EXCEPT ![l][n] =
                  IF halt[l] \/ sock[l] = NoNumber THEN [Asleep EXCEPT !.at = "ended"]
                  ELSE [@ EXCEPT !.at = "reading", !.sock = sock[l]]]
  /\ UNCHANGED <<sock, open, owner, halt, begun, started, gui, closing, left, quiet>>

(* a receive, which times out, fails or brings a datagram (any: it is chosen  *)
(* where it is handled),                                                      *)
ReceiveTimesOut(l, n) ==
  /\ thread[l][n].at = "reading"
  /\ thread[l][n].sock \in open[l]
  /\ thread' = [thread EXCEPT ![l][n] = [Asleep EXCEPT !.at = "checking"]]
  /\ UNCHANGED <<sock, open, owner, halt, begun, started, gui, closing, left, quiet>>

ReceiveFails(l, n) ==
  /\ thread[l][n].at = "reading"
  /\ thread' = [thread EXCEPT ![l][n] = [Asleep EXCEPT !.at = "ended"]]
  /\ UNCHANGED <<sock, open, owner, halt, begun, started, gui, closing, left, quiet>>

Receive(l, n) ==
  /\ thread[l][n].at = "reading"
  /\ thread[l][n].sock \in open[l]
  /\ thread' = [thread EXCEPT ![l][n] = [at |-> "handling", sock |-> NoNumber]]
  /\ UNCHANGED <<sock, open, owner, halt, begun, started, gui, closing, left, quiet>>

(* and its handler.  What the handler raises is logged, and the loop goes on. *)
Decoded ==
  [l \in Listener |-> [g \in Datagrams[l] |->
    IF l = "syslog" THEN DecodeLine(g.wire, Digits) ELSE DecodeTrap(g.wire)]]

Handle(l, n) ==
  /\ thread[l][n].at = "handling"
  /\ \E g \in Datagrams[l] :
       alert' = IF Decoded[l][g] = NoAlert THEN Silence ELSE [from |-> g, as |-> Decoded[l][g]]
  /\ thread' = [thread EXCEPT ![l][n] = [Asleep EXCEPT !.at = "checking"]]
  /\ UNCHANGED <<sock, open, owner, halt, begun, started, gui, closing, left, quiet>>

Wait(l, n) == Check(l, n) \/ ReceiveTimesOut(l, n) \/ ReceiveFails(l, n) \/ Receive(l, n)
Loop(l, n) == Handle(l, n) \/ (Wait(l, n) /\ alert' = Silence)

StopAny == \E l \in Listener : StopSignals(l)

ListenersNext ==
  \/ /\ \/ \E l \in Listener : BindFails(l) \/ StartListener(l)
        \/ Close
        \/ StopAny \/ StopCloses \/ JoinEnds \/ JoinTimesOut
     /\ alert' = Silence
  \/ \E l \in Listener, n \in Incarnations : Loop(l, n)

ListenersSpec == ListenersInit /\ [][ListenersNext]_listenerVars

-----------------------------------------------------------------------------
ListenersTypeOK ==
  /\ sock \in [Listener -> {NoNumber} \cup Incarnations]
  /\ open \in [Listener -> SUBSET Incarnations]
  /\ owner \in [Listener -> {NoNumber} \cup Incarnations]
  /\ halt \in [Listener -> BOOLEAN]
  /\ begun \in [Listener -> 0 .. MaxThreads]
  /\ started \subseteq Listener /\ quiet \subseteq Listener
  /\ thread \in [Listener -> [Incarnations ->
       [at : {"none", "checking", "reading", "handling", "ended"},
        sock : {NoNumber} \cup Incarnations]]]
  /\ gui \in [at : {"idle", "closing", "joining"}, source : Listener \cup {"none"},
              thread : {NoNumber} \cup Incarnations]
  /\ closing \in BOOLEAN
  /\ left \in [Listener -> Nat]

(* A listener has one thread, the one it refers to, and one socket, except    *)
(* for the threads a join gave up on; and after a stop() that saw the thread  *)
(* end it has none, so that nothing is published.                             *)
OneReader ==
  \A l \in Listener :
    /\ Cardinality(Live(l)) <= left[l] + 1
    /\ left[l] = 0 =>
         \A n \in Live(l) : n = owner[l] \/ gui = [at |-> "joining", source |-> l, thread |-> n]
    /\ open[l] \subseteq {sock[l]}
    /\ l \in quiet => Live(l) = {} /\ open[l] = {}

(* What is published is what the sender meant: the enterprise of a v1 trap,   *)
(* the name of the first varbind of a v2c one, the severity of a syslog line; *)
(* and a datagram that was cut short is not published.                        *)
AlertsTrue == alert.as = alert.from.alert
=============================================================================
