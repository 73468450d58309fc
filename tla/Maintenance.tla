---------------------------- MODULE Maintenance ----------------------------
(***************************************************************************)
(* The maintenance tab: tabs/manutencao/handlers.py and page.py.  Each     *)
(* click on a target runs a process on an hw-io thread, which streams its  *)
(* output to a panel through callbacks to the GUI thread, stops it when    *)
(* its cancel event is set, and at its end has the GUI thread forget the   *)
(* event: whichever event is current by then.  The agents' results go to   *)
(* the same panel.                                                         *)
(*                                                                         *)
(* Jobs are numbered in the order of the clicks; a job stands for its      *)
(* thread, its process and its cancel event.  The queue of callbacks has   *)
(* its bound in UiPump.                                                    *)
(***************************************************************************)
EXTENDS Naturals, Sequences

CONSTANTS
  MaxJobs,      \* bound: processes started
  MaxLines,     \* bound: lines a process prints
  FlushEvery,   \* _FLUSH_EVERY (5)
  MaxTurns      \* bound: clears, other texts for the panel and rebuilds of the page

Jobs == 1 .. MaxJobs
NoJob == 0

ASSUME MaintenanceAssumption ==
  /\ MaxJobs \in Nat /\ MaxLines \in Nat /\ MaxTurns \in Nat
  /\ FlushEvery \in Nat \ {0}

VARIABLES
  job,          \* [at, child, lines] of each job: its thread, whether its process
                \* runs, and the lines read
  cancelled,    \* jobs whose cancel event is set
  cancelEvent,  \* state.cancel_event: the job it belongs to, or NoJob
  callbacks,    \* what waits for the GUI thread
  page,         \* builds of the page so far
  panel,        \* state.output: [page, job, lines, done], or NoPanel
  turns,        \* clears, other texts and rebuilds so far
  hurried       \* history: did a job start before the end of another was seen?

maintenanceVars ==
  <<job, cancelled, cancelEvent, callbacks, page, panel, turns, hurried>>

-----------------------------------------------------------------------------
(* The panel shows the text of a job or another text, and then remarks, of    *)
(* which the jobs said to be done are kept.                                   *)
NoPanel == [page |-> 0, job |-> NoJob, lines |-> 0, done |-> {}]
Blank(n) == [NoPanel EXCEPT !.page = n]
Built == panel.page # 0

(* Callbacks: one that reads state.output when it runs, and one that was      *)
(* given the widget and finds it deleted after a rebuild.                     *)
SetOutput(j, n) == [do |-> "set", job |-> j, lines |-> n, page |-> 0]
Remark == [do |-> "remark", job |-> NoJob, lines |-> 0, page |-> 0]
Done(j) == [do |-> "done", job |-> j, lines |-> 0, page |-> 0]
ForgetEvent == [do |-> "forget", job |-> NoJob, lines |-> 0, page |-> 0]
Display == [do |-> "display", job |-> NoJob, lines |-> 0, page |-> 0]
Write == [do |-> "write", job |-> NoJob, lines |-> 0, page |-> panel.page]

(* _ui.write and _ui.loading do nothing without a panel. *)
Writes(n) == IF Built THEN [i \in 1 .. n |-> Write] ELSE <<>>

Unfinished(j) == job[j].at \notin {"none", "ended"}
Forgetting == \E i \in DOMAIN callbacks : callbacks[i] = ForgetEvent

MaintenanceInit ==
  /\ job = [j \in Jobs |-> [at |-> "none", child |-> FALSE, lines |-> 0]]
  /\ cancelled = {}
  /\ cancelEvent = NoJob
  /\ callbacks = <<>>
  /\ page = 1
  /\ panel = Blank(1)
  /\ turns = 0
  /\ hurried = FALSE

-----------------------------------------------------------------------------
(* Slip: the reference is dropped and the event left unset. *)
CancelAndClear_Unset ==
  /\ cancelled' = cancelled
  /\ cancelEvent' = NoJob

(* cancel_and_clear: the current event is set and let go. *)
CancelAndClear ==
  /\ cancelled' = cancelled \cup ({cancelEvent} \ {NoJob})
  /\ cancelEvent' = NoJob

(* What cancel_and_clear puts on the panel. *)
ClearTexts == IF cancelEvent # NoJob THEN <<Remark>> ELSE Writes(1)

ClickClear ==
  /\ Built
  /\ turns < MaxTurns
  /\ turns' = turns + 1
  /\ CancelAndClear
  /\ callbacks' = callbacks \o ClearTexts
  /\ UNCHANGED <<job, page, panel, hurried>>

(* run_dev_cmd and run_setup: whatever runs is cancelled, a message written   *)
(* and the next process given to an hw-io thread.                             *)
ClickRun(j) ==
  /\ Built
  /\ job[j].at = "none" /\ \A i \in 1 .. j - 1 : job[i].at # "none"
  /\ cancelled' = cancelled \cup ({cancelEvent} \ {NoJob})
  /\ cancelEvent' = j
  /\ callbacks' = callbacks \o ClearTexts \o Writes(1)
  /\ job' = [job EXCEPT ![j].at = "queued"]
  /\ hurried' = (hurried \/ Forgetting \/ \E i \in Jobs : Unfinished(i))
  /\ UNCHANGED <<page, panel, turns>>

(* The mode and watcher buttons write at once; the agents run on a CPU thread *)
(* and have their results displayed.                                          *)
OtherText ==
  /\ turns < MaxTurns
  /\ turns' = turns + 1
  /\ \E texts \in {Writes(1), <<Display>>} : callbacks' = callbacks \o texts
  /\ UNCHANGED <<job, cancelled, cancelEvent, page, panel, hurried>>

(* dispose and build: a new panel, none for a user without access.  The whole *)
(* user interface is rebuilt in the same way, with the callbacks cleared.     *)
RebuildTab ==
  /\ turns < MaxTurns
  /\ turns' = turns + 1
  /\ page' = page + 1
  /\ \/ panel' = NoPanel
     \/ panel' = Blank(page + 1)
  /\ callbacks' \in {callbacks, <<>>}
  /\ UNCHANGED <<job, cancelled, cancelEvent, hurried>>

(* _poll_queue runs a callback. *)
Run(callback) ==
  CASE callback.do = "set" ->
         /\ panel' = IF Built THEN [Blank(panel.page) EXCEPT !.job = callback.job,
                                                             !.lines = callback.lines]
                     ELSE panel
         /\ callbacks' = Tail(callbacks)
         /\ UNCHANGED cancelEvent
    [] callback.do \in {"remark", "done"} ->
         /\ panel' = IF Built THEN [panel EXCEPT !.done = @ \cup ({callback.job} \ {NoJob})]
                     ELSE panel
         /\ callbacks' = Tail(callbacks)
         /\ UNCHANGED cancelEvent
    [] callback.do = "write" ->
         /\ panel' = IF callback.page = panel.page THEN Blank(panel.page) ELSE panel
         /\ callbacks' = Tail(callbacks)
         /\ UNCHANGED cancelEvent
    [] callback.do = "display" ->
         /\ callbacks' = Tail(callbacks) \o Writes(1)
         /\ UNCHANGED <<panel, cancelEvent>>
    [] callback.do = "forget" ->
         /\ cancelEvent' = NoJob
         /\ callbacks' = Tail(callbacks)
         /\ UNCHANGED panel

RunCallback ==
  /\ callbacks # <<>>
  /\ Run(Head(callbacks))
  /\ UNCHANGED <<job, cancelled, page, turns, hurried>>

-----------------------------------------------------------------------------
(* spawn_stream's thread. *)
Step(j, from, to) == job[j].at = from /\ job' = [job EXCEPT ![j].at = to]
Quietly == UNCHANGED <<cancelled, cancelEvent, page, panel, turns, hurried>>

Spawn(j) ==
  /\ job[j].at = "queued"
  /\ \/ /\ job' = [job EXCEPT ![j].at = "reading", ![j].child = TRUE]
        /\ UNCHANGED callbacks
     \/ /\ job' = [job EXCEPT ![j].at = "finishing"]
        /\ callbacks' = Append(callbacks, Remark)
  /\ Quietly

(* A line: the event is tested only now. *)
ReadLine(j) ==
  /\ job[j].at = "reading"
  /\ job[j].child
  /\ job[j].lines < MaxLines
  /\ IF j \in cancelled
     THEN /\ job' = [job EXCEPT ![j].at = "killing"]
          /\ UNCHANGED callbacks
     ELSE /\ job' = [job EXCEPT ![j].lines = @ + 1]
          /\ callbacks' = IF (job[j].lines + 1) % FlushEvery = 0
                          THEN Append(callbacks, SetOutput(j, job[j].lines + 1)) ELSE callbacks
  /\ Quietly

(* The process closes its output, dying of it or not. *)
EndOfOutput(j) ==
  /\ job[j].at = "reading"
  /\ \E child \in BOOLEAN :
       job' = [job EXCEPT ![j].child = child,
                          ![j].at = IF j \in cancelled THEN "killing" ELSE "waiting"]
  /\ UNCHANGED callbacks
  /\ Quietly

Exit(j) ==
  /\ job[j].at = "waiting" /\ job[j].child
  /\ job' = [job EXCEPT ![j].child = FALSE]
  /\ UNCHANGED callbacks
  /\ Quietly

Kill(j) ==
  /\ job[j].at = "killing"
  /\ job' = [job EXCEPT ![j].at = "finishing", ![j].child = FALSE]
  /\ callbacks' = Append(callbacks, Remark)
  /\ Quietly

(* Slip: the lines since the last batch are forgotten. *)
LastFlush_None(j) ==
  /\ job[j].at = "waiting" /\ ~job[j].child
  /\ job' = [job EXCEPT ![j].at = "labelling"]
  /\ UNCHANGED callbacks
  /\ Quietly

(* The process ended in time: all of its output, *)
LastFlush(j) ==
  /\ job[j].at = "waiting" /\ ~job[j].child
  /\ job' = [job EXCEPT ![j].at = "labelling"]
  /\ callbacks' = IF job[j].lines > 0 THEN Append(callbacks, SetOutput(j, job[j].lines))
                  ELSE callbacks
  /\ Quietly

(* and the label. *)
Label(j) ==
  /\ Step(j, "labelling", "finishing")
  /\ callbacks' = Append(callbacks, Done(j))
  /\ Quietly

(* The time starts to run only after the output has ended. *)
TimeOut(j) ==
  /\ job[j].child
  /\ Step(j, "waiting", "finishing")
  /\ callbacks' = Append(callbacks, Remark)
  /\ Quietly

(* finally *)
Finish(j) ==
  /\ job[j].at = "finishing"
  /\ job' = [job EXCEPT ![j].at = "ended", ![j].child = FALSE]
  /\ callbacks' = Append(callbacks, ForgetEvent)
  /\ Quietly

ThreadStep(j) == Spawn(j) \/ Kill(j) \/ LastFlush(j) \/ Label(j) \/ TimeOut(j) \/ Finish(j)

MaintenanceNext ==
  \/ \E j \in Jobs :
       ClickRun(j) \/ ThreadStep(j) \/ ReadLine(j) \/ EndOfOutput(j) \/ Exit(j)
  \/ ClickClear \/ OtherText \/ RebuildTab \/ RunCallback

MaintenanceSpec == MaintenanceInit /\ [][MaintenanceNext]_maintenanceVars

-----------------------------------------------------------------------------
MaintenanceTypeOK ==
  /\ job \in [Jobs -> [at : {"none", "queued", "reading", "killing", "waiting",
                             "labelling", "finishing", "ended"},
                       child : BOOLEAN, lines : 0 .. MaxLines]]
  /\ cancelled \subseteq Jobs
  /\ cancelEvent \in {NoJob} \cup Jobs
  /\ page \in 1 .. MaxTurns + 1
  /\ panel.page \in 0 .. MaxTurns + 1 /\ panel.job \in {NoJob} \cup Jobs
  /\ hurried \in BOOLEAN

(* Who lets one process end before starting the next can always cancel what   *)
(* runs: the event of a job that was not cancelled is the current one.  (The  *)
(* end of a cancelled job makes the page forget the event of its successor.)  *)
CancelReaches ==
  ~hurried => \A j \in Jobs : Unfinished(j) => j \in cancelled \/ cancelEvent = j

(* A "concluido" under the output of its process comes with all of its lines, *)
(* whatever was shown, and however often the page was rebuilt, meanwhile.     *)
PanelComplete ==
  \A j \in Jobs :
    panel.job = j /\ j \in panel.done => panel.lines = job[j].lines
=============================================================================
