----------------------------- MODULE MCCommand -----------------------------
(***************************************************************************)
(* The connection that commands go over and the log they are audited in,   *)
(* for TLC.  The two share no state: a behaviour is one of the part in     *)
(* focus, and the other stays in its initial state.                        *)
(***************************************************************************)
EXTENDS Connection, AuditLog

VARIABLE focus

MCInit == focus \in {"connection", "log"} /\ Init /\ LogInit

MCNext ==
  \/ focus = "connection" /\ Next /\ UNCHANGED <<focus, logVars>>
  \/ focus = "log" /\ LogNext /\ UNCHANGED <<focus, vars>>

MCFairness ==
  /\ WF_vars(focus = "connection" /\ GuiStep)
  /\ \A w \in Workers : WF_vars(focus = "connection" /\ (ConnectStep(w) \/ CommandStep(w)))
  /\ \A w \in Writers : WF_logVars(focus = "log" /\ Step(w))

MCSpec == MCInit /\ [][MCNext]_<<focus, vars, logVars>> /\ MCFairness
=============================================================================
