---------------------------- MODULE SessionLine ----------------------------
(***************************************************************************)
(* What the one SSH session of the window promises whoever sends commands  *)
(* over it, without its threads, its lock or its flags: one command at a   *)
(* time, over the line there was when it began, and nobody hangs up on it. *)
(* A new line replaces the old one, which is then nobody's to close.       *)
(***************************************************************************)
CONSTANTS Handles, NoConn

VARIABLES
  handle,    \* each connection: "none" before it is made, "open", "lost", "closed"
  line,      \* the connection of the session, or NoConn
  sending,   \* the one a command is being sent over, or NoConn
  replaced   \* connections another took the place of

lineVars == <<handle, line, sending, replaced>>

Init ==
  /\ handle = [h \in Handles |-> "none"]
  /\ line = NoConn /\ sending = NoConn
  /\ replaced = {}

Install(h) ==
  /\ handle[h] = "none"
  /\ handle' = [handle EXCEPT ![h] = "open"]
  /\ line' = h
  /\ replaced' = replaced \cup ({line} \ {NoConn})
  /\ UNCHANGED sending

Begin ==
  /\ sending = NoConn /\ line # NoConn
  /\ sending' = line
  /\ UNCHANGED <<handle, line, replaced>>

End ==
  /\ sending # NoConn
  /\ sending' = NoConn
  /\ UNCHANGED <<handle, line, replaced>>

HangUp ==
  /\ sending = NoConn /\ line # NoConn
  /\ handle' = [handle EXCEPT ![line] = "closed"]
  /\ line' = NoConn
  /\ UNCHANGED <<sending, replaced>>

(* The device or the network drops a connection. *)
Drop(h) ==
  /\ handle[h] = "open"
  /\ handle' = [handle EXCEPT ![h] = "lost"]
  /\ UNCHANGED <<line, sending, replaced>>

Next == (\E h \in Handles : Install(h) \/ Drop(h)) \/ Begin \/ End \/ HangUp

Spec == Init /\ [][Next]_lineVars
=============================================================================
