----------------------------- MODULE MCBackend -----------------------------
(***************************************************************************)
(* The parts of the application behind the user interface whose models     *)
(* share no state, for TLC: the event bus, the controller, the listeners   *)
(* and the secrets.  A behaviour is one of the part in focus, and the      *)
(* others stay in one initial state.                                       *)
(***************************************************************************)
EXTENDS Listeners, EventBus, ControllerCore, Secrets, TLC

VARIABLE focus

(* The threads are interchangeable, and so are the callbacks of the bus. *)
Symmetry == Permutations(Producers \cup Publishers)

Init ==
  /\ focus \in {"bus", "core", "listeners", "secrets"}
  /\ BusInit /\ CoreInit /\ ListenersInit /\ SecretsInit
  /\ focus # "bus" => subscribers = {}
  /\ focus # "secrets" => kind = "sops" /\ disk["sops"] = NoKey

Next ==
  \/ focus = "bus" /\ BusNext /\ UNCHANGED <<focus, coreVars, listenerVars, secretsVars>>
  \/ focus = "core" /\ CoreNext /\ UNCHANGED <<focus, busVars, listenerVars, secretsVars>>
  \/ focus = "listeners" /\ ListenersNext /\ UNCHANGED <<focus, busVars, coreVars, secretsVars>>
  \/ focus = "secrets" /\ SecretsNext /\ UNCHANGED <<focus, busVars, coreVars, listenerVars>>

Spec == Init /\ [][Next]_<<focus, busVars, coreVars, listenerVars, secretsVars>>

-----------------------------------------------------------------------------
(* Listeners: traps of both versions, whole and cut, and lines of syslog with *)
(* and without a priority.                                                    *)
SourcesDef == <<"snmp-trap", "syslog">>

Huawei == <<1, 3, 6, 1, 4, 1, 2011, 5, 25>>
SysUpTime == <<1, 3, 6, 1, 2, 1, 1, 3, 0>>
LinkDown == <<1, 3, 6, 1, 6, 3, 1, 1, 5, 3>>

Trap(wire, meant) == [source |-> "snmp-trap", wire |-> wire, alert |-> meant]
Line(wire, severity) ==
  [source |-> "syslog", wire |-> wire,
   alert |-> IF severity = "none" THEN NoAlert
             ELSE [kind |-> "syslog", severity |-> severity, oid |-> <<>>]]

WholeTraps ==
  { Trap(EncodeV1(Huawei), TrapAlert(Huawei)),
    Trap(EncodeV2(SysUpTime, LinkDown), TrapAlert(SysUpTime)),
    Trap(EncodeBare, TrapAlert(<<>>)),
    Trap(EncodeGet, TrapAlert(<<>>)) }

CutTraps ==
  UNION {{Trap(SubSeq(t.wire, 1, n), NoAlert) :
          n \in {0, 1, 2, 20, Len(t.wire) - 1} \cap 0 .. Len(t.wire) - 1} : t \in WholeTraps}

SyslogLines ==
  { Line(<<"open", "11", "close", "text">>, "error"),
    Line(<<"blank", "open", "189", "close", "blank", "text">>, "info"),
    Line(<<"open", "blank", "184", "close", "text", "close">>, "critical"),
    Line(<<"open", "close", "text">>, "info"),
    Line(<<"text", "open", "11", "close">>, "info"),
    Line(<<"blank">>, "none") }

DatagramsDef == [l \in {"snmp-trap", "syslog"} |-> IF l = "syslog" THEN SyslogLines ELSE WholeTraps \cup CutTraps]

DigitsDef ==
  [d \in {"11", "184", "189"} |-> CASE d = "11" -> 11 [] d = "184" -> 184 [] d = "189" -> 189]

(* Secrets: two devices in the legacy inventory, a password sealed with a key *)
(* that is gone, and one that is named by a variable.                         *)
JsonDef ==
  << [device |-> 1, text |-> 1, key |-> 1],
     [device |-> 2, text |-> NoPassword, key |-> NoKey] >>
=============================================================================
