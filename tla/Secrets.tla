------------------------------ MODULE Secrets ------------------------------
(***************************************************************************)
(* The devices' passwords at rest, and the key they are sealed with:       *)
(* _config.init chooses a secrets backend, app.__init__ makes sure there   *)
(* is a key, imports the legacy JSON inventory into an empty table, and    *)
(* from then on every refresh of the inventory opens every password and    *)
(* seals it again.  A backend may be out of reach, a write may fail and    *)
(* the process may stop between any two commits.                           *)
(*                                                                         *)
(* A text is a number: Blank, a password somebody gave, or Garbled, the    *)
(* ciphertext of another key taken for a password.  A key is the number of *)
(* the start that generated it.  Saves that overlap are the subject of the *)
(* module Inventory; here one save runs at a time, row by row.             *)
(***************************************************************************)
EXTENDS Naturals, Sequences

CONSTANTS
  Count,        \* devices 1 .. Count, numbered in the order of their names
  EnvDevices,   \* those whose password is named by password_env
  Kinds,        \* values SECRETS_BACKEND may have
  Json,         \* the JSON inventory: a sequence of [device, text, key]
  MaxStarts,    \* bound: starts of the application
  MaxTexts      \* bound: passwords given by the user or to the variable

DeviceIds == 1 .. Count

NoPassword == 0
NoKey == 0
Garbled == MaxTexts + 1
Texts == NoPassword .. Garbled
SealKeys == 1 .. MaxStarts + 1    \* the first is older than all the starts

ASSUME SecretsAssumption ==
  /\ Count \in 0 .. MaxTexts     \* the passwords in use at first
  /\ EnvDevices \subseteq DeviceIds
  /\ Kinds \subseteq {"env", "crypto", "sops", "aws", "vault"}
  /\ MaxStarts \in Nat /\ MaxTexts \in Nat
  /\ Json \in Seq([device : DeviceIds, text : Texts, key : {NoKey} \cup SealKeys])
  /\ \A i, j \in DOMAIN Json : Json[i].device = Json[j].device => i = j

VARIABLES
  kind,      \* SECRETS_BACKEND of the installation
  disk,      \* VNF_ENCRYPT_KEY as each backend keeps it
  source,    \* the backend this process uses
  mem,       \* the key in the memory of that backend: os.environ, _store, _cache
  starts,    \* starts so far
  phase,     \* where the start of the application is
  next,      \* next entry of Json to import
  table,     \* the devices table: Absent, or the sealed password of the row
  task,      \* the operation at work on the inventory
  list,      \* the list it loaded, with passwords in the clear
  rowsLeft,  \* rows it has still to save
  shown,     \* the list the GUI shows
  var,       \* value of the variable that password_env names
  varMem,    \* the same, as read when the process started
  fresh      \* passwords given so far

(* History, read by the properties only. *)
VARIABLES
  given,     \* the password each device should have
  excused,   \* devices that may have another one: a load could not open it, the
             \* form was filled before the last change, or a save failed
  mishaps    \* what went wrong at a start

bootVars == <<kind, disk, source, mem, starts, phase, next>>
listVars == <<task, list, rowsLeft, shown>>
varVars == <<var, varMem, fresh>>
secretsHistory == <<given, excused, mishaps>>
secretsVars == <<bootVars, table, listVars, varVars, secretsHistory>>

-----------------------------------------------------------------------------
Absent == [key |-> NoKey, text |-> Garbled]      \* there is no such row
NoSecret == [key |-> NoKey, text |-> NoPassword]      \* a row with an empty column
Sealed(text, key) == [key |-> key, text |-> text]
Missing == Garbled + 1                           \* the same in a list

Rows == [key : {NoKey} \cup SealKeys, text : Texts]
Present == {d \in DeviceIds : table[d] # Absent}
Secret == {d \in DeviceIds : table[d].key # NoKey}

(* What a backend answers when asked for the key.  Only vault is asked over   *)
(* the network each time; the others read once and answer from memory.        *)
Unreachable == MaxStarts + 2
Answers == IF source = "vault" THEN {disk["vault"], Unreachable} ELSE {mem}

(* _decrypt_val raises ValueError, which Device.from_dict lets through, only  *)
(* when there is no key.                                                      *)
Raises(answer) == answer = NoKey

(* Device.from_dict: with any other failure the password is left out. *)
Opened(row, answer) == IF row.key # NoKey /\ row.key = answer THEN row.text ELSE NoPassword

(* _encrypt_val, in _device_to_row: an empty password is not sealed, and any  *)
(* other is refused without a key.                                            *)
CanSeal(text, answer) == text = NoPassword \/ answer \in SealKeys
Row(text, key) == IF text = NoPassword THEN NoSecret ELSE Sealed(text, key)

(* _decrypt_if_present: an entry that cannot be opened is taken as it is. *)
Imported(entry, answer) ==
  IF entry.key = NoKey \/ entry.key = answer THEN entry.text ELSE Garbled

Empty == [d \in DeviceIds |-> Missing]

(* The password a device has in the JSON inventory. *)
Legacy(d) ==
  IF \E i \in DOMAIN Json : Json[i].device = d
  THEN (CHOOSE e \in {Json[i] : i \in DOMAIN Json} : e.device = d).text
  ELSE Missing

SecretsInit ==
  /\ kind \in Kinds
  /\ source = "none"
  /\ mem = NoKey
  /\ starts = 0
  /\ phase = "down"
  /\ next = 1
  /\ task = "idle"
  /\ list = Empty
  /\ rowsLeft = {}
  /\ shown = Empty
  /\ var = 1 /\ varMem = NoPassword
  /\ fresh = Count
  /\ excused = {}
  /\ mishaps = {}
  /\ \/ \* installed, and never started
        /\ disk = [k \in Kinds \cup {"env"} |-> NoKey]
        /\ table = [d \in DeviceIds |-> Absent]
        /\ given = [d \in DeviceIds |-> Legacy(d)]
     \/ \* in use: every device has a password
        /\ disk = [k \in Kinds \cup {"env"} |-> IF k = kind THEN 1 ELSE NoKey]
        /\ given = [d \in DeviceIds |-> d]
        /\ table = [d \in DeviceIds |-> Sealed(given[d], 1)]

-----------------------------------------------------------------------------
(* The process ends, by a crash, by being closed or by an exception that      *)
(* app.__init__ does not catch; what it held in memory goes.                  *)
Down ==
  /\ phase' = "down"
  /\ source' = "none"
  /\ mem' = NoKey
  /\ next' = 1
  /\ task' = "idle"
  /\ list' = Empty
  /\ rowsLeft' = {}
  /\ shown' = Empty
  /\ varMem' = NoPassword
  /\ UNCHANGED <<kind, disk, starts, table, var, fresh, given>>

StopApp ==
  /\ phase # "down"
  /\ Down
  /\ mishaps' = mishaps \cup (IF phase = "importing" THEN {"cut"} ELSE {})
  /\ excused' = excused \cup rowsLeft

(* _config.init: the backend of the installation, or EnvBackend in the place  *)
(* of one that cannot be built.                                               *)
GetBackend == source' = kind /\ UNCHANGED mishaps

Fallback ==
  /\ kind \in {"sops", "aws", "vault"}
  /\ source' = "env"
  /\ mishaps' = mishaps \cup {"fallback"}

(* What a backend that is not asked over the network reads when it is built. *)
ReadStore == mem' = IF source' = "vault" THEN NoKey ELSE disk[source']

StartApp ==
  /\ phase = "down"
  /\ starts < MaxStarts
  /\ starts' = starts + 1
  /\ GetBackend \/ Fallback
  /\ ReadStore
  /\ varMem' = IF source' = kind THEN var ELSE NoPassword
  /\ phase' = "ensuring"
  /\ UNCHANGED <<kind, disk, next, table, listVars, var, fresh, given, excused>>

(* Slip: a new key at every start. *)
EnsureKey_Always ==
  /\ phase = "ensuring"
  /\ disk' = [disk EXCEPT ![source] = starts + 1]
  /\ mem' = IF source = "vault" THEN mem ELSE starts + 1
  /\ phase' = "checking"
  /\ UNCHANGED <<kind, source, starts, next, table, listVars, varVars, secretsHistory>>

(* put: all backends but vault keep the new key in memory before they write   *)
(* it down, and keep it there when writing it down fails.                     *)
Put(key) ==
  /\ mem' = IF source = "vault" THEN mem ELSE key
  /\ \/ disk' = [disk EXCEPT ![source] = key] /\ UNCHANGED mishaps
     \/ UNCHANGED disk /\ mishaps' = mishaps \cup {"unsaved"}

(* ensure_encrypt_key; app.__init__ catches its exception and goes on. *)
EnsureKey ==
  /\ phase = "ensuring"
  /\ \E answer \in Answers :
       \/ answer # NoKey      \* there is one, or vault cannot be asked
          /\ UNCHANGED <<disk, mem, mishaps>>
       \/ answer = NoKey /\ Put(starts + 1)
  /\ phase' = "checking"
  /\ UNCHANGED <<kind, source, starts, next, table, listVars, varVars, given, excused>>

(* Slip: the import runs at every start. *)
CheckTable_Always ==
  /\ phase = "checking"
  /\ \/ /\ \E answer \in Answers : Raises(answer) /\ Secret # {}
        /\ Down
        /\ UNCHANGED <<excused, mishaps>>
     \/ /\ \E answer \in Answers : ~Raises(answer) \/ Secret = {}
        /\ phase' = IF Json # <<>> THEN "importing" ELSE "up"
        /\ UNCHANGED <<kind, disk, source, mem, starts, next, table, listVars, varVars, secretsHistory>>

(* The import runs only into an empty table; looking at it opens the rows. *)
CheckTable ==
  /\ phase = "checking"
  /\ \/ /\ \E answer \in Answers : Raises(answer) /\ Secret # {}
        /\ Down
        /\ UNCHANGED <<excused, mishaps>>
     \/ /\ \E answer \in Answers : ~Raises(answer) \/ Secret = {}
        /\ phase' = IF Present = {} /\ Json # <<>> THEN "importing" ELSE "up"
        /\ UNCHANGED <<kind, disk, source, mem, starts, next, table, listVars, varVars, secretsHistory>>

(* migrate_json_inventory, one device and commit at a time. *)
ImportRow ==
  /\ phase = "importing"
  /\ \E opening, sealing \in Answers :
       LET entry == Json[next]
           d == entry.device
           text == Imported(entry, opening)
       IN \/ /\ CanSeal(text, sealing)
             /\ table' = [table EXCEPT ![d] = Row(text, sealing)]
             /\ excused' = IF text = entry.text THEN excused \ {d} ELSE excused \cup {d}
             /\ next' = next + 1
             /\ phase' = IF next = Len(Json) THEN "up" ELSE "importing"
             /\ UNCHANGED <<kind, disk, source, mem, starts, listVars, varVars, given, mishaps>>
          \/ /\ ~CanSeal(text, sealing)
             /\ Down
             /\ mishaps' = mishaps \cup {"cut"}
             /\ UNCHANGED excused

-----------------------------------------------------------------------------
(* What password_env resolves to: an entry of the same backend. *)
Variable == IF source = "vault" THEN {var, NoPassword} ELSE {varMem}

(* DeviceService.load_inventory, on its own or at the start of a change: what *)
(* each row opens to, and what password_env puts in for a blank.              *)
ListedPasswords(answers, value) ==
  [d \in DeviceIds |->
     IF table[d] = Absent THEN Missing
     ELSE IF Opened(table[d], answers[d]) = NoPassword /\ d \in EnvDevices THEN value
     ELSE Opened(table[d], answers[d])]

(* A load, and the change made to the loaded list: the rest is the save.  The *)
(* devices that were given another password are no longer excused.            *)
LoadAndChange(name, change, wish, blamed) ==
  /\ phase = "up"
  /\ task = "idle"
  /\ \E answers \in [DeviceIds -> Answers], value \in Variable :
       /\ \A d \in Secret : ~Raises(answers[d])    \* otherwise nothing happens
       /\ list' = [d \in DeviceIds |->
                    IF d \in DOMAIN change THEN change[d] ELSE ListedPasswords(answers, value)[d]]
       /\ LET unopened == {d \in Secret : answers[d] \notin {NoKey, table[d].key}}
          IN excused' = ((excused \cup unopened) \ DOMAIN change) \cup blamed
  /\ task' = name
  /\ rowsLeft' = Present
  /\ given' = wish
  /\ UNCHANGED <<bootVars, table, shown, var, varMem, mishaps>>

Refresh ==
  /\ LoadAndChange("refresh", <<>>, given, {})
  /\ UNCHANGED fresh

(* The form of a device is filled from the list shown and submitted whole:    *)
(* the password in it is a new one or the one shown.                          *)
SetPassword(d) ==
  /\ shown[d] # Missing /\ table[d] # Absent
  /\ fresh < MaxTexts
  /\ fresh' = fresh + 1
  /\ LoadAndChange("change", [e \in {d} |-> fresh'], [given EXCEPT ![d] = fresh'], {})

EditOther(d) ==
  /\ shown[d] # Missing /\ table[d] # Absent
  /\ LoadAndChange("change", [e \in {d} |-> shown[d]], given, {d})
  /\ UNCHANGED fresh

RemoveDevice(d) ==
  /\ shown[d] # Missing /\ table[d] # Absent
  /\ LoadAndChange("change", [e \in {d} |-> Missing], [given EXCEPT ![d] = Missing], {})
  /\ UNCHANGED fresh

Leave ==
  /\ task' = "idle"
  /\ list' = Empty
  /\ rowsLeft' = {}
  /\ shown' = IF task = "refresh" THEN list ELSE shown

(* save_inventory: the rows of the list in the order of the names, and then   *)
(* the deletions.                                                             *)
Listing == {d \in rowsLeft : list[d] # Missing}

SaveRow ==
  /\ task # "idle"
  /\ \E d \in Listing, answer \in Answers :
       /\ \A e \in Listing : d <= e
       /\ \/ /\ CanSeal(list[d], answer)
             /\ table' = [table EXCEPT ![d] = Row(list[d], answer)]
             /\ rowsLeft' = rowsLeft \ {d}
             /\ UNCHANGED <<task, list, shown, excused>>
          \/ /\ ~CanSeal(list[d], answer)
             /\ excused' = excused \cup rowsLeft
             /\ Leave
             /\ UNCHANGED table
  /\ UNCHANGED <<bootVars, varVars, given, mishaps>>

DeleteRow ==
  /\ task # "idle"
  /\ Listing = {}
  /\ \E d \in rowsLeft :
       /\ table' = [table EXCEPT ![d] = Absent]
       /\ rowsLeft' = rowsLeft \ {d}
  /\ mishaps' = mishaps \cup (IF Present \subseteq rowsLeft THEN {"emptied"} ELSE {})
  /\ UNCHANGED <<bootVars, task, list, shown, varVars, given, excused>>

SaveDone ==
  /\ task # "idle"
  /\ rowsLeft = {}
  /\ Leave
  /\ UNCHANGED <<bootVars, table, varVars, secretsHistory>>

(* Somebody gives the variable another value, for the next start. *)
RotateVariable ==
  /\ fresh < MaxTexts
  /\ fresh' = fresh + 1
  /\ var' = fresh'
  /\ UNCHANGED <<bootVars, table, listVars, varMem, secretsHistory>>

SecretsNext ==
  \/ StartApp \/ StopApp \/ EnsureKey \/ CheckTable \/ ImportRow
  \/ Refresh
  \/ \E d \in DeviceIds : SetPassword(d) \/ EditOther(d) \/ RemoveDevice(d)
  \/ SaveRow \/ DeleteRow \/ SaveDone
  \/ RotateVariable

SecretsSpec == SecretsInit /\ [][SecretsNext]_secretsVars

-----------------------------------------------------------------------------
SecretsTypeOK ==
  /\ kind \in Kinds /\ disk \in [Kinds \cup {"env"} -> {NoKey} \cup SealKeys]
  /\ source \in {"none", "env", kind} /\ mem \in {NoKey} \cup SealKeys
  /\ starts \in 0 .. MaxStarts
  /\ phase \in {"down", "ensuring", "checking", "importing", "up"}
  /\ next \in 1 .. Len(Json) + 1
  /\ table \in [DeviceIds -> Rows]
  /\ task \in {"idle", "refresh", "change"}
  /\ list \in [DeviceIds -> Texts \cup {Missing}] /\ rowsLeft \subseteq DeviceIds
  /\ shown \in [DeviceIds -> Texts \cup {Missing}]
  /\ var \in Texts /\ varMem \in Texts /\ fresh \in 0 .. MaxTexts
  /\ given \in [DeviceIds -> Texts \cup {Missing}]

(* Nobody regenerates a key that is in use: whatever is sealed is sealed with *)
(* the key the installation keeps, unless a key could not be written down or  *)
(* the process started on the fallback backend.                               *)
KeyKept ==
  mishaps \cap {"unsaved", "fallback"} = {} =>
    \A d \in Secret : table[d].key = disk[kind]

(* The passwords at rest are those given.  One is changed only by a load that *)
(* could not open it, by a form that was filled before the last change, or by *)
(* a save that failed; a device is missing only after an import that was cut  *)
(* short, and comes back only after the user had deleted them all.            *)
PasswordsKept ==
  phase = "up" /\ task = "idle" =>
    \A d \in DeviceIds :
      \/ given[d] = (IF table[d] = Absent THEN Missing ELSE table[d].text)
      \/ d \in excused
      \/ table[d] = Absent /\ "cut" \in mishaps
      \/ given[d] = Missing /\ "emptied" \in mishaps
      \/ given[d] = NoPassword /\ d \in EnvDevices

(* "segredos Device falharao no save (fail-closed)": without a key that could *)
(* be written down, no password is sealed.                                    *)
FailClosed ==
  phase = "up" => \A d \in Secret : table[d].key = starts + 1 => disk[source] = starts + 1
=============================================================================
