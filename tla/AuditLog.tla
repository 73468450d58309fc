------------------------------ MODULE AuditLog ------------------------------
(***************************************************************************)
(* The hash-chained audit log of audit_log.py: any number of threads       *)
(* append entries to one JSON Lines file.  A write runs under the module   *)
(* lock: it copies the in-memory tail hash into the entry, appends a line  *)
(* and advances the tail hash.  A write may fail with an OSError, and the  *)
(* process may stop at any point and start again; the tail hash is then    *)
(* read back from the last line of the file.                               *)
(***************************************************************************)
EXTENDS Naturals, Sequences

CONSTANTS
  Writers,      \* threads that log operations
  NoWriter,     \* the lock's holder when nobody holds it
  TornWrites,   \* may a failing write or a crash leave part of a line behind?
  MaxEntries,   \* bound: operations logged in one behaviour
  MaxCrashes    \* bound: process stops in one behaviour

ASSUME AuditAssumption ==
  /\ NoWriter \notin Writers
  /\ TornWrites \in BOOLEAN
  /\ MaxEntries \in Nat
  /\ MaxCrashes \in Nat

VARIABLES
  file,       \* the lines of the JSONL file
  openTail,   \* the last line has no newline yet
  up,         \* the process is running
  lastHash,   \* AuditLogger._last_hash
  logLock,    \* holder of the module lock
  writerAt,   \* where each thread is in _write
  entry,      \* the AuditEntry each thread is writing
  nextId,     \* serial number of the next entry
  acked,      \* entries whose _write returned normally
  crashes     \* process stops so far

diskVars == <<file, openTail>>
logVars == <<file, openTail, up, lastHash, logLock, writerAt, entry, nextId, acked, crashes>>

-----------------------------------------------------------------------------
(* A line either parses as an entry (whole) or does not. *)
Line == [whole : BOOLEAN, id : Nat, prev : Nat]

NoHash == 0
Hash(line) == line.id
Fragment == [whole |-> FALSE, id |-> 0, prev |-> NoHash]

TailHash_Forgotten(lines) == NoHash

(* _read_tail_hash: "" for a missing or empty file and for a last line that *)
(* does not parse.                                                          *)
TailHash(lines) ==
  IF lines # <<>> /\ lines[Len(lines)].whole
  THEN Hash(lines[Len(lines)])
  ELSE NoHash

(* Slip: the file is opened for writing, not for appending. *)
Glue_Truncating(lines, line) == <<line>>

(* Appending to a file whose last line has no newline continues that line, *)
(* and what results is no longer one JSON document.                        *)
Glue(lines, line) ==
  IF openTail
  THEN [lines EXCEPT ![Len(lines)] = Fragment]
  ELSE Append(lines, line)

(* verify_chain: lines that do not parse are skipped; each entry must carry *)
(* the hash of the entry read before it, the first one the empty hash.      *)
VerifyChain(lines) ==
  \A j \in DOMAIN lines : lines[j].whole =>
    \/ /\ \A i \in 1 .. j - 1 : ~lines[i].whole
       /\ lines[j].prev = NoHash
    \/ \E i \in 1 .. j - 1 :
         /\ lines[i].whole
         /\ \A k \in i + 1 .. j - 1 : ~lines[k].whole
         /\ lines[j].prev = Hash(lines[i])

-----------------------------------------------------------------------------
LogInit ==
  /\ file = <<>>
  /\ openTail = FALSE
  /\ up = TRUE
  /\ lastHash = NoHash
  /\ logLock = NoWriter
  /\ writerAt = [w \in Writers |-> "idle"]
  /\ entry = [w \in Writers |-> Fragment]
  /\ nextId = 1
  /\ acked = {}
  /\ crashes = 0

(* log_operation, or the end of a timed() block: the entry is built from the *)
(* caller's data before any lock is taken.                                   *)
Begin(w) ==
  /\ up
  /\ writerAt[w] = "idle"
  /\ nextId <= MaxEntries
  /\ entry' = [entry EXCEPT ![w] = [whole |-> TRUE, id |-> nextId, prev |-> NoHash]]
  /\ nextId' = nextId + 1
  /\ writerAt' = [writerAt EXCEPT ![w] = "waiting"]
  /\ UNCHANGED <<diskVars, up, lastHash, logLock, acked, crashes>>

Acquire(w) ==
  /\ writerAt[w] = "waiting"
  /\ logLock = NoWriter
  /\ logLock' = w
  /\ entry' = [entry EXCEPT ![w].prev = lastHash]
  /\ writerAt' = [writerAt EXCEPT ![w] = "appending"]
  /\ UNCHANGED <<diskVars, up, lastHash, nextId, acked, crashes>>

AppendLine(w) ==
  /\ writerAt[w] = "appending"
  /\ file' = Glue(file, entry[w])
  /\ openTail' = FALSE
  /\ writerAt' = [writerAt EXCEPT ![w] = "advancing"]
  /\ UNCHANGED <<up, lastHash, logLock, entry, nextId, acked, crashes>>

Advance(w) ==
  /\ writerAt[w] = "advancing"
  /\ lastHash' = Hash(entry[w])
  /\ writerAt' = [writerAt EXCEPT ![w] = "returning"]
  /\ UNCHANGED <<diskVars, up, logLock, entry, nextId, acked, crashes>>

Return(w) ==
  /\ writerAt[w] = "returning"
  /\ logLock' = NoWriter
  /\ acked' = acked \cup {entry[w].id}
  /\ entry' = [entry EXCEPT ![w] = Fragment]
  /\ writerAt' = [writerAt EXCEPT ![w] = "idle"]
  /\ UNCHANGED <<diskVars, up, lastHash, nextId, crashes>>

(* What an interrupted append leaves: nothing, or, when TornWrites, a part   *)
(* of the line or the line without its newline.                              *)
Interrupted(w) ==
  \/ UNCHANGED diskVars
  \/ /\ TornWrites
     /\ \E rest \in {Fragment, entry[w]} : file' = Glue(file, rest)
     /\ openTail' = TRUE

(* The append raises OSError: the with statement releases the lock, the tail *)
(* hash keeps its value and the caller gets the exception.                   *)
AppendFails(w) ==
  /\ writerAt[w] = "appending"
  /\ Interrupted(w)
  /\ logLock' = NoWriter
  /\ entry' = [entry EXCEPT ![w] = Fragment]
  /\ writerAt' = [writerAt EXCEPT ![w] = "idle"]
  /\ UNCHANGED <<up, lastHash, nextId, acked, crashes>>

(* The process stops: threads, lock and tail hash are gone. *)
Crash ==
  /\ up
  /\ crashes < MaxCrashes
  /\ crashes' = crashes + 1
  /\ up' = FALSE
  /\ \/ UNCHANGED diskVars
     \/ \E w \in Writers : writerAt[w] = "appending" /\ Interrupted(w)
  /\ lastHash' = NoHash
  /\ logLock' = NoWriter
  /\ writerAt' = [w \in Writers |-> "idle"]
  /\ entry' = [w \in Writers |-> Fragment]
  /\ UNCHANGED <<nextId, acked>>

(* AuditLogger.__init__ of the next process. *)
Restart ==
  /\ ~up
  /\ up' = TRUE
  /\ lastHash' = TailHash(file)
  /\ UNCHANGED <<diskVars, logLock, writerAt, entry, nextId, acked, crashes>>

Step(w) == Acquire(w) \/ AppendLine(w) \/ AppendFails(w) \/ Advance(w) \/ Return(w)

LogNext ==
  \/ \E w \in Writers : Begin(w) \/ Step(w)
  \/ Crash
  \/ Restart

LogSpec == LogInit /\ [][LogNext]_logVars

(* A thread that holds the lock keeps running: nothing in _write blocks.  A  *)
(* waiting thread is only promised the lock if nobody else has it.           *)
LogFairness == \A w \in Writers : WF_logVars(Step(w))

FairLogSpec == LogSpec /\ LogFairness

-----------------------------------------------------------------------------
LogTypeOK ==
  /\ file \in Seq(Line)
  /\ openTail \in BOOLEAN
  /\ up \in BOOLEAN
  /\ lastHash \in Nat
  /\ logLock \in Writers \cup {NoWriter}
  /\ writerAt \in [Writers -> {"idle", "waiting", "appending", "advancing", "returning"}]
  /\ entry \in [Writers -> Line]
  /\ nextId \in Nat \ {0}
  /\ acked \in SUBSET Nat
  /\ crashes \in Nat

(* verify() never reports tampering on a log nobody tampered with, whatever *)
(* the interleaving of the writers, and across failed writes and restarts   *)
(* (verify_chain: "False se houver adulteracao").                           *)
ChainVerifies == VerifyChain(file)

(* An entry whose _write returned is in the file, and parses, ever after. *)
AckedDurable ==
  \A id \in acked : \E i \in DOMAIN file : file[i].whole /\ file[i].id = id

(* No entry is written twice, and no two entries name the same predecessor: *)
(* the chain does not fork (the comment on _write, "bifurcando a cadeia").  *)
NoFork ==
  \A i, j \in DOMAIN file :
    /\ file[i].whole
    /\ file[j].whole
    /\ i # j
    => file[i].prev # file[j].prev /\ file[i].id # file[j].id

(* Why the three hold when no write is torn.  Linked: every line is an entry *)
(* chained to the line before it.  TailKnown: the tail hash in memory is the *)
(* hash of the last line, except between an append and the advance that      *)
(* follows it under the same lock.  Fresh: an entry not yet appended has an  *)
(* id the file does not hold.                                                *)
Linked ==
  /\ ~openTail
  /\ \A i \in DOMAIN file :
       /\ file[i].whole
       /\ file[i].id \in 1 .. nextId - 1
       /\ file[i].prev = IF i = 1 THEN NoHash ELSE file[i - 1].id
  /\ \A i, j \in DOMAIN file : file[i].id = file[j].id => i = j

Holding(w) == writerAt[w] \in {"appending", "advancing", "returning"}

TailKnown ==
  /\ \A w \in Writers : Holding(w) => up /\ logLock = w
  /\ up /\ (\A w \in Writers : writerAt[w] # "advancing") => lastHash = TailHash(file)
  /\ \A w \in Writers :
       /\ writerAt[w] = "appending" => entry[w].prev = TailHash(file)
       /\ writerAt[w] = "advancing" => file # <<>> /\ TailHash(file) = entry[w].id
       /\ writerAt[w] = "returning" =>
            \E i \in DOMAIN file : file[i].whole /\ file[i].id = entry[w].id

Pending(w) == writerAt[w] \in {"waiting", "appending"}

Fresh ==
  /\ nextId <= MaxEntries + 1
  /\ \A w \in Writers : Pending(w) =>
       /\ up
       /\ entry[w].whole
       /\ entry[w].id \in 1 .. nextId - 1
       /\ \A i \in DOMAIN file : file[i].id # entry[w].id
       /\ \A v \in Writers \ {w} : Pending(v) => entry[v].id # entry[w].id

(* The inductive invariant of the log without torn writes. *)
LogInv == Linked /\ TailKnown /\ Fresh /\ AckedDurable
AuditInv == LogTypeOK /\ LogInv

(* The lock never stays taken: a write that fails releases it as well. *)
LockReleased == logLock # NoWriter ~> logLock = NoWriter

(* The log implements the append-only trail. *)
Trail == INSTANCE AuditTrail WITH trail <- file, Ids <- 1 .. MaxEntries
ImplementsTrail == Trail!Spec
=============================================================================
