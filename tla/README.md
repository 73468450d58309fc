# Formal models of Huawei Manager

TLA+ specifications of Huawei Manager (`src/src/huawei_manager`), TLC configurations that check them
on small instances, and TLAPS proofs, for every value of the constants, of what the runs check of its
safety. Paths below are relative to `src/src/huawei_manager`. `PROJECT.json` maps every
definition to the lines it stands for, and lists the runs, the hazards and the theorems.

## The system

One Qt process. The GUI thread owns the widgets and the timers; the `hw-io` pool (6 threads) does
SSH and SQLite work; optional threads listen for SNMP traps and syslog; a dump timer thread belongs
to the controller; the watcher has a pool of one. They share the objects below. Other processes meet
the application at two points: the installer and a second instance make accounts in the same
database, and the commands of the maintenance tab are children whose output it reads.

| Component | State | Operations | Talks to | What is hard | What makes it correct |
|---|---|---|---|---|---|
| Audit log (`audit_log.py`) | JSONL file, tail hash in memory, lock | `log_operation`, `timed`, `verify_chain` | everything logs to it | many writers, failing and torn appends, restarts | chain verifies, never forks, acknowledged entries stay |
| Event bus (`sdn_controller/event_queue.py`) | priority queue, ticket counter, callbacks | `put`, `get`, `poll`, `subscribe`, `unsubscribe` | workers publish, GUI polls | ticket drawn before insertion, full queue, callbacks copied | nothing lost or doubled, order per producer, all callbacks called |
| UI pump (`app_threading.py`, `app_state.py`, `app.py`) | bounded deque of callbacks, canvas | `_dispatch`, `_poll_queue`, `_on_sdn_event`, `_rebuild_ui` | drains the bus, paints the topology | two queues drained by one timer, overflow, theme changes | disconnections never lost, canvas ends up right |
| Inventory (`services/device_service.py`, `device_repository.py`, `handlers/devices.py`) | `devices` table, list shown | refresh, add, edit, delete | probes, GUI | whole-table load and write-back around seconds of probing | user's changes kept, GUI shows the table |
| Session pool (`sdn_controller/session_factory.py`) | sessions per device, last use | `get`, `release`, `purge_expired`, `dispose` | polling | connecting outside the lock, purging, shutdown | no leak, no dead session handed out |
| Polling (`sdn_controller/polling_manager.py`) | due times, histories, intervals | `tick`, `force_poll` | session pool, inventory | overlapping ticks, slow polls, caps | no hammering, nobody chosen starves |
| Controller (`sdn_controller/core.py`) | device states, dump file, timer | `register`, `deregister`, `sync_from_devices`, `update_state`, `_on_event`, `dump`, `load`, `start`, `stop` | event bus | dumps outside the lock, crash, stop | state dumped after critical events |
| Connection (`session.py`, `session_commands.py`, `sdn_controller/southbound.py`, `handlers/ssh.py`) | the one SSH connection, its lock, liveness cache | connect, disconnect, send | GUI and workers | dialling without the lock, cached liveness, retries | no command cut off, no silent leak, GUI not stuck |
| Device in hand (`handlers/devices.py`, `topology.py`, `tabs/topology`, `tabs/services`, `tabs/backup`) | target, fields of the session, canvas selection, services page | select, back, edit, delete, connect, pick a service, back up | connection, inventory, audit log | fields read one by one while they change; three copies of the selection | connection, records and services page fit the device |
| Configuration commands (`command.py`, `tabs/cmd`, `tabs/services`, `napalm_backend.py`, `ui_bridge.py`) | slot of the last command, its snapshot | execute, service, rollback, ask the user | connection, audit log | several calls per operation, refused lines, reconnection in between | changes audited, honest rollback, undo kept |
| Watcher (`agents/`) | active and scanning flags, cached results | `start`, `stop`, `_tick`, `_run_scan` | pool of one, GUI | stop and start around a scan | scans do not pile up, and go on |
| Alert listeners (`sdn_controller/listeners.py`) | socket, thread, stop flag | `start`, `stop`, `_loop`, `_parse_trap`, `_parse_line` | event bus | a stop whose join times out, then a start; datagrams cut short, BER lengths and arcs | one thread and one socket, alerts say what was sent |
| Access level (`sdn_controller/authz.py`, `handlers/auth.py`, `app_state.py`) | three copies of the level, last activity, cached pages | login, logout, `touch`, periodic check, theme change | connection, watcher, pages | lazy expiry behind a timer that is restarted, nested event loop of a question | expires in time, pages and watcher follow |
| Login dialog, accounts (`widgets/auth_overlay.py`, `user_repository.py`, `db.py`, `setup/`) | attempts and lockouts in dialogs and application; table of users | open, verify, lock, seed | access level | dialogs side by side, time, makers in several processes | attempts add up, first passwords are shown once |
| Shell and palette (`app.py`, `app_shortcuts.py`, `app_notify.py`, `widgets/command_palette.py`) | stack of pages, sidebar, current page, timers | show, rebuild, change theme, log in and out, close | all pages | events handled in the middle of a theme change, pages dropped for later | what is shown is the current page, and everything resumes |
| Maintenance tab (`tabs/manutencao/`) | cancel event, output panel, job threads | run, cancel, clear, stream, rebuild | child processes, watcher | callbacks that arrive after the page or the job they belong to | a job can be cancelled, its output is whole |
| Secrets, migration (`vault_backends/`, `device_crypto.py`, `device_models.py`, `migration.py`, `_config.py`) | key in a backend and in memory, sealed passwords, legacy JSON | choose a backend, ensure a key, seal, open, import | inventory | fallback backend, a key that cannot be written, a vault out of reach, a crash half way | keys and passwords in use stay |
| Fetch tabs (`tabs/config`, `route`, `arp`, `info`, `home`), validator, normaliser, drivers, scans, themes, drawing | none shared | text functions, one command each | connection | - | - |

All rows but the last have modules.

## The modules

Every module keeps the names of the source. A step is what the code does between two points where
another thread can get in: a critical section, a call over the network, a file operation; in the GUI
thread a whole handler, unless it runs a nested event loop. Definitions introduced by a comment
"Slip:" are plausible mistakes, each the mutated form of the definition after it; they are used by
no specification and only serve to show that a property would notice.

**AuditTrail** is the abstract log: a sequence of entries, each holding the hash of the one before
it, that only grows. **AuditLog** is `AuditLogger`: threads begin an entry, take the lock, append
the line, advance the hash in memory and return; an append may fail, be cut short (`TornWrites`),
and the process may stop at any step and read its tail hash back on restart. A hash is modelled as
the identity of the entry hashed, the ideal of a collision-free function. `Trail` instantiates the
abstract log by the lines of the file, and `ImplementsTrail` is the refinement. The theorems
are in **CommandProofs**, with those of the connection.

**Connection** has the GUI thread (asks `is_alive`, stores the answer, closes, waits for the lock)
and workers that dial, with retries, or send a command. Dialling does not hold the lock, sending
does. **SessionLine** is the abstract connection, without threads, lock, flags or retries: one
command at a time, over the line there was when it began; a new line may replace the old one; the
session hangs up between commands only. `OneLine` instantiates it, with the handle of the worker that
sends as the one in use, and `ImplementsLine` is the refinement. **CommandProofs** holds the
theorems.

**EventBus** is `EventQueue`. `Draw` takes the ticket (the C-implemented counter needs no lock),
`Insert` or `GiveUp` are the two outcomes of the timed `put`, `Snapshot` copies the callbacks and
`Call` makes the calls, which may raise.

**UiPump** is `_dispatch` (length test and append are two steps), `_poll_queue` (callbacks first,
then a batch of the bus, where a disconnection bypasses the deque), `_on_sdn_event` and the clearing
of the deque by a theme change. Workers publish and the GUI thread publishes too.

**Inventory** has savers (the GUI and the workers) that run `save_inventory` row by row over one
table, refreshes that hold the lock only while loading, and the GUI's list. A row is a stamp, new
with each change of the user, so that an old copy written back can be told from a new one.

**Secrets** is what those rows do to passwords. A sealed password is a text with the key it was sealed
with. Start-up is four steps: the backend or its fallback with what it reads, the key, the look at
the table, and the import of the legacy JSON, one device and commit at a time. Loads and saves open and
seal row by row, with a vault that may be out of reach at any of them. The saves are one at a time
here (those that overlap are in Inventory).

**SessionPool** has clients (get, use, release on error), the purger and the disposer. Connecting
happens outside the lock, with the second look at the pool on return; closing happens outside too.
A release pops whatever session the pool then holds for the device, which need not be the one the
client failed on. **SessionOwners** is the abstract pool, without lock, callers or critical
sections: a session is connected once, put in the pool of a device that has none or discarded, taken
out by somebody, and closed by who discarded it or took it out. `Owners` instantiates it by what the
threads hold, and `ImplementsOwners` is the refinement. **SessionPoolProofs** holds the theorems.

**Polling** counts time in units. A tick chooses the first `MaxDevices` online devices and polls
those that are due; each poll ends as skipped, failed, erroneous or successful, and its due time
counts from its end. Time passes during polls.

**ControllerCore** has threads that publish events or call the controller, and a dump timer. A
stored device is an object that can be replaced under the feet of a thread that looked it up.
Dumping is three steps, snapshot, truncation, filling, and a crash may come between any two.

**Alerts** is the decoder of traps and syslog lines, as functions on bytes and pieces of text, with
the encoders of a sender (external) as its reference. **Listeners** uses it: per source a socket, a
thread that checks the flag, reads and handles, `start`, and `stop` with its join that may give up.

**ConfigCommand** has workers that run `exec_config`, `run_service` (Netmiko or NAPALM) or a
rollback, over a connection that the user makes and drops at any moment. A configuration is a set
of lines and a command a set of additions and undos; the device may refuse any line without the
transport failing, which is what VRP does. The question of the NAPALM path is two outcomes: an
explicit yes in time, or anything else. **MCConfigCommand** adds the symmetry.

**Catalogue** is the registry of services, with the types and the category of each and the number of
its placeholders. **ServicesPage** is the services tab over it, where filling one widget fires the
signal of the next. **Target** composes it with the device in hand: the canvas's selection, the
target, the override fields, edits and deletions with the refresh that follows, and an I/O thread
that reads the fields one after the other, dials, and then files the host key and the entry under
the host the fields name by then. Commands and backups are recorded in the same way.

**Watcher** holds the operations of the watcher; it has no specification of its own, because what
matters is who calls them. **Access** does: it extends Watcher and adds the level in its three
copies, the time since the last activity and since the last check, the login dialogs and the
question of the logout, and for each page whose look depends on the level, the level it was built
for. A handler of the GUI thread is one step; the question, during which timers fire, is two. A
theme change restarts the timer of the check and the watcher, and drops pages, dialogs and
callbacks. **AccessProofs** holds the theorems.

**Palette** is the command palette. **Shell** extends it with the stack of pages, the sidebar with
its lit button, and the change of theme in four steps: the click, `Raze` up to `processEvents`,
`Rebuild`, `UnlockTheme`. Any handler may come between them. References to deleted buttons are kept
as `ui.dead`, and a handler that would raise on one sets `ui.raised`.

**Accounts** is the table of default accounts, made by the installer and by the first login of several
instances, one commit each. **AuthDialog** extends it with the dialogs: each has attempts and a
lockout of its own, told to the application, which forgets a dialog after a failed attempt; the
timer that enables it again is coarse.

**Maintenance** is the maintenance tab: a thread for each process (started, read line by line,
killed, waited for), the callbacks it leaves for the GUI thread, the cancel event, and the panel
across rebuilds of the page.

**MCBackend**, **MCDesktop** and **MCCommand** put parts that share no state into one TLC run: in a
behaviour the part named by `focus` moves and the others stay in one initial state, so that the state
graph is the union of those of the parts and not their product.

The theorems of a component are in a module that extends it: **CommandProofs** (AuditLog,
Connection), **SessionPoolProofs**, **AccessProofs** (with Watcher), **ConfigCommandProofs**,
**BackendProofs** (EventBus, ControllerCore, Alerts and Listeners, Secrets), **DesktopProofs** (Accounts and
AuthDialog, Maintenance, Target with ServicesPage, Shell), **UiPumpProofs** and **InventoryProofs**
(Inventory, Polling). Where one module proves several components, each theorem names the
specification it is about; no variable is shared.

The components meet at these points: UiPump models the bus as the FIFO that EventBus justifies per
producer; Polling abstracts a poll to its outcomes, which SessionPool produces; ConfigCommand
abstracts the connection to a link and the flag `_connected`, whose details are in Connection; Target
does so too and adds what the link leads to; the disconnection at the end of a level is `EndSession`
of Connection and `SessionTimeout` of Target; a theme change is in UiPump for the deque, in Access (as
one step) for the level and the watcher, and in Shell for pages and timers. Access composes the
watcher with all its callers, Target the services page with the selection, AuthDialog the dialogs
with the accounts, Shell the pages with the palette; the other modules meet on paper only.

## The runs

| Run | Bounds | Shows |
|---|---|---|
| `Command` | 2 workers, 2 handles, 4 requests, 2 tries; 3 writers, 4 entries, 2 stops | the session implements the line (one command at a time, none cut off), only replaced connections leak, the GUI gets the lock; the chain verifies, acknowledged entries stay, the trail is implemented |
| `AuditLogTorn` | 2 writers, torn writes | violated: a line cut short breaks verification of a log nobody altered |
| `UiPump` | 2 workers, queues of 2, 3 events, 1 theme change | the canvas is wrong only for the listed reasons, disconnections are never lost, events settle |
| `Inventory` | 2 workers, ids up to 3, 2 changes | changes are lost only to an overlap or a failure, the GUI converges |
| `SessionPool` | 2 clients, 2 devices, 3 sessions | no leak, the pool implements the ownership of sessions (so it holds open ones only, one per device), popped sessions are closed |
| `Polling` | 3 devices, cap of 2, history of 2 | devices rest, only stable ones slow down, chosen ones are polled for ever |
| `ConfigCommand` | 2 workers, 2 commands, 2 connections, 1 line | changes are audited, ok means restored, the undo is kept |
| `ConfigRollback` | 2 devices, 1 command | violated: the rollback changes another device |
| `Access` | timeout and period of 2 units, 2 dialogs, 3 logins, theme changes or toggles, deque of 1 | the level expires in time, topology and watcher follow it, scans neither pile up nor cease |
| `Backend` | bus: 2 producers, 2 callbacks, queue of 2, 3 events, 2 priorities; controller: 2 threads, 1 timer, 1 crash, 2 calls; listeners: both, 2 starts; secrets: 2 devices, 2 starts, vault and sops | the bus loses, doubles and reorders nothing and calls every callback; a quiet controller has its state in the file; one reader per listener, alerts are what was sent; keys and passwords stay |
| `Desktop` | 2 devices of 2 types, 1 edit, 1 dial, 1 pick; 3 pages, 2 theme changes; 2 instances, an installer, 2 dialogs, 2 attempts; 2 jobs of 3 lines, flush every 2 | services list, connection and records fit the device; the current page is shown and all resumes; attempts add up, first passwords are shown; jobs can be cancelled, output is whole |
| `ShellDangling` | as `Desktop` | violated: a page shown within a theme change leaves a deleted button behind |

Two threads are enough for every interleaving the properties speak of (each names at most two
actors, and the lock-protected data is symmetric in them); queues of two places have an empty, a
middle and a full state, and an event more than they hold meets the full one. Ticket order needs two
events of one producer and one in between, hence three. Two stops let a log be read back after a
log that was itself read back. Two connections are one before and one after a reconnection. With one
line a refused, an undone and an added line are still told apart, and a partial rollback is the line
that stays; batches in which some lines pass and others do not are only met by size one in this run.
`Polling` serves one of three devices, so that the others take places of the cap and are skipped.
In `Access` three counted moves are a login, a theme change that postpones the check, and one more;
two dialogs let a second login raise the level of the first. A period of two units has a time before
and one at which the check is due. In `Backend` two starts of a listener are the one whose join is
given up and the one that follows; two starts of the application are the one that keeps a key in
memory only and the one that finds it gone; the datagrams are traps of both versions, one without a
varbind, one of another kind, each cut at five places, and six lines of syslog; the producers are
interchangeable. In `Desktop` one device has no credential, so that the dial may meet that of the
other; switches and load balancers are a type with many categories and one with few; two jobs are one
and its successor, three lines one flush and a rest. Every counter that could grow is cut by a named
constant. Deadlock is not checked where these bounds stop the model.

The type invariants (`TypeOK`, `LogTypeOK`, ...) and the strengthenings that the proofs use (named
below, each ending in `Inv`) are no properties of the runs: TLC checked them on the instances above
before they were proved, and the proofs cover them. So are `NeverCutOff` and `PoolHealthy`, theorems
which the refinements `ImplementsLine` and `ImplementsOwners` imply. `NoFork`, `UsesPooled` and
`TargetTrue` (what is in hand is what is stored), which are proved, `LockReleased` and `PaletteTrue`
(Enter runs the row that is seen) hold in the same instances and are kept as definitions.

Fairness is weak fairness of what the code does without waiting for anybody: a thread that holds
the log's lock goes on; the GUI's timers fire and its handlers return; a worker that dials or sends
ends, for both have timeouts (`SSH_TIMEOUT`, 90 s, and 120 s); a save that began goes on; a thread that took
sessions out of the pool closes them; the watcher's timer fires and its scans, which only read
files, end. In `MCCommand` these are conditions on the part in focus. That the session timer fires on
time is in `Pass`, which lets no time go by while it is
due: a GUI thread that waits for a lock (see `GuiReturns`) fires it later by as much. Waiting for the
session's lock is fair because the requests are finite; a worker that took the lock again at once for
ever is excluded by that bound and not by the code. `UiConverges` is checked with refreshes that are
shorter than their timer (`SlowProbes = FALSE`): with longer ones, which is dozens of unreachable
devices, stale lists can be written back for ever, and the property fails. The other runs state
safety only.

## The proofs

Each theorem holds for any sets of threads, devices, pages, handles and so on, and for any bounds;
what the constants must satisfy is the named assumption of the module that declares them. The proofs
are of one shape: the property is not inductive alone, a strengthening is; the initial states satisfy
it, every action keeps it, and it implies the property. Why each strengthening is needed:

**CommandProofs, audit log** (`LogSpec`, assuming `~TornWrites` past the types): `LogTypeCorrect`,
`ChainAlwaysVerifies`, `ChainNeverForks`, `AcknowledgedStays`, `LogImplementsTrail`. That the chain
verifies after an append depends on the hash in memory being that of the last line, which depends on
who holds the lock and between which of its steps. `LogInv`: at most one writer is in the critical
section, the hash in memory is the file's tail except between the append and the advance
(`TailKnown`), the lines are linked (`Linked`), an entry under way has an id nobody used (`Fresh`),
and what was acknowledged is in the file. Refinement: the initial file is the empty trail;
`AppendLine` extends it by a chained entry; every other step leaves the lines alone.

**CommandProofs, connection** (`Spec` of Connection): `TypeCorrect`, `CommandsNotCutOff`
(`NeverCutOff`) and `LeaksAreReplaced` (`OnlyReplacedLeak`). Whoever closes a handle first takes the
lock, and the lock is held exactly by the worker that sends (`LockHeld`); a worker starts to send over
the session's handle, which must then not have been closed already (`LiveHandles`). `TriesLeft` bounds
the attempts, which the types need. `ConnectionInv` is the conjunction. The proof relies on no
fairness and not on the liveness cache. `ConnectionImplementsLine` (`ImplementsLine`) maps the handle
of the worker at "sending" to the one the abstract line sends over. That there is at most one such
worker, and that a command begins only while none is under way, is `LockHeld`; that a dial installs a
connection that was not there is `InOrder`, which the refinement needs and the other theorems do
not: handles are made in the order of their numbers, and all after the last are unused. Most steps
(queueing, the cache, the GUI's questions, waiting, retrying) map to stutters, `Unlink` to `HangUp`,
the end of a dial to `Install`, both ends of a command to `End`.

**SessionPoolProofs**: `TypeCorrect`, `NoSessionLeaks` (`Accounted`), `PoolStaysHealthy`
(`PoolHealthy`) and `ClientsShare` (`UsesPooled`). That every open session is held by somebody does
not survive `CloseSession` unless nobody else holds the one closed; that nobody else does rests on
fresh sessions being new, hence on every held session having been made; and what a client may hold
depends on where it is in its call. `PoolInv`: `Discipline` (what is held, by the place in the code),
`HeldOpen`, `OneOwner`, `Owned`, `UsesPooled`. `PoolImplementsOwners` (`ImplementsOwners`): the relations of the
abstract module are read off the threads' variables. The second critical section of `get` maps to
`Share` or `Discard`, `release` and `dispose` to a `Take` of one device or of all, a release that
finds nothing to a `Take` of nothing, and the first section of `get`, the use and the scan of
`purge_expired` to stutters. Of the invariant it needs `Discipline`: a client that comes back to the
lock has the session it connected, and a device to put it at.

**AccessProofs**: `TypeCorrect`, `InactivityEnds` (`IdleBounded`), `TopologyStaysFresh`,
`ScansDoNotPileUp` (`NoPileUp`) and `WatchingNeedsLevel` (`WatchedBySomebody`). The bound on inactivity
needs the copies of the level to agree, because the timeout looks at one and the property at another;
the one on scans needs the flag of an inactive watcher to be down, or a start would submit a scan
nobody counts. The watcher's part is proved operation by operation and then lifted to the steps of
Access.

**ConfigCommandProofs** (`ConfigInv`): `ConfigTypeCorrect`, `ConfigAudited` (`ChangesAudited`),
`ConfigRestored` (`RestoredWhenAlone`), `ConfigKeepsUndo` (`UndoKept`, an action property). Auditing
needs the places where an operation may end without an entry to be those where nothing has changed
(`Untouched`). An honest rollback needs that a command is applied by one worker and rolled back only
after that one stored it (`Owned`), that a rollback sends nothing but lines of its snapshot
(`SendsBack`), and, for a command nobody disturbed, what the device holds at each place of its two
operations (`Alone`). `UndoKept` needs a rollback in progress to be of the command in the slot or of
an older one (`Tracked`).

**BackendProofs, event bus** (`BusInv`): `BusTypeCorrect`, `BusDelivers` (`Delivery`: conservation and
the order per producer), `BusPushes` (`PushComplete`). Tickets are drawn before the lock is taken, so
that the queue alone says nothing about order: `InOrder` says it of all the places an event can be in,
an event in hand included, and `Accounted` that no event is in two of them. `Heard` and `Told` follow
a call over its list of callbacks while others subscribe and leave.

**BackendProofs, controller** (`CoreInv`): `CoreTypeCorrect`, `StateDumped` (`DumpedWhenAlone`). As
long as dumps have not overlapped there is one dumper (`Alone`), and the state is in the file, in the
hand of that dumper, or owed by a thread that has a critical event in hand (`OnItsWay`). Assumed:
the devices are finitely many, and there are objects for all (`CoreAssumption`).

**BackendProofs, listeners** (`ListenersInv`): `OneReaderAlways` (`OneReader`). The threads that a
`stop()` gave up on are told from the one the listener refers to, or waits for, by the place of the
GUI thread in `start` and `stop` (`Current`, `GuiPlaced`), and counted (`AbandonedCounted`); the proof
counts members of finite sets with the lemmas of `FiniteSetTheorems`.

**BackendProofs, decoder of the alerts**: `V1ShowsEnterprise`, `V2ShowsFirstName`,
`CutTrapsNeverPublished`, `OidRoundTrip`, `PriorityShown`, `AlertsAlwaysTrue` and `AgentsAlwaysTrue`
(both `AlertsTrue`). These are about bytes, without bounds on the datagram.

* *Fields.* `ReadsField`: what the sender wrote as a field, wherever in the data, is what `_read_tlv`
  reads there, and reading goes on right after it; so fields written one after the other are read one
  after the other (`ReadsStart`, `ReadsOn`), through the sequences they are nested in. The senders'
  fields (`Values`) are those of less than 65536 bytes, with a length of one byte, two or three:
  no datagram holds a longer one (`_MAX_DATAGRAM`).
* *Parts.* `PartsAreRefused`: of a message that is one field, with a length in any form, no part can
  be read, because its header is cut or its length passes the end.
* *Identifiers.* `OidRoundTrip`: decoding undoes encoding, for every identifier whose arcs have up to
  32 bits and whose first two fit in a byte as the code splits it (first up to 2, second below 40).
  Encoder and decoder are recursive functions over positions, and a fact about every position is
  proved with the lemma `Induction`, which is about a set of numbers (from the least element of its
  complement) and so needs no operator parameter: the decoder, having read the bytes of the first k
  arcs, holds exactly those arcs and no rest (`EncodingSteps`, `DecodingSteps`, `ArcRead`).
* *Lines.* `PriorityShown` and `NoPriorityShown`: the severity comes from a run of digits in brackets
  that begins the line, blanks apart, and is that of its number modulo 8; any other line is "info".
* *What was meant.* `Meant` says which alert a datagram means, from how it is built: a v1 trap its
  enterprise, a v2c trap its first name, a message without one an empty name, a part of a message or
  a blank line nothing. `AlertsAlwaysTrue`: if every datagram a listener may receive comes with the
  alert it means, no run ever publishes another one; that alerts come from the decoder and nowhere
  else is an invariant of the listeners (`PublishedDecoded`). `AgentsAlwaysTrue` puts the encoders of
  Alerts in place of `Meant`, for any set of objects (`Sent`) with identifiers of up to 128 arcs, the
  limit of RFC 2578: five bytes an arc at the most (`NamesFit`), so that a trap with three of them is
  a datagram. Those of the run `Backend` satisfy that hypothesis.

**BackendProofs, secrets** (`KeyInv`, `PasswordInv`): `SecretsTypeCorrect`, `KeysStay` (`KeyKept`),
`PasswordsStay` (`PasswordsKept`). A sealing is safe if the key in memory is the one that is kept, in
each phase of the start-up (`MemoryKept`). `AllKept` says, phase by phase, which rows agree with what
was given, which are still to be written and what of the legacy file is still to come; an empty
table is one nobody filled yet or one the user emptied (`EmptyTable`), which is what the import looks
at. Assumed: the legacy file names no device twice (its ids are those `_next_id` handed out).

**DesktopProofs** has four parts. *Accounts and dialogs* (`AccountsInv`, `AuthInv`): `AccountsShown`
(`PasswordsShown`), `AuthLockout` (`LockoutKept`). An account made now must not have been told before,
so all that were are in the table. The failures since the last lockout are counted by the one open
dialog, or by the application while there is none, and the end of a lockout is kept by both
(`CountedByDialog`, `CountedByApplication`, `LockedByDialog`). *Maintenance* (`CancelInv`,
`PanelInv`): `MaintenanceTypeCorrect`, `CurrentCancels` (`CancelReaches`), `OutputComplete`
(`PanelComplete`). These are about the queue of callbacks: no callback that forgets the cancel event
waits while a job runs (`QuietEnd`); the label comes after all lines of its job in the queue
(`LabelLast`), and what is last in the queue, or shown, is all of them (`AllShown`). *Device in hand*
(`ServicesInv`, `AimInv`): `ServicesShown` (`ServicesFit`), `ConnectionAimed` (`AimedUnlessMoved`),
`TargetStaysTrue` (`TargetTrue`).
Canvas and application agree on the device or the canvas has forgotten it (`InHandOK`); the list is
that of its type, through every signal that refills a widget (lemmas about the operators of
ServicesPage); unless the target moved, each place of the dial has read what belongs to the target
(`Aimed`). *Shell* (`ShellInv`): `PageAlwaysShown` (`PageShown`), `ThemeResumes` (`Resumed`). Between
changes of theme, and up to the middle of one, the user interface is whole (`Whole`); after it is
razed nothing of the old one is referred to (`RazedClean`); what ran is remembered (`Steady`).
Assumed: `Pages` is a sequence that is not empty.

**UiPumpProofs** (`PumpInv`): `PumpTypeCorrect`, `CanvasAccounted` (`CanvasExplained`),
`DisconnectionsShown` (`CriticalNeverLost`). When the last event on its way is shown, one has to know
that it is the latest of its device: bus, hand and deque hold events in the order they were published
(`Numbered`), and none on its way is later than the latest (`Latest`). Disconnections are never
callbacks (`Direct`). The count of drops is exact because an event leaves the bus once.

**InventoryProofs, inventory** (`InventoryInv`): `InventoryTypeCorrect`, `ChangesStay`
(`ChangesKept`). Between changes every list a refresh is about to write back is the table as it is
(`AtRest`); during one no refresh holds a list, and the table agrees with the list being saved except
where the save has still to go (`Saving`, `Written`). Both need stamps to be distinct.

**InventoryProofs, polling** (`PollingInv`): `PollingTypeCorrect`, `SlowedWhenStable`
(`SlowOnlyIfStable`), `DevicesRest` (`Rests`, an action property). The time left until a device is due
and the time it has rested make up the least interval (`RestsUntilDue`), whatever becomes of the polls
in between.

Only TLC. `PoppedCloses`, `GuiReturns`, `LockReleased`, `Settles`, `UiConverges`, `ChosenPolled` and
`ScansGoOn` need fairness, and liveness and `ENABLED` are outside what the prover handles. Every
invariant and every action property that a passing run checks, and the three refinements, are
theorems.
`MCCommand`, `MCBackend` and `MCDesktop` check the parts whose theorems are stated of each part's own
specification: with the focus on one part their steps are those of that specification. The theorems
prove each property in full, with the exceptions it states; none assumes anything the runs do not.

## Deviations met while modelling

Three have a run (`AuditLogTorn`, `ConfigRollback`, `ShellDangling`) and are described under
"findings" in `PROJECT.json`. The others follow from steps that the models contain, and the
properties of the runs count them as exceptions or do not speak of them:

* `_refresh_devices` loads the table under the lock, probes without it, and writes its list back: a
  device deleted in between is inserted again (`handlers/devices.py:30`, whose comment says the
  order keeps out of the way of `_delete_device`). `ChangesKept` counts it as a race.
* Two producers of one priority can enter the bus in one order and leave in the other, and `poll()`
  returns a list that is not sorted when producers run meanwhile (`event_queue.py:66,98,165`).
* `_dispatch` can evict an accepted callback when two threads pass the length test together
  (`app_threading.py:32`): `CanvasExplained` counts it as a reason. The status events that a theme
  change clears, and a connection overtaken by a later disconnection, are the other reasons.
* `purge_expired` may close a session used since it was listed (`session_factory.py:162`); the tick
  lock keeps purges and polls apart in the application. A `get()` that is connecting when
  `dispose()` runs puts its session in the emptied pool (`session_factory.py:170`).
* The cap of polling is applied before the due filter: devices behind the first `max_devices` are
  never polled (`polling_manager.py:222`). A poll under way sets aside a `force_poll`
  (`polling_manager.py:299`).
* Overlapping dumps can leave the older snapshot, a crash between truncation and writing leaves a
  file that does not load, and a periodic dump that tested `_running` before `stop()` arms another
  timer (`core.py:280,363`).
* A dial that ends after a disconnection sets a connection that `is_connected` denies
  (`session.py:216`). A cached host key is found by prefix, so that the key of 10.0.0.10 answers for
  10.0.0.1 (`session.py:123`).
* Selecting another device keeps the old connection, and the log names the new host for commands the
  old device receives (`handlers/devices.py:95`): `AuditNamesDevice` of Target, the words of
  `audit_log.py:12`, fails. The same goes for the file and the entry of a backup, whose host is read
  after the answer (`tabs/backup/handlers.py:58`), and for the key that a slow dial files
  (`session.py:233`). `AimedUnlessMoved` excepts a target that moved. A device stored without a
  credential is selected with that of the device before it (`handlers/devices.py:101`).
* `_on_service_select` sets `current_svc`, and the refill of the panel clears it at once
  (`tabs/services/page.py`).
* A NAPALM batch that stops at a rejected line is audited as blocked while the lines before it are
  in force, and a service command that the device refused is audited as ok, because
  `send_service_commands` prints refusals instead of returning them.
* The access level is lowered only by the check every 30 s: activity after the timeout and before
  the check keeps it, and a theme change starts the 30 s anew (`sdn_controller/authz.py:93`,
  `app.py:996`). Expiry rebuilds the topology only, login and logout that and the current page: other
  cached pages keep the look of the level they were built for, and the button for the watcher on an
  old maintenance page goes on working (`tabs/manutencao/page.py:318`).
* `Watcher.stop()` during a scan and a start after it queue another scan behind the first, and the
  first one's end lowers the flag of the second, so that a tick may add a third. Scans that wait at
  shutdown are made before the pool ends (`agents/watcher.py:44,56,78`).
* A window closed within a theme change gets its timers started again (`app.py:996`); the login dialog
  does not keep the palette and Ctrl with a digit from changing pages; `copy_ip` is always disabled.
* A dialog that failed an attempt is no longer known to `_auth_overlay`: another can be opened beside
  it, with attempts of its own (`handlers/auth.py:57`). `LockoutKept` excepts it (`crowded`).
* When the installer has made the first account, `seed_default_users` makes no other
  (`user_repository.py:245`, `db.py`); accounts committed before an interruption keep passwords that
  nobody saw.
* The end of a cancelled job forgets the cancel event of its successor (`tabs/manutencao/handlers.py:213`).
* An application that cannot store its key goes on and seals with the key in memory: `FailClosed` of
  Secrets, after the log line of `app.py:200`, fails; the passwords saved since are lost with the
  process. A password that cannot be opened is read as empty, and the next refresh writes it back
  (`device_models.py:43`). An import cut short is not taken up again (`migration.py:110`).
* A v2c trap is published under the name of its first varbind, which is sysUpTime and not the trap's
  own; object identifiers under 2 whose second arc is 48 or more are decoded wrongly
  (`sdn_controller/listeners.py`). A `start()` after a join that timed out clears the flag the old
  thread was to see.
* `load_inventory` puts a password read from the environment into the device, and `save_inventory`
  stores it (`device_service.py:68-79`); an edit drops status, version and extra metadata; an id is
  given again after its device was deleted; due times of offline devices stay in the past, so that
  the adaptive timer runs at its floor.
* The info tab asks for the interfaces outside its `try`, and an error there leaves "Coletando…" on
  the screen (`tabs/info/handlers.py:58`).

## Not modelled

The text functions (validator, normaliser, drivers, dry-run diff), the scans, drawing, themes and
setup have no shared state and no interleaving; they are tested by the repository's unit tests. The
tabs for configuration, routes, ARP table, system information and the dashboard send commands, as
Connection models them, and replace the text of a widget that nothing reads. `rotate_ssh_key` and the
methods of `UserRepository` that change and delete accounts have no caller in the application. Not
modelled inside modelled components: the ciphers and the HMAC of log entries, log export; two threads
typing into one raw channel (the NAPALM path goes past the session's lock); fields of a device other
than identity, type, version and password; the mock answers of services; backups of one second, which
share a name; wording and counters shown to the user.

## Plan

1. The abstract specifications of the log, of the pool of sessions and of the connection are
   implemented and proved. Left: a bus that is a FIFO per producer and priority (EventBus, whose
   `Delivery` says it as an invariant) and a table of first passwords (Accounts).
2. UiPump over such a bus, and ConfigCommand over SessionLine, instead of their own bus and link.
3. The steps of Shell's theme change in Access, with the timer of the check between them.
4. Reference definitions for the validator's order of rules and the stability tracker.
