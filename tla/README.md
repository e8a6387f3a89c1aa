# A TLA+ model of RDMnetBroker

RDMnetBroker runs the broker of the RDMnet library as a service on Windows and
macOS. The protocol itself is in the library; what this repository adds is the
life of the service: when the broker is started, stopped and restarted, with
which settings, by which threads, and what becomes of its log files. That is
what these modules model, check with TLC and prove with TLAPS.

## The parts of the system

| Part | State | Operations | Interacts with |
|---|---|---|---|
| Broker shell (`src/core/broker_shell.*`) | `broker_config_`, `ready_to_run_`, the restart timer and flags, `new_scope_`, `lock_` | `Init`, `Run`, `Deinit`; `RequestRestart`, `AsyncShutdown`; the library's callback `HandleScopeChanged` | calls the RDMnet library, the configuration and the OS interface; called by the services' threads and by a thread of the library |
| Configuration (`src/core/broker_config.*`) | the settings, reused by every load | `SetDefaults`, `Read`, `ValidateCurrent` and one validator per setting | called by the shell at start and at each restart |
| Log files (`src/*/…_os_interface.cpp`) | `broker.log`, `broker.log.1` … `broker.log.5` | `OpenLogFile`, `RotateLogs` | called by `BrokerShell::Init` |
| Windows service (`src/windows/broker_service.*`) | status reported to the service control manager (SCM), the thread handle, the watchers' stop flags | `Start`, `Stop`, `Shutdown`, `ServiceThread`, the address and the configuration watcher | SCM, shell |
| macOS service (`src/macos/broker_service.*`, `main.cpp`) | the shell's thread, the run loop, the observer | `main`, `Run`, `AsyncShutdown` from the SIGTERM handler, the network callback | launchd, shell |
| Windows command line (`src/windows/main.cpp`, `service_utils.cpp`) | the installed service, `broker.log` as a lock between processes | `-install`, `-remove`, `-debug`, `-version`, no option | SCM, log files, Windows service |

What is hard here is concurrency (up to six threads act on one shell, and
`broker_.Shutdown()` waits for a thread that may wait for `lock_`), time (a
cooldown on a 32-bit millisecond clock), failure in the middle (a startup, a
file copy or a notification that fails), signals (a handler that joins a
thread), and residue (one settings object for all loads). `PROJECT.json` lists
each hazard at its line with the properties that would catch it. The properties
that make each part correct:

- *shell*: no request and no scope change is lost, whatever the shell is doing;
  calls on the library are matched and torn down in order; cooldowns are
  honoured; no step delays a shutdown, and it completes; and to the services it looks like
  `RestartService`;
- *configuration*: after a load the settings are a function of this file alone,
  and the result says whether the file held an invalid value;
- *log files*: a rotation that fails or is interrupted loses no log that it
  need not lose, and never mixes up the order;
- *services*: every change that is watched for is acted upon, threads end
  before what they use goes away, and a stop completes;
- *command line*: whatever is started beside whatever, at most one process runs
  a broker, and the log is its log.

## The modules

| Module | What it is |
|---|---|
| `RestartService` | abstract specification of what the shell promises the services |
| `BrokerShell`, `MCBrokerShell`, `BrokerShellProofs` | the shell, the threads that act on it, the lock, the clock; configuration files for TLC; inductive invariant, theorems, refinement of `RestartService` |
| `ConfigLoad` | abstract specification of what a load promises the shell |
| `BrokerConfig`, `MCBrokerConfig`, `BrokerConfigProofs` | loading broker.conf; small files for TLC; theorems, refinement of `ConfigLoad` |
| `LogRotation`, `LogRotationProofs` | rotation on both platforms; theorems |
| `WinService`, `WinServiceProofs` | the Windows service around a `RestartService`; theorems, refinement of `RestartService` |
| `MacService`, `MCMacService`, `MacServiceProofs` | the macOS daemon composed with `BrokerShell`; theorems |
| `WinMain`, `WinMainProofs` | invocations of the Windows executable, the SCM and the log they share; theorems |

Definitions called *Mutant* in a comment are plausible mistakes in the code; a
property is kept only if such a mistake breaks it.

### RestartService

Three variables: the phase of the shell as its owner sees it, and the two
request flags. A request stays until a restart takes it; the file is read after
the taking and the broker is started after that; `Run` returns only when a
shutdown has been requested. The loop first looks at the shutdown flag and then
polls for a restart, in two steps (`Poll`, then `TakeRestart` or `NotYet`): a
shutdown that arrives between the two is seen only after one more restart, and
that is the only one. `BrokerShell` implements it under the mapping
`ShellPhase`, which is checked by the run `shell` and proved
(`ShellImplementsService`); `WinService` takes the shell's steps from it by
`INSTANCE`, and that all its other threads together still leave the shell a
`RestartService` is proved too (`WinImplementsService`).

### BrokerShell

One shell thread executes `Init`, `Run` and `Deinit`; `pc` says where it is and
every action is one stretch of code between two points at which another thread
can be noticed. `PollLock`/`TimeToRestartBroker` and
`ApplyLock`/`ApplySettingsChanges` are the critical sections; the same two
steps, after the call itself, make up `RequestRestart` (each member of
`Requesters`) and `HandleScopeChanged` (one callback of the library at a time,
possible until `broker_.Shutdown()` has returned). `AsyncShutdown` takes no
lock and writes `shutdown_requested_`, a plain `bool`, which the model reads and
writes as one value. A store that another thread sees late is the same as a
later call, and a call may come at any time; that a build might hoist the read
out of the loop in spite of the mutex calls in every round is outside the
model. Reading broker.conf is abstracted to what the shell makes of it: whether
the file opens, what `Read` returns, and the three settings the shell itself
looks at.

`restart_timer_` follows `etcpal::Timer`, which is not in this repository: the
elapsed time is known modulo `Wrap`. `Tick` lets a millisecond pass; `lag`
bounds the time between two polls (`MaxPollGap`), which the assumption
`ShellAssumption` puts below the wrap minus the longest cooldown (the loop
polls every 300 ms, the clock wraps after 49.7 days). Three history variables,
`unserved`, `quiet` and `asked_scope`, are written beside the code's variables
and read by properties only.

### BrokerConfig

A load is `LoadBrokerConfig`, the walk of `SetDefaults` over the validator
array, `Read`, which picks one of `Files` or fails to parse, and the walk of
`ValidateCurrent`, one entry at a time. A value has a JSON type; a text is a
name and a length, so that truncation shows; an integer is mathematical, and
`ToInt64` is the conversion to `int64_t` with the width `2 * Half`. The
properties compare the settings with `Admissible` and `Wanted`, which look at
this file only and state numbers by their mathematical value and texts by the
longest beginning that fits, apart from how the validators compute either. For
the remaining keys they use the validator itself: a table lookup (UUIDs, log
levels), a loop over elements, a Boolean. `SettingType` gives the values that
each field of the settings can hold; `TypeOK` demands one of them from the
moment `SetDefaults` first reaches the entry (before that, the log mask and
`enable_broker` are uninitialized). The object is reused by the next
load, so a residue of an earlier file would show.

`ConfigLoad` is the same from outside: a load begins, and it ends with one of
`Outcomes`. `ImplementsLoad` gives it, as `Outcomes`, each file with the result
and the settings that this file alone determines (`ResultOf`, `SettingsOf`, in
which even the CID that a default looks at is the file's own), and one more for
a stream that does not parse, with the settings of a file without any key. The
outcome thus contains the file, so that two loads of one file must end alike.
`BrokerShell` relies on it when it reads a file in one step.

### LogRotation

A file holds the log of a session, whole or not. `CopyBegin` truncates the
destination, `CopyEnd` completes it, `CopyFail` and `CopyRefused` are its two
ways to fail; `GoDown` stops everything at any point and `DeleteLog` removes a
file between two starts. The platforms differ in the scan (Windows returns
early without `broker.log`; macOS counts it as file 0) and in how the new log
is opened (on macOS a stream that does not open goes unnoticed). `before` and
`highest` remember the start of the rotation, and `clean` whether anything has
failed, been cut short or been deleted so far, for the properties. `TypeOK` has one
clause beyond the types: the source of a copy exists, which depends on the scan
having stopped at the first gap. That a failed
copy costs the latest log, which is then overwritten, is part of what
`FailureLosesOnlyLatest` states.

### WinService

Five threads and the SCM. The steps of the shell are those of
`RestartService`, together with what they read: the file, and the address
table when the broker is started. `broker.conf` and the address table are
counters of changes. The two notification mechanisms are modelled as Windows
documents them: the system records a change between the end of a wait and
`FindNextChangeNotification`, but a change while no `NotifyAddrChange` is
outstanding is not notified. `TakeRestart` does not happen between the request
of the address watcher and its next `NotifyAddrChange`: the request carries a
cooldown of five seconds, which `CooldownHonoured` of `BrokerShell` says is
respected, and the code in between is two system calls. The watchers look at
their stop flags where the code does, in the condition of their loops: a watcher
told to stop in the middle of a notification finishes it and does not wait
again. The SCM sends controls
to a service in `SERVICE_RUNNING` only. Both watchers are started in one step
(`SpawnWatchers`), and a thread that cannot be created is left out: what
the constructor of `etcpal::Thread` does then is the library's, and the code
does not look. Nobody waits for the thread of
`ServiceMain`. `ServiceOutlivesThreads` therefore says of it that it has
returned when the process ends, or has still to report `SERVICE_RUNNING` after
a `Run` that failed at once, the race that `win_status_race` shows. An exception thrown by `ServiceMain`
ends the process (`RegisterFails`).

### MacService

`MacService` extends `BrokerShell`: the shell's thread and the library's thread
are the ones specified there, started by the daemon's main thread, which is the
only requester. `main` walks the main thread through `main()` and
`BrokerService::Run`; `handler` walks the SIGTERM handler through
`AsyncShutdown`, call by call. The handler executes on the main thread, so that
no step of the main thread happens while the handler is at work. Assumptions
about the system: launchd sends SIGTERM once and it is delivered on the main
thread; before the handler is installed it kills the process; `CFRunLoopStop`
stops a run of the loop that is executing and is not remembered for a later
one; joining a thread that was never started returns at once; a network change
is queued for a registered observer and delivered by the run loop. `net_stale`
is a history variable: an observed change that no start of the broker has
followed.

### WinMain

Each process is one invocation, with one of the options, started from a console
or by the SCM. Every one of them first executes `BrokerShell::Init`, that is,
rotates the logs and opens `broker.log` with `_SH_DENYWR`, and only then looks
at its option; that order is what the properties are about. Once past `Init` a
process installs, removes, prints its usage or runs the broker; the destructor
of the OS interface closes the log when it ends, or the system does when it is
killed (`Kill`, at any point). The SCM is external: it
starts an installed service once, accepts a stop in `SERVICE_RUNNING` only, and
forgets a deleted service when its process has gone. `OsFails` says whether
calls may fail for reasons of their own, `ControlService` and
`QueryServiceStatus` included. `TypeOK` ties each place to the option that
leads there: a broker is run by a debug session or in the process the SCM has
started, and nothing else than `-remove` gets to the removal. Two facts met while modelling that are
not properties: `-version` falls through to the usage and returns
`EXIT_FAILURE`, because its `if` is not part of the `else if` chain below it;
and every invocation that fails in `Init` has already rotated the logs of the
running service.

## The runs

| Run | Checks | Shows |
|---|---|---|
| `shell` | seven invariants, `CooldownHonoured`, `Implements`, `ShutdownProgress`, `ShutdownCompletes`, `RequestsServed` | one requester, cooldowns 0 and 2, wrap 5, a good file and one that does not open, under `FairSpec` |
| `config` | five invariants, `ImplementsLoad` | some 1,090 files loaded one after the other: settings that depend on each other, and the ends of every range |
| `log_rotation` | six invariants | both platforms, three backup files, five sessions |
| `win_service` | six invariants, `StopProgress`, `AddrChangesServed`, `StopCompletes` | two changes of broker.conf and three of the address table, under `FairSpec` |
| `mac_service` | three invariants, `TermInLoopCompletes` | the daemon with the whole shell, any number of network changes, a SIGTERM at any point, under `MacFairSpec` |
| `win_main` | three invariants | three invocations, any options, failing calls and kills |

Some properties come in pairs, because liveness under fairness cannot be
proved. `ShutdownProgress` ranks the places of the shell's thread
(`StepsLeft`) and says that after `AsyncShutdown` every step goes down, whatever
the other threads do: it fails, for instance, if the flag counts only when no
restart is pending. `StopProgress` does the same for `ServiceThread` and for each
watcher. What `ShutdownCompletes` and `StopCompletes` add is that the steps are
taken. `WaitsAnswered` is about the other way not to end, waiting for something
nobody asked for: each join, and each wait for a handle, is for a thread that
exists and has been told to end, also when `Run` has failed. `NumberedByAge` is the README's account of the
log files: file *k* holds the whole log of the *k*-th session before this one
as long as `clean` holds. A scan that stops one file short breaks it and keeps
all the other properties of `LogRotation`, which follow single rotations.

The largest run that passes is `log_rotation` (about 650,000 distinct states,
10 seconds); the longest are `shell` (167,000 states, a minute and a half) and
`win_service` (350,000 states, 50 seconds).

Six runs end in a counterexample: each states what a document or a comment
says and shows a behaviour of the code that differs.

- `shell_starvation`: network changes that keep coming within the cooldown
  postpone every restart, although README.md has the service restart
  immediately when broker.conf changes.
- `shell_scope_race`: a scope change that arrives while a restart is under way
  is applied by it and undone by the restart that the change itself requested.
- `win_config_gap`: a change between the load in `Init` and the start of the
  watch is missed.
- `win_status_race`: `SERVICE_RUNNING` may be reported after `SERVICE_STOPPED`.
- `mac_sigterm`: a SIGTERM between `signal()` and the run of the loop stops no
  loop; the shell ends, the main thread enters `CFRunLoopRun` and stays there.
  (Also, a SIGTERM that interrupts a callback which holds `lock_` joins a
  thread that waits for it.) `TermInLoopCompletes` is what does hold.
- `win_remove`: `-remove` while the service runs fails in `Init`, because the
  service has `broker.log` open, and neither stops nor removes anything.
  `RemoveFindsStopped` is the other side of it: where `UninstallService` is
  reached, there is no running service to stop.

### Bounds

In `shell` one requester, the shell and the library are three contenders for
the lock; the cooldowns 0 and 2 give a shorter one during a longer one; a wrap
of 5 is the smallest that satisfies `ShellAssumption` with a gap of 2, so the
clock wraps often. Three backup files give a first, a middle and a last one,
and five sessions fill and overflow them. In `BrokerConfig` the widths are
scaled down (int64_t to 6 bits) with their order kept, and the values are the
ends of each range and their outer neighbours. In `WinService` one change
arrives while another is being served, and a third shows whether the watcher
still hears. Three processes in `WinMain` are a service, one that replaces it
or a debug session, and a command. The proofs need none of these bounds.

### Fairness

`BrokerShell!Fairness`: the shell's thread, the holders of `lock_` and the
clock go on (weak fairness); a thread that waits for `lock_` gets it if it is
released again and again (strong fairness: critical sections last a few
instructions, and the watchers wait 200 ms between two calls); and the library
sooner or later stops making callbacks while it is being shut down (strong
fairness of `BrokerStopped`). No request, callback or shutdown is assumed.
`MacService!MacFairness` is the same for the shell, and the main thread and the
handler go on where they can; no signal and no network change is assumed.
`WinService!Fairness`: every thread that can go on goes on (weak fairness); no
wait has to fail, nobody has to stop the service. A request that is found at
poll after poll is taken at one of them (strong fairness of `TakeRestart`,
which stands for the expiry of the timer: `RequestsServed` of `BrokerShell`
says when, and in `WinService` the changes that start the timer again are
bounded).

Deadlock is checked in the runs of `BrokerShell`, `BrokerConfig` and
`LogRotation`. In those of `WinService`, `MacService` and `WinMain` the
processes end, after which there is no step.

## The proofs

All theorems hold for every value of the constants that satisfies the module's
`ASSUME`. Each proof module defines an inductive invariant as a conjunction of
named parts, proves that every action keeps each part, and derives the theorems
from it.

- `BrokerShellProofs`. `NoRequestLost`, `ScopeChangePending` and
  `SettingsInEffect` are themselves parts of `IInv`. `CallsMatched` needs to
  know in every phase how `enable_broker` and the broker relate (`BrokerInv`),
  since a failed startup and a reload both change the flag. `CooldownHonoured`
  is an action property; it follows from `CooldownInv`, which says that the
  remaining time of the timer is at least the time for which past requests
  forbid a restart, and that the timer cannot wrap before the next poll.
  `HolderReleases` is the lock's part of `IInv` (`LockInv`).
  `ShellImplementsService` maps every step to a step of `RestartService` or a
  stutter; it needs one more invariant, that the shell is on its way out of
  `Run` only if a shutdown has been requested. `ShutdownMakesProgress` goes
  through the steps of the shell's thread and needs only the types.
- `BrokerConfigProofs`. `IntegersExact` and `UidsExact`: for every width and
  limit the range check on the converted number decides what the documentation
  says of the number itself; `TextsExact`: a text is cut exactly to what fits,
  or refused. On these rests the invariant of the two walks:
  the entries behind the walk hold what they should (`DefaultsBehind` for the
  first, `FileBehind` for the second), the list of interfaces is empty until
  the walk reaches it (`ListEmpty`), and the result so far tells whether an
  entry behind was refused (`VerdictBehind`). An entry's default and its wanted
  value depend on no other entry but the CID, which comes first
  (`DefaultLocal`, `WantedLocal`), so later steps do not disturb earlier ones.
  `TypeCorrect` adds the types of the settings: a default (`DefaultTyped`) and
  what an accepted value is stored as (`StoredTyped`) have the type of their
  setting, and a step of a walk stores one of the two (`StoreTyped`). It needs
  `FilesAssumption`, which says what the JSON parser delivers for each type.
  `ConfigImplementsLoad`: the settings at the end follow the file and the CID
  among them does so too, hence they are `SettingsOf` the file
  (`SettingsAreOfFile`); the defaults are those of an empty file
  (`NothingMeansDefaults`); every other step is a stutter of `ConfigLoad`.
- `LogRotationProofs`. `ShapeInv` says which files have moved at each point of
  the loop and which have not, `GapInv` that all files below the first gap
  exist, `SessionInv` that no log is from the future; age order, crash safety
  and the effect of a rotation follow. `NumberedInv` says at each point of a
  clean rotation which files already have their new number, in terms of
  `before`; `AgeExists` (the files that exist are exactly those of past
  sessions, so the scan finds all of them) and `AgeShifts` (what was number *k*
  before the start is number *k + 1* after it) carry it from start to start.
- `WinServiceProofs`. `ThreadInv` ties the phases of the threads together,
  `StatusInv` what the SCM has been told and how far `ServiceMain` is then, and `ArmedInv` says that a waiting
  address watcher has a notification outstanding or its event set, and that
  between the two it has a restart requested; so a change that is not notified
  is covered by a restart still to come. `WaitsAnswered` is inductive with
  `ThreadInv`, and `StopMakesProgress` follows from both action by action.
  `WinImplementsService` maps each step to one of the shell's or a stutter.
- `MacServiceProofs`. `MacImplementsShell` shows that every step of the daemon
  is a step of `BrokerShell` or leaves its variables alone, so that all of the
  shell's theorems, `Implements` among them, hold in the daemon. `MainInv` says
  what has happened when the main thread is at each place, `HandlerInv` that only
  a handler past `CFRunLoopStop` has stopped the loop, and that a
  loop stopped by the handler is left only after the join; `DeinitAfterRun`
  follows. `NetChangeKept` is inductive with them, and so is `TermAnswered`: when the
  handler joins the shell's thread, the shell has been told to shut down, and
  the loop that the handler interrupted will not go on.
  `MacShutdownMakesProgress` is the shell's theorem carried over by the
  refinement.
- `WinMainProofs`. `LogInv`: exactly the process past `Init` has `broker.log`
  open, and its log is in it; `ScmInv`: the service is a process without
  options that has not left its dispatcher. `OneBrokerOneLog` follows from the
  first, `RemoveFindsStopped` from both, since a service can be running only in
  a process that holds the log.

Only model-checked: the liveness properties (`ShutdownCompletes`,
`RequestsServed`, `AddrChangesServed`, `StopCompletes`,
`TermInLoopCompletes`), because the prover does not handle fairness. For a
shutdown and a stop the safety half is proved, as said above: the ranks that
only go down, and that nobody waits unasked. Missing is that each thread takes
its next step, which is the fairness itself, and that it can take it
(`ENABLED`). For `RequestsServed` and `AddrChangesServed` it is proved that the
request or the change is not forgotten.

## Not modelled

- The RDMnet library beyond start, stop and the scope callback; the JSON parser
  (a file parses or not). Only `json::parse_error` is caught by `Read`: what a
  lookup throws for a value of an unexpected shape depends on the version of
  the JSON library, which is not in the repository.
- The logger's own lock, which the macOS signal handler takes when it logs.
- In the Windows service the exception handlers of `Start`, `Stop` and
  `Shutdown` (nothing in their `try` blocks throws) and the event log.
- The service's description and failure actions, log messages, time stamps,
  locations of directories, `PrintVersion`, the assertion helper, the version
  header, installers and build files. They hold no state that another part
  reads.

## Plan

Done, in this order: the shell, the configuration, the log files, the Windows
service and their proofs; then `RestartService` and its refinement, the macOS
daemon, the Windows command line, the proofs of the configuration's walks and
of the new modules; then the proofs of progress and of answered waits, the
numbering of the logs, and `ConfigLoad` and its refinement. Every operation of the repository that changes state is an
action of a module, except the ones named above. What could still be added:

1. a composition of `WinMain` with `WinService`, in which the process that runs
   the service is the one of `WinService`;
2. the failure actions of the SCM (restart after five seconds), which would let
   `WinMain` say that a service that fails is started again.
