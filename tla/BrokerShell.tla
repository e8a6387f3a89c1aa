----------------------------- MODULE BrokerShell -----------------------------
(***************************************************************************)
(* BrokerShell (src/core/broker_shell.{h,cpp}): the platform-neutral       *)
(* driver of the RDMnet broker library.  One thread, the shell, executes   *)
(* Init, Run and Deinit; Run starts the broker, polls for a shutdown or a  *)
(* restart request, and restarts the broker with a freshly read            *)
(* configuration file.  Three kinds of other threads act on it:            *)
(*   - Requesters call RequestRestart (the address-change and the          *)
(*     configuration-change watchers of the platform services);            *)
(*   - a thread of the broker library calls HandleScopeChanged;            *)
(*   - the platform's control thread calls AsyncShutdown.                  *)
(* lock_ guards restart_timer_, restart_requested_ and new_scope_.  It is  *)
(* modelled by explicit acquire and release steps, because broker_         *)
(* .Shutdown() waits for the library thread, which may itself be waiting   *)
(* for lock_.  shutdown_requested_ is a plain bool that is read and        *)
(* written without the lock; its loop re-reads it after opaque calls, so   *)
(* a read returns the value before or after a concurrent write, which is   *)
(* what interleaving gives.                                                *)
(***************************************************************************)
EXTENDS Naturals

CONSTANTS
  Requesters,   \* threads that call RequestRestart
  Cooldowns,    \* the cooldown_ms values they pass, in clock ticks
  Wrap,         \* etcpal_getms() counts modulo Wrap (2^32 in the build)
  MaxPollGap,   \* most ticks between two polls of the Run loop
  Scopes,       \* scopes a configuration file or a controller can name
  DefaultScope, \* E133_DEFAULT_SCOPE
  LogMasks,     \* log masks a configuration file can select
  DefaultMask,  \* ETCPAL_LOG_UPTO(ETCPAL_LOG_INFO)
  ConfFiles     \* what broker.conf can hold when it is read

ParseResult == {"kJsonParseErr", "kInvalidSetting", "kOk"}

\* A configuration file as LoadBrokerConfig sees it: whether it opens, what
\* Read returns for it, and the settings Read then leaves behind.
ConfFile == [opens: BOOLEAN, result: ParseResult, enable_broker: BOOLEAN,
             scope: Scopes, log_mask: LogMasks]

ASSUME ShellAssumption ==
  /\ Requesters \cap {"free", "shell", "lib"} = {}
  /\ Wrap \in Nat
  /\ MaxPollGap \in Nat
  /\ Cooldowns \subseteq Nat
  /\ 0 \in Cooldowns
  /\ \A d \in Cooldowns : d + MaxPollGap < Wrap
  /\ "" \notin Scopes
  /\ DefaultScope \in Scopes
  /\ DefaultMask \in LogMasks
  /\ ConfFiles \subseteq ConfFile

VARIABLES
  pc,                  \* where the shell thread is
  ready_to_run_,
  log_,                \* "on" between log_.Startup and log_.Shutdown
  rdmnet,              \* "on" between rdmnet::Init and rdmnet::Deinit
  startup_broker,      \* the local of Run
  broker_config_,
  log_mask,            \* the mask given to log_.SetLogMask
  broker_,             \* the library's broker: "down", "up" or "stopping"
  running_scope,       \* the scope in the settings last given to Startup
  lock_,               \* "free", "shell", "lib" or the requester holding it
  restart_timer_,
  restart_requested_,
  shutdown_requested_,
  new_scope_,
  req_pc,              \* each requester: outside, waiting for or in lock_
  req_ms,              \* the cooldown_ms of the call each one is making, or 0
  cb_pc,               \* the same for the library's scope callback
  cb_scope,            \* its new_scope argument, or DefaultScope
  conf_file,           \* what broker.conf holds now
  lag,                 \* ticks since the last poll
  \* History variables, read by no action:
  unserved,            \* a restart was requested and no load has followed
  quiet,               \* ticks during which a past request forbids a restart
  asked_scope          \* the scope asked for by the latest request, if any

setupVars == <<ready_to_run_, log_, rdmnet>>
configVars == <<broker_config_, log_mask>>
brokerVars == <<broker_, running_scope>>
\* What only the shell's thread assigns,
shellVars == <<pc, setupVars, startup_broker, configVars, brokerVars>>
\* what lock_ guards,
requestVars == <<restart_timer_, restart_requested_, new_scope_>>
reqVars == <<req_pc, req_ms>>
cbVars == <<cb_pc, cb_scope>>
\* and what the shell's thread never assigns.
otherVars == <<shutdown_requested_, reqVars, cbVars, conf_file>>
historyVars == <<unserved, quiet, asked_scope>>
vars == <<shellVars, lock_, requestVars, otherVars, lag, historyVars>>

-----------------------------------------------------------------------------
(***************************************************************************)
(* etcpal::Timer, as the shell uses it.  The library keeps the start time  *)
(* and subtracts it from the 32-bit millisecond clock, so the elapsed time *)
(* is known modulo Wrap only.                                              *)
(***************************************************************************)
Timer == [interval: Cooldowns, elapsed: Nat]

\* Mutant: the timer counts as expired in its last millisecond only.
ExpiredExactly == restart_timer_.elapsed = restart_timer_.interval

IsExpired == \/ restart_timer_.interval = 0
             \/ restart_timer_.elapsed > restart_timer_.interval

GetRemaining == IF restart_timer_.elapsed < restart_timer_.interval
                THEN restart_timer_.interval - restart_timer_.elapsed
                ELSE 0

StartTimer(ms) == restart_timer_' = [interval |-> ms, elapsed |-> 0]

NextElapsed == IF restart_timer_.elapsed + 1 >= Wrap
               THEN 0
               ELSE restart_timer_.elapsed + 1

-----------------------------------------------------------------------------
(***************************************************************************)
(* LoadBrokerConfig: the defaults, overwritten by what Read accepts.  A    *)
(* file that does not open reads as an empty stream, which is a JSON parse *)
(* error.  A parse error leaves the defaults and disables the broker.      *)
(***************************************************************************)
BrokerConfig == [enable_broker: BOOLEAN, scope: Scopes, log_mask: LogMasks]

SetDefaults == [enable_broker |-> TRUE, scope |-> DefaultScope,
                log_mask |-> DefaultMask]

ReadResult(file) == IF file.opens THEN file.result ELSE "kJsonParseErr"

FileSettings(file) ==
  [enable_broker |-> file.enable_broker, scope |-> file.scope,
   log_mask |-> file.log_mask]

ReadAccepts(file) == ReadResult(file) \in {"kOk", "kInvalidSetting"}

\* Mutant: a parse error leaves settings that were never given defaults.
LoadWithoutDefaults(file) ==
  IF ReadAccepts(file) THEN FileSettings(file)
  ELSE [enable_broker |-> FALSE, scope |-> "", log_mask |-> DefaultMask]

LoadBrokerConfig(file) ==
  IF ReadAccepts(file) THEN FileSettings(file)
  ELSE [SetDefaults EXCEPT !.enable_broker = FALSE]

-----------------------------------------------------------------------------
Init ==
  /\ pc = "init"
  /\ ready_to_run_ = FALSE
  /\ log_ = "off"
  /\ rdmnet = "off"
  /\ startup_broker = FALSE
  /\ broker_config_ = SetDefaults
  /\ log_mask = DefaultMask
  /\ broker_ = "down"
  /\ running_scope = DefaultScope
  /\ lock_ = "free"
  /\ restart_timer_ = [interval |-> 0, elapsed |-> 0]
  /\ restart_requested_ = FALSE
  /\ shutdown_requested_ = FALSE
  /\ new_scope_ = ""
  /\ req_pc = [t \in Requesters |-> "idle"]
  /\ req_ms = [t \in Requesters |-> 0]
  /\ cb_pc = "idle"
  /\ cb_scope = DefaultScope
  /\ conf_file \in ConfFiles
  /\ lag = 0
  /\ unserved = FALSE
  /\ quiet = 0
  /\ asked_scope = ""

-----------------------------------------------------------------------------
(***************************************************************************)
(* The shell's thread.                                                     *)
(***************************************************************************)
Go(from, to) == pc = from /\ pc' = to

\* A step of the shell's thread that changes nothing but its place.
Pass(from, to) ==
  /\ Go(from, to)
  /\ UNCHANGED <<setupVars, startup_broker, configVars, brokerVars, lock_,
                 requestVars, otherVars, lag, historyVars>>

\* etcpal::MutexGuard guard(lock_)
Acquire(thread) == lock_ = "free" /\ lock_' = thread

Release == lock_' = "free"

(***************************************************************************)
(* BrokerShell::Init: the log file opens, the logger starts, the           *)
(* configuration is read; or one of the first two fails and nothing is     *)
(* ready.                                                                  *)
(***************************************************************************)
InitShell ==
  /\ Go("init", "run")
  /\ \/ /\ log_' = "on"
        /\ broker_config_' = LoadBrokerConfig(conf_file)
        /\ log_mask' = LoadBrokerConfig(conf_file).log_mask
        /\ ready_to_run_' = TRUE
     \/ UNCHANGED <<log_, ready_to_run_, configVars>>
  /\ UNCHANGED <<rdmnet, startup_broker, brokerVars, lock_, requestVars,
                 otherVars, lag, historyVars>>

\* Run gives up unless Init succeeded and rdmnet::Init does.
RunEnter ==
  /\ ready_to_run_
  /\ Go("run", "top")
  /\ rdmnet' = "on"
  /\ startup_broker' = TRUE
  /\ UNCHANGED <<ready_to_run_, log_, configVars, brokerVars, lock_,
                 requestVars, otherVars, lag, historyVars>>

RunFails == Pass("run", "returned")

\* Mutant: a failed startup leaves enable_broker set.
FailureIgnored == broker_config_

\* A startup that fails leaves the broker disabled, so that no Shutdown is
\* ever sent to a broker that is not running.
StartupFailed == [broker_config_ EXCEPT !.enable_broker = FALSE]

(***************************************************************************)
(* The top of the loop: start the broker if a start is due and the         *)
(* configuration enables it.                                               *)
(***************************************************************************)
LoopTop ==
  /\ Go("top", "check")
  /\ startup_broker' = FALSE
  /\ \/ /\ startup_broker
        /\ broker_config_.enable_broker
        /\ \/ /\ broker_' = "up"
              /\ running_scope' = broker_config_.scope
              /\ UNCHANGED broker_config_
           \/ /\ broker_config_' = StartupFailed
              /\ UNCHANGED brokerVars
     \/ /\ ~(startup_broker /\ broker_config_.enable_broker)
        /\ UNCHANGED <<broker_config_, brokerVars>>
  /\ UNCHANGED <<setupVars, log_mask, lock_, requestVars, otherVars, lag,
                 historyVars>>

\* Mutants: a pending restart goes before a shutdown; a shell whose broker is
\* disabled leaves its loop.
ExitUnlessRestart == shutdown_requested_ /\ ~restart_requested_
ExitWhenDisabled == shutdown_requested_ \/ ~broker_config_.enable_broker

ExitDue == shutdown_requested_

\* The loop looks at shutdown_requested_ before it asks for a restart.
CheckShutdown == \/ ExitDue /\ Pass("check", "exit")
                 \/ ~ExitDue /\ Pass("check", "poll")

PollLock ==
  /\ Go("poll", "poll_cs")
  /\ Acquire("shell")
  /\ UNCHANGED <<setupVars, startup_broker, configVars, brokerVars,
                 requestVars, otherVars, lag, historyVars>>

\* Mutant: the lock is not released on the path that returns true.
TakeKeepsLock ==
  /\ restart_requested_ /\ IsExpired
  /\ Go("poll_cs", "restart")
  /\ restart_requested_' = FALSE
  /\ UNCHANGED lock_

TakeRequest ==
  /\ restart_requested_ /\ IsExpired
  /\ Go("poll_cs", "restart")
  /\ restart_requested_' = FALSE
  /\ Release

NotYet ==
  /\ ~(restart_requested_ /\ IsExpired)
  /\ Go("poll_cs", "sleep")
  /\ Release
  /\ UNCHANGED restart_requested_

(***************************************************************************)
(* TimeToRestartBroker, with lock_ held: take the request if its cooldown  *)
(* is over.                                                                *)
(***************************************************************************)
TimeToRestartBroker ==
  /\ TakeRequest \/ NotYet
  /\ lag' = 0
  /\ UNCHANGED <<setupVars, startup_broker, configVars, brokerVars,
                 restart_timer_, new_scope_, otherVars, historyVars>>

\* Mutant: only a restart shuts the broker down, the way out of Run does not.
ShutdownOnRestart == broker_config_.enable_broker /\ pc = "restart"

ShutdownDue == broker_config_.enable_broker

(***************************************************************************)
(* broker_.Shutdown(), on a restart and on the way out of Run, where the   *)
(* configuration enables the broker: it begins here and returns in         *)
(* BrokerStopped, once the library's thread is out of the callback.        *)
(***************************************************************************)
ShutdownBroker ==
  \/ /\ ShutdownDue
     /\ Go("restart", "stopping") \/ Go("exit", "exit_stopping")
     /\ broker_' = "stopping"
     /\ UNCHANGED <<setupVars, startup_broker, configVars, running_scope,
                    lock_, requestVars, otherVars, lag, historyVars>>
  \/ /\ ~ShutdownDue
     /\ Pass("restart", "load") \/ Pass("exit", "deinit")

BrokerStopped ==
  /\ Go("stopping", "load") \/ Go("exit_stopping", "deinit")
  /\ cb_pc = "idle"
  /\ broker_' = "down"
  /\ UNCHANGED <<setupVars, startup_broker, configVars, running_scope, lock_,
                 requestVars, otherVars, lag, historyVars>>

\* The restart reads the configuration file again.
ReloadConfig ==
  /\ Go("load", "apply")
  /\ broker_config_' = LoadBrokerConfig(conf_file)
  /\ unserved' = FALSE
  /\ UNCHANGED <<setupVars, startup_broker, log_mask, brokerVars, lock_,
                 requestVars, otherVars, lag, quiet, asked_scope>>

ApplyLock ==
  /\ Go("apply", "apply_cs")
  /\ Acquire("shell")
  /\ UNCHANGED <<setupVars, startup_broker, configVars, brokerVars,
                 requestVars, otherVars, lag, historyVars>>

\* Mutant: the log mask of the new file is not applied.
KeepLogMask == UNCHANGED log_mask

SetLogMask == log_mask' = broker_config_.log_mask

\* Mutant: the end of a restart clears the request flag.
TakeScopeAndRequest == new_scope_' = "" /\ restart_requested_' = FALSE

TakeScope == new_scope_' = "" /\ UNCHANGED restart_requested_

(***************************************************************************)
(* ApplySettingsChanges, with lock_ held: the new log mask, and the scope  *)
(* a controller asked for in place of the file's.                          *)
(***************************************************************************)
ApplySettingsChanges ==
  /\ Go("apply_cs", "sleep")
  /\ startup_broker' = TRUE
  /\ Release
  /\ SetLogMask
  /\ broker_config_' = IF new_scope_ # ""
                       THEN [broker_config_ EXCEPT !.scope = new_scope_]
                       ELSE broker_config_
  /\ TakeScope
  /\ UNCHANGED <<setupVars, brokerVars, restart_timer_, otherVars, lag,
                 historyVars>>

\* etcpal_thread_sleep(300)
Sleep == Pass("sleep", "top")

RdmnetDeinit ==
  /\ Go("deinit", "returned")
  /\ rdmnet' = "off"
  /\ UNCHANGED <<ready_to_run_, log_, startup_broker, configVars, brokerVars,
                 lock_, requestVars, otherVars, lag, historyVars>>

(***************************************************************************)
(* BrokerShell::Deinit.  The services call it after Run has returned, or   *)
(* was never called, and when the threads that request restarts are gone.  *)
(***************************************************************************)
Deinit ==
  /\ Go("returned", "done") \/ Go("run", "done")
  /\ \A t \in Requesters : req_pc[t] = "idle"
  /\ log_' = IF ready_to_run_ THEN "off" ELSE log_
  /\ UNCHANGED <<ready_to_run_, rdmnet, startup_broker, configVars, brokerVars,
                 lock_, requestVars, otherVars, lag, historyVars>>

-----------------------------------------------------------------------------
(***************************************************************************)
(* The other threads.                                                      *)
(***************************************************************************)
\* Mutant: every request starts the timer, also with a shorter cooldown.
Always(cooldown_ms) == TRUE

\* A cooldown only ever prolongs the one in force.
Prolongs(cooldown_ms) == cooldown_ms > GetRemaining

LockedRequestRestart(cooldown_ms) ==
  /\ restart_requested_' = TRUE
  /\ \/ Prolongs(cooldown_ms) /\ StartTimer(cooldown_ms)
     \/ ~Prolongs(cooldown_ms) /\ UNCHANGED restart_timer_
  /\ unserved' = TRUE
  /\ quiet' = IF cooldown_ms > quiet THEN cooldown_ms ELSE quiet

\* The services run while Init has succeeded and Deinit has not been called.
Serving == pc \notin {"init", "done"} /\ ready_to_run_

\* RequestRestart(cooldown_ms): the call, the lock, the body.
RequestRestart(t, cooldown_ms) ==
  /\ Serving
  /\ req_pc[t] = "idle"
  /\ req_pc' = [req_pc EXCEPT ![t] = "wait"]
  /\ req_ms' = [req_ms EXCEPT ![t] = cooldown_ms]
  /\ UNCHANGED <<shellVars, lock_, requestVars, shutdown_requested_, cbVars,
                 conf_file, lag, historyVars>>

RequestLock(t) ==
  /\ req_pc[t] = "wait"
  /\ Acquire(t)
  /\ req_pc' = [req_pc EXCEPT ![t] = "cs"]
  /\ UNCHANGED <<shellVars, requestVars, shutdown_requested_, req_ms, cbVars,
                 conf_file, lag, historyVars>>

RequestBody(t) ==
  /\ req_pc[t] = "cs"
  /\ LockedRequestRestart(req_ms[t])
  /\ asked_scope' = ""
  /\ Release
  /\ req_pc' = [req_pc EXCEPT ![t] = "idle"]
  /\ req_ms' = [req_ms EXCEPT ![t] = 0]
  /\ UNCHANGED <<shellVars, new_scope_, shutdown_requested_, cbVars, conf_file,
                 lag>>

(***************************************************************************)
(* HandleScopeChanged(new_scope): called by a thread of the library at any *)
(* time before broker_.Shutdown() has returned.                            *)
(***************************************************************************)
HandleScopeChanged(scope) ==
  /\ broker_ \in {"up", "stopping"}
  /\ cb_pc = "idle"
  /\ cb_pc' = "wait"
  /\ cb_scope' = scope
  /\ UNCHANGED <<shellVars, lock_, requestVars, shutdown_requested_, reqVars,
                 conf_file, lag, historyVars>>

ScopeLock ==
  /\ cb_pc = "wait"
  /\ Acquire("lib")
  /\ cb_pc' = "cs"
  /\ UNCHANGED <<shellVars, requestVars, shutdown_requested_, reqVars,
                 cb_scope, conf_file, lag, historyVars>>

\* Mutant: the new scope is kept but no restart is requested.
ScopeOnly == UNCHANGED <<restart_timer_, restart_requested_, unserved, quiet>>

RequestForScope == LockedRequestRestart(0)

ScopeBody ==
  /\ cb_pc = "cs"
  /\ new_scope_' = cb_scope
  /\ RequestForScope
  /\ asked_scope' = cb_scope
  /\ Release
  /\ cb_pc' = "idle"
  /\ cb_scope' = DefaultScope
  /\ UNCHANGED <<shellVars, shutdown_requested_, reqVars, conf_file, lag>>

\* AsyncShutdown: no lock is taken.
AsyncShutdown ==
  /\ Serving
  /\ shutdown_requested_' = TRUE
  /\ UNCHANGED <<shellVars, lock_, requestVars, reqVars, cbVars, conf_file,
                 lag, historyVars>>

\* Somebody writes broker.conf.
WriteConfFile(file) ==
  /\ conf_file' = file
  /\ UNCHANGED <<shellVars, lock_, requestVars, shutdown_requested_, reqVars,
                 cbVars, lag, historyVars>>

\* A millisecond passes.  The loop polls far more often than the clock wraps.
Tick ==
  /\ lag < MaxPollGap
  /\ lag' = lag + 1
  /\ restart_timer_' = [restart_timer_ EXCEPT !.elapsed = NextElapsed]
  /\ quiet' = IF quiet > 0 THEN quiet - 1 ELSE 0
  /\ UNCHANGED <<shellVars, lock_, restart_requested_, new_scope_, otherVars,
                 unserved, asked_scope>>

-----------------------------------------------------------------------------
Run == \/ RunEnter \/ RunFails \/ LoopTop \/ CheckShutdown
       \/ PollLock \/ TimeToRestartBroker
       \/ ShutdownBroker \/ BrokerStopped
       \/ ReloadConfig \/ ApplyLock \/ ApplySettingsChanges
       \/ Sleep \/ RdmnetDeinit

Shell == InitShell \/ Run \/ Deinit

Requester(t) == \/ \E cooldown_ms \in Cooldowns : RequestRestart(t, cooldown_ms)
                \/ RequestLock(t)
                \/ RequestBody(t)

Library == \/ \E scope \in Scopes : HandleScopeChanged(scope)
           \/ ScopeLock
           \/ ScopeBody

Environment == \/ AsyncShutdown
               \/ \E file \in ConfFiles : WriteConfFile(file)
               \/ Tick

Next == \/ Shell
        \/ \E t \in Requesters : Requester(t)
        \/ Library
        \/ Environment

Spec == Init /\ [][Next]_vars

(***************************************************************************)
(* Threads that can take a step take it; time passes; and a thread that    *)
(* waits for lock_ gets it if the lock is released again and again (every  *)
(* holder keeps it for a few instructions, and the watchers go back to a   *)
(* wait between two calls).  A library that has been told to shut down     *)
(* stops making callbacks sooner or later, so that a moment without one    *)
(* is not missed for ever.  Nobody has to request anything.                *)
(***************************************************************************)
Fairness ==
  /\ WF_vars(Shell)
  /\ SF_vars(PollLock)
  /\ SF_vars(ApplyLock)
  /\ SF_vars(BrokerStopped)
  /\ \A t \in Requesters : SF_vars(RequestLock(t)) /\ WF_vars(RequestBody(t))
  /\ SF_vars(ScopeLock)
  /\ WF_vars(ScopeBody)
  /\ WF_vars(Tick)

FairSpec == Spec /\ Fairness
-----------------------------------------------------------------------------
(***************************************************************************)
(* Properties.                                                             *)
(***************************************************************************)

\* The types of the variables of the shell's thread.
ShellTypeOK ==
  /\ pc \in {"init", "run", "top", "check", "poll", "poll_cs", "restart",
             "stopping", "load", "apply", "apply_cs", "sleep", "exit",
             "exit_stopping", "deinit", "returned", "done"}
  /\ ready_to_run_ \in BOOLEAN
  /\ log_ \in {"off", "on"}
  /\ rdmnet \in {"off", "on"}
  /\ startup_broker \in BOOLEAN
  /\ broker_config_ \in BrokerConfig
  /\ log_mask \in LogMasks
  /\ broker_ \in {"down", "up", "stopping"}
  /\ running_scope \in Scopes

\* The types of what the threads share and of the requesters' variables.
RequestTypeOK ==
  /\ lock_ \in {"free", "shell", "lib"} \cup Requesters
  /\ restart_timer_ \in Timer
  /\ restart_requested_ \in BOOLEAN
  /\ shutdown_requested_ \in BOOLEAN
  /\ new_scope_ \in Scopes \cup {""}
  /\ req_pc \in [Requesters -> {"idle", "wait", "cs"}]
  /\ req_ms \in [Requesters -> Cooldowns]

\* The types of the other variables.
OtherTypeOK ==
  /\ cb_pc \in {"idle", "wait", "cs"}
  /\ cb_scope \in Scopes
  /\ conf_file \in ConfFiles
  /\ lag \in 0..MaxPollGap
  /\ unserved \in BOOLEAN
  /\ quiet \in Nat
  /\ asked_scope \in Scopes \cup {""}

\* The type invariant: the configuration is well-formed whatever the file
\* holds, and the timer's interval is one of the cooldowns asked for.
TypeOK == ShellTypeOK /\ RequestTypeOK /\ OtherTypeOK

\* Run never starts a broker that is already running and never shuts down
\* one that is not, although between the two calls enable_broker is cleared
\* by a failed startup and rewritten by every reload of the file.
CallsMatched ==
  /\ pc = "top" /\ startup_broker => broker_ = "down"
  /\ pc \in {"restart", "exit"} =>
       (broker_config_.enable_broker <=> broker_ = "up")

\* Teardown is in the reverse order of setup whatever the path out of Run:
\* the library outlives its broker, the logger outlives the library, no
\* callback runs once the broker is down, and no requester is inside
\* RequestRestart when Deinit has shut the logger down.
TornDownInOrder ==
  /\ broker_ # "down" => rdmnet = "on"
  /\ rdmnet = "on" => log_ = "on"
  /\ cb_pc # "idle" => broker_ # "down"
  /\ pc \in {"returned", "done"} => rdmnet = "off"
  /\ pc = "done" => log_ = "off" /\ \A t \in Requesters : req_pc[t] = "idle"

\* A request to restart that no reload of the file has followed is still
\* pending, or the restart that will serve it has not read the file yet: a
\* request made while the broker is being restarted is not forgotten.
NoRequestLost ==
  unserved => \/ restart_requested_
              \/ pc \in {"restart", "stopping", "load"}

\* A scope that a controller set at run time has a restart still to come
\* that will apply it.
ScopeChangePending ==
  new_scope_ # "" => \/ restart_requested_
                     \/ pc \in {"restart", "stopping", "load", "apply",
                                "apply_cs"}

\* The running broker uses the settings in broker_config_, and the logger
\* the mask: nothing the shell has read stays unapplied while the broker
\* is up.
SettingsInEffect ==
  broker_ = "up" => /\ running_scope = broker_config_.scope
                    /\ log_mask = broker_config_.log_mask

\* Whoever holds lock_ is inside the body that releases it.  In particular
\* the shell never holds it in broker_.Shutdown(), which waits for the scope
\* callback, which waits for lock_: nobody waits for the one who waits.
HolderReleases ==
  /\ lock_ = "shell" => pc \in {"poll_cs", "apply_cs"}
  /\ lock_ = "lib" => cb_pc = "cs"
  /\ \A t \in Requesters : lock_ = t => req_pc[t] = "cs"

\* A pending request is taken only when the cooldown of every request made
\* so far is over: a later request with a shorter cooldown does not cancel
\* the longer one in force.
CooldownHonoured ==
  [][restart_requested_ /\ ~restart_requested_' => quiet = 0]_vars

(***************************************************************************)
(* How far the shell's thread is from its end, at most, when a shutdown    *)
(* has been requested: from any place of the loop, the rest of the round   *)
(* it is in, with a restart if one is about to be taken, the start of the  *)
(* broker, the look at the flag and the way out of Run.                    *)
(***************************************************************************)
StepsLeft ==
  [init |-> 16, run |-> 15,
   poll |-> 14, poll_cs |-> 13, restart |-> 12, stopping |-> 11, load |-> 10,
   apply |-> 9, apply_cs |-> 8, sleep |-> 7, top |-> 6, check |-> 5,
   exit |-> 4, exit_stopping |-> 3, deinit |-> 2, returned |-> 1, done |-> 0]

\* Once AsyncShutdown has been called, every step of the shell's thread brings
\* it nearer to its end, whatever the other threads request and whenever:
\* at most one more restart is taken, and no request can make Run go round
\* its loop again.
ShutdownProgress ==
  [][shutdown_requested_ /\ pc' # pc => StepsLeft[pc'] < StepsLeft[pc]]_vars

\* Once AsyncShutdown has been called Run returns, whatever restarts are
\* requested meanwhile and wherever the loop is.
ShutdownCompletes == shutdown_requested_ ~> pc \in {"returned", "done"}

\* Run has reached its end or is on its way to it.
Leaving == shutdown_requested_ \/ pc \in {"returned", "done"}

\* Every request is served, provided that requests with a cooldown (network
\* changes) stop coming, even if the others never do.
RequestsServed ==
  <>[](\A t \in Requesters : req_pc[t] # "idle" => req_ms[t] = 0)
    => (unserved ~> ~unserved \/ Leaving)

(***************************************************************************)
(* The shell implements RestartService.  The places of its thread map to   *)
(* the phases of the service; the flags are the same variables.            *)
(***************************************************************************)
ShellPhase ==
  CASE pc \in {"init", "run"} -> "ready"
    [] pc \in {"returned", "done"} -> "returned"
    [] pc \in {"restart", "stopping", "load"} -> "restart"
    [] \/ pc \in {"apply", "apply_cs"}
       \/ pc \in {"top", "sleep"} /\ startup_broker -> "start"
    [] pc \in {"poll", "poll_cs"} -> "poll"
    [] OTHER -> "up"

Service == INSTANCE RestartService WITH shell <- ShellPhase

\* Seen from the services, Run is RestartService: whatever the lock, the
\* timer, the callback and the library do, a request stays until a restart
\* takes it, the file is read between the taking and the start that follows,
\* no restart is taken after Run has looked for a shutdown and found one, and
\* Run ends only when a shutdown has been requested.
Implements == Service!Spec

-----------------------------------------------------------------------------
(***************************************************************************)
(* What the documentation and the comments say and the code does not do.   *)
(***************************************************************************)

\* README.md: the service restarts immediately when the configuration file
\* changes.  The weakest reading: a request to restart is served at all.
EveryRequestServed == unserved ~> ~unserved \/ Leaving

\* broker_shell.h: new_scope_ serves to handle changes at run time.  When
\* nothing is pending any more and nobody has asked for a restart since,
\* the broker runs with the scope the controller set.
RuntimeScopeKept ==
  /\ broker_ = "up"
  /\ pc = "sleep"
  /\ ~restart_requested_
  /\ asked_scope # ""
  => running_scope = asked_scope
=============================================================================
