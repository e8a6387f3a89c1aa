----------------------------- MODULE WinService -----------------------------
(***************************************************************************)
(* BrokerService on Windows (src/windows/broker_service.{h,cpp}): the      *)
(* process that hosts the broker shell.  Its threads are                   *)
(*   - the main thread: it has called Init, which read broker.conf, and is *)
(*     the dispatcher, which runs the control handler (Stop, Shutdown) and *)
(*     returns when the service has reported SERVICE_STOPPED; the process  *)
(*     is then torn down;                                                  *)
(*   - the ServiceMain thread, which executes Start;                       *)
(*   - ServiceThread, which spawns two watchers, runs the broker shell,    *)
(*     and then stops and joins the watchers;                              *)
(*   - the watchers of the address table and of the configuration file.    *)
(* broker.conf and the address table are known by the number of times they *)
(* have changed.  The steps of the shell are those of RestartService,      *)
(* which BrokerShell implements.                                           *)
(***************************************************************************)
EXTENDS Naturals

CONSTANTS
  MaxConfChanges,    \* bound on the changes of broker.conf
  MaxAddrChanges     \* bound on the changes of the address table

ASSUME WinAssumption == MaxConfChanges \in Nat /\ MaxAddrChanges \in Nat

VARIABLES
  \* The service and its threads:
  process,             \* "up" until the dispatcher has returned
  scm,                 \* the state last reported by SetServiceStatus
  start,               \* ServiceMain: "begin", "create", "report" or "done"
  service_thread_,     \* whether there is a handle to wait for
  ctl,                 \* control handler: "idle", "async" or "wait"
  svc,                 \* where ServiceThread is
  result,              \* the result of ServiceThread
  stop_config_change_detection,
  stop_addr_change_detection,
  \* The shell, as in RestartService:
  shell,
  restart_requested_,
  shutdown_requested_,
  loaded_conf,         \* the broker.conf that was read last
  started_addr,        \* the address table when the broker was last started
  \* The configuration watcher:
  conf_pc,             \* "none", "init", "wait", "request", "rearm", "ended"
  conf_changed,        \* the change notification is signalled or recorded
  conf,                \* number of changes of broker.conf
  watched_conf,        \* history: conf at FindFirstChangeNotification
  \* The address watcher:
  addr_pc,             \* "none", "init", "wait", "reset", "rearm", "ended"
  addr_event,          \* overlap.hEvent
  addr_pending,        \* a NotifyAddrChange is outstanding
  addr,                \* number of changes of the address table
  watched_addr         \* history: addr at the first NotifyAddrChange

Shell == INSTANCE RestartService

scmVars == <<process, scm, start, service_thread_, ctl>>
svcVars == <<svc, result, stop_config_change_detection, stop_addr_change_detection>>
flagVars == <<restart_requested_, shutdown_requested_>>
shellVars == <<shell, flagVars, loaded_conf, started_addr>>
confVars == <<conf_pc, conf_changed, conf, watched_conf>>
addrVars == <<addr_pc, addr_event, addr_pending, addr, watched_addr>>
watchVars == <<confVars, addrVars>>
vars == <<scmVars, svcVars, shellVars, watchVars>>

Init ==
  /\ process = "up" /\ scm = "none" /\ start = "begin" /\ ctl = "idle"
  /\ service_thread_ = FALSE
  /\ svc = "none" /\ result = 1
  /\ stop_config_change_detection = FALSE
  /\ stop_addr_change_detection = FALSE
  /\ Shell!Init /\ loaded_conf = 0 /\ started_addr = 0
  /\ conf_pc = "none" /\ conf_changed = FALSE /\ conf = 0 /\ watched_conf = 0
  /\ addr_pc = "none" /\ addr_event = FALSE /\ addr_pending = FALSE
  /\ addr = 0 /\ watched_addr = 0

-----------------------------------------------------------------------------
SetServiceStatus(current_state) == scm' = current_state

(***************************************************************************)
(* The ServiceMain thread registers the control handler and executes Start.*)
(* An exception thrown by ServiceMain is caught by nobody.                 *)
(***************************************************************************)
RegisterFails ==
  /\ start = "begin"
  /\ process' = "ended"
  /\ UNCHANGED <<scm, start, service_thread_, ctl, svcVars, shellVars, watchVars>>

StartPending ==
  /\ start = "begin"
  /\ start' = "create"
  /\ SetServiceStatus("START_PENDING")
  /\ UNCHANGED <<process, service_thread_, ctl, svcVars, shellVars, watchVars>>

\* CreateThread succeeds, or fails without anybody looking.
CreateServiceThread ==
  /\ start = "create"
  /\ start' = "report"
  /\ \/ service_thread_' = TRUE /\ svc' = "spawn"
     \/ UNCHANGED <<service_thread_, svc>>
  /\ UNCHANGED <<process, scm, ctl, result, stop_config_change_detection,
                 stop_addr_change_detection, shellVars, watchVars>>

StartRunning ==
  /\ start = "report"
  /\ start' = "done"
  /\ SetServiceStatus("RUNNING")
  /\ UNCHANGED <<process, service_thread_, ctl, svcVars, shellVars, watchVars>>

(***************************************************************************)
(* The main thread executes the control handler, one control at a time.    *)
(* The SCM sends a control only to a service that has reported RUNNING.    *)
(***************************************************************************)
Stop ==
  /\ ctl = "idle"
  /\ scm = "RUNNING"
  /\ ctl' = "async"
  /\ SetServiceStatus("STOP_PENDING")
  /\ UNCHANGED <<process, start, service_thread_, svcVars, shellVars, watchVars>>

\* The machine goes down: nothing is reported before the thread has ended.
Shutdown ==
  /\ ctl = "idle"
  /\ scm = "RUNNING"
  /\ ctl' = "async"
  /\ UNCHANGED <<process, scm, start, service_thread_, svcVars, shellVars, watchVars>>

AsyncShutdown ==
  /\ ctl = "async"
  /\ ctl' = "wait"
  /\ Shell!AsyncShutdown
  /\ UNCHANGED <<process, scm, start, service_thread_, svcVars, loaded_conf,
                 started_addr, watchVars>>

\* Mutant: Stop does not wait for the service's thread.
NotWaitedFor == TRUE

\* WaitForSingleObject returns, at once if there is no handle to wait for.
ThreadSignalled == service_thread_ => svc = "ended"

WaitServiceThread ==
  /\ ctl = "wait"
  /\ ThreadSignalled
  /\ ctl' = "idle"
  /\ SetServiceStatus("STOPPED")
  /\ UNCHANGED <<process, start, service_thread_, svcVars, shellVars, watchVars>>

\* StartServiceCtrlDispatcher returns, main calls Deinit and the process ends.
DispatcherReturns ==
  /\ ctl = "idle"
  /\ scm = "STOPPED"
  /\ process' = "ended"
  /\ UNCHANGED <<scm, start, service_thread_, ctl, svcVars, shellVars, watchVars>>

-----------------------------------------------------------------------------
(***************************************************************************)
(* ServiceThread.                                                          *)
(***************************************************************************)
SpawnWatchers ==
  /\ svc = "spawn"
  /\ svc' = "run"
  /\ conf_pc' = "init"
  /\ addr_pc' = "init"
  /\ UNCHANGED <<scmVars, result, stop_config_change_detection,
                 stop_addr_change_detection, shellVars, conf_changed, conf,
                 watched_conf, addr_event, addr_pending, addr, watched_addr>>

\* Mutant: the watchers are stopped while the shell is still running.
RunEntered == shell # "ready"

RunReturned == shell = "returned"

\* Run has returned: the configuration watcher is told to stop.
StopConfigDetection ==
  /\ svc = "run"
  /\ RunReturned
  /\ svc' = "join_config"
  /\ stop_config_change_detection' = TRUE
  /\ UNCHANGED <<scmVars, result, stop_addr_change_detection, shellVars, watchVars>>

\* Mutant: a thread is told to stop but not joined.
NotJoined(thread_pc) == TRUE

Joined(thread_pc) == thread_pc = "ended"

\* Mutant: the address watcher is told to stop only if Run succeeded.
TellIfRan == stop_addr_change_detection' = (result = 0)

TellAddrWatcher == stop_addr_change_detection' = TRUE

JoinConfig ==
  /\ svc = "join_config"
  /\ Joined(conf_pc)
  /\ svc' = "join_addr"
  /\ TellAddrWatcher
  /\ UNCHANGED <<scmVars, result, stop_config_change_detection, shellVars, watchVars>>

JoinAddr ==
  /\ svc = "join_addr"
  /\ Joined(addr_pc)
  /\ svc' = IF result = 0 THEN "ended" ELSE "report"
  /\ UNCHANGED <<scmVars, result, stop_config_change_detection,
                 stop_addr_change_detection, shellVars, watchVars>>

ReportFailure ==
  /\ svc = "report"
  /\ svc' = "ended"
  /\ SetServiceStatus("STOPPED")
  /\ UNCHANGED <<process, start, service_thread_, ctl, result,
                 stop_config_change_detection, stop_addr_change_detection,
                 shellVars, watchVars>>

-----------------------------------------------------------------------------
(***************************************************************************)
(* BrokerShell::Run, called by ServiceThread.                              *)
(***************************************************************************)
EnterRun ==
  /\ svc = "run"
  /\ Shell!EnterRun
  /\ UNCHANGED <<scmVars, svcVars, loaded_conf, started_addr, watchVars>>

RunFails ==
  /\ svc = "run"
  /\ Shell!RunFails
  /\ UNCHANGED <<scmVars, svcVars, loaded_conf, started_addr, watchVars>>

StartBroker ==
  /\ Shell!StartBroker
  /\ started_addr' = addr
  /\ UNCHANGED <<scmVars, svcVars, loaded_conf, watchVars>>

\* The loop looks for a shutdown, and then for a request that is due.
Poll ==
  /\ Shell!Poll
  /\ UNCHANGED <<scmVars, svcVars, loaded_conf, started_addr, watchVars>>

NotYet ==
  /\ Shell!NotYet
  /\ UNCHANGED <<scmVars, svcVars, loaded_conf, started_addr, watchVars>>

(***************************************************************************)
(* A pending request is taken.  A request of the address watcher is not    *)
(* taken before its cooldown of kNetworkChangeCooldownMs is over           *)
(* (CooldownHonoured of BrokerShell), and ResetEvent and NotifyAddrChange  *)
(* take less time than that.                                               *)
(***************************************************************************)
TakeRestart ==
  /\ Shell!TakeRestart
  /\ addr_pc \notin {"reset", "rearm"}
  /\ UNCHANGED <<scmVars, svcVars, loaded_conf, started_addr, watchVars>>

ReloadConfig ==
  /\ Shell!ReloadConfig
  /\ loaded_conf' = conf
  /\ UNCHANGED <<scmVars, svcVars, started_addr, watchVars>>

RunReturns ==
  /\ Shell!RunReturns
  /\ result' = 0
  /\ UNCHANGED <<scmVars, svc, stop_config_change_detection,
                 stop_addr_change_detection, loaded_conf, started_addr, watchVars>>

-----------------------------------------------------------------------------
(***************************************************************************)
(* The configuration watcher.  Its loop looks at its flag before each wait *)
(* and a wait that times out, after kWaitMs, is begun again.  A change     *)
(* between the end of a wait and FindNextChangeNotification is recorded by *)
(* the system and satisfies the next wait.                                 *)
(***************************************************************************)
\* Mutant: the loop of the watcher does not look at its flag.
StopUnseen == FALSE

StopSeen == stop_config_change_detection

\* The loop goes on to a wait, or leaves.
ConfigLoop == conf_pc' = IF StopSeen THEN "ended" ELSE "wait"

InitConfigChangeDetectionHandle ==
  /\ conf_pc = "init"
  /\ \/ ConfigLoop /\ watched_conf' = conf
     \/ conf_pc' = "ended" /\ UNCHANGED watched_conf
  /\ UNCHANGED <<scmVars, svcVars, shellVars, conf_changed, conf, addrVars>>

\* The wait in ProcessConfigChanges ends with a change.
WaitConfigChange ==
  /\ conf_pc = "wait"
  /\ conf_changed
  /\ conf_changed' = FALSE
  /\ conf_pc' = "request"
  /\ UNCHANGED <<scmVars, svcVars, shellVars, conf, watched_conf, addrVars>>

\* The wait fails: broker.conf is not watched any more.
ConfigWaitFails ==
  /\ conf_pc = "wait"
  /\ conf_pc' = "ended"
  /\ UNCHANGED <<scmVars, svcVars, shellVars, conf_changed, conf, watched_conf, addrVars>>

\* The wait times out, and the loop sees its flag.
StopConfigWatcher ==
  /\ conf_pc = "wait"
  /\ StopSeen
  /\ conf_pc' = "ended"
  /\ UNCHANGED <<scmVars, svcVars, shellVars, conf_changed, conf, watched_conf, addrVars>>

\* Mutant: a change is ignored while the broker is being restarted.
RequestIfUp == \/ shell \in {"up", "poll"} /\ Shell!RequestRestart
               \/ shell \notin {"up", "poll"} /\ UNCHANGED <<shell, flagVars>>

RequestForConfig == Shell!RequestRestart

RequestConfigRestart ==
  /\ conf_pc = "request"
  /\ conf_pc' = "rearm"
  /\ RequestForConfig
  /\ UNCHANGED <<scmVars, svcVars, loaded_conf, started_addr, conf_changed,
                 conf, watched_conf, addrVars>>

FindNextChangeNotification ==
  /\ conf_pc = "rearm"
  /\ ConfigLoop \/ conf_pc' = "ended"
  /\ UNCHANGED <<scmVars, svcVars, shellVars, conf_changed, conf, watched_conf, addrVars>>

-----------------------------------------------------------------------------
(***************************************************************************)
(* The address watcher.  A change signals the event only if a              *)
(* NotifyAddrChange is outstanding, and uses it up.                        *)
(***************************************************************************)
InitAddrChangeDetection ==
  /\ addr_pc = "init"
  /\ \/ ~stop_addr_change_detection /\ addr_pc' = "wait"
        /\ addr_pending' = TRUE /\ watched_addr' = addr
     \/ addr_pc' = "ended" /\ UNCHANGED <<addr_pending, watched_addr>>
  /\ UNCHANGED <<scmVars, svcVars, shellVars, confVars, addr_event, addr>>

\* ProcessAddrChanges: the wait ends with a change, and a restart is
\* requested.
WaitAddrChange ==
  /\ addr_pc = "wait"
  /\ addr_event
  /\ addr_pc' = "reset"
  /\ Shell!RequestRestart
  /\ UNCHANGED <<scmVars, svcVars, loaded_conf, started_addr, confVars,
                 addr_event, addr_pending, addr, watched_addr>>

\* The thread's function ends with DeinitAddrChangeDetection.
DeinitAddrChangeDetection ==
  /\ addr_pc = "wait"
  /\ addr_pc' = "ended"
  /\ addr_pending' = FALSE
  /\ UNCHANGED <<scmVars, svcVars, shellVars, confVars, addr_event, addr, watched_addr>>

\* The wait fails, or it times out and the loop sees its flag.
AddrWaitFails == DeinitAddrChangeDetection

StopAddrWatcher == stop_addr_change_detection /\ DeinitAddrChangeDetection

ResetEvent(from, to) ==
  /\ addr_pc = from
  /\ addr_pc' = to
  /\ addr_event' = FALSE
  /\ UNCHANGED <<scmVars, svcVars, shellVars, confVars, addr_pending, addr, watched_addr>>

NotifyAddrChange(from, to) ==
  /\ addr_pc = from
  /\ \/ ~stop_addr_change_detection /\ addr_pending' = TRUE /\ addr_pc' = to
     \/ addr_pending' = FALSE /\ addr_pc' = "ended"
  /\ UNCHANGED <<scmVars, svcVars, shellVars, confVars, addr_event, addr, watched_addr>>

\* Mutant: the next notification is asked for before the event is reset.
NotifyThenReset == NotifyAddrChange("reset", "rearm") \/ ResetEvent("rearm", "wait")

\* ResetEvent, then NotifyAddrChange; if it fails, or the loop then sees its
\* flag, the watcher ends.
GetNextAddrChange == ResetEvent("reset", "rearm") \/ NotifyAddrChange("rearm", "wait")

-----------------------------------------------------------------------------
\* Somebody writes broker.conf.
ChangeConf ==
  /\ conf < MaxConfChanges
  /\ conf' = conf + 1
  /\ conf_changed' = (conf_changed \/ conf_pc \in {"wait", "request", "rearm"})
  /\ UNCHANGED <<scmVars, svcVars, shellVars, conf_pc, watched_conf, addrVars>>

\* The address table changes.
ChangeAddr ==
  /\ addr < MaxAddrChanges
  /\ addr' = addr + 1
  /\ addr_event' = (addr_event \/ addr_pending)
  /\ addr_pending' = FALSE
  /\ UNCHANGED <<scmVars, svcVars, shellVars, confVars, addr_pc, watched_addr>>

-----------------------------------------------------------------------------
Start == StartPending \/ CreateServiceThread \/ StartRunning

ServiceCtrlHandler == Stop \/ Shutdown \/ AsyncShutdown \/ WaitServiceThread

ServiceThread ==
  \/ SpawnWatchers \/ StopConfigDetection \/ JoinConfig \/ JoinAddr
  \/ ReportFailure
  \/ EnterRun \/ RunFails \/ StartBroker
  \/ Poll \/ NotYet \/ TakeRestart \/ ReloadConfig \/ RunReturns

ConfigWatcher ==
  \/ InitConfigChangeDetectionHandle \/ WaitConfigChange \/ StopConfigWatcher
  \/ RequestConfigRestart \/ FindNextChangeNotification

AddrWatcher ==
  \/ InitAddrChangeDetection \/ WaitAddrChange \/ StopAddrWatcher
  \/ GetNextAddrChange

Next ==
  /\ process = "up"
  /\ \/ Start \/ ServiceCtrlHandler \/ DispatcherReturns
     \/ ServiceThread \/ ConfigWatcher \/ AddrWatcher
     \/ RegisterFails \/ ConfigWaitFails \/ AddrWaitFails
     \/ ChangeConf \/ ChangeAddr

Spec == Init /\ [][Next]_vars

(***************************************************************************)
(* Every thread that can go on goes on.  A request that is there at each   *)
(* poll is taken at one of them, when its cooldown is over (RequestsServed *)
(* of BrokerShell; the changes of the address table are bounded here).     *)
(* Nobody has to stop the service or to change anything, no wait has to    *)
(* fail, and the dispatcher need not return.                               *)
(***************************************************************************)
Step(A) == process = "up" /\ A

Fairness ==
  /\ WF_vars(Step(Start))
  /\ WF_vars(Step(AsyncShutdown)) /\ WF_vars(Step(WaitServiceThread))
  /\ WF_vars(Step(ServiceThread))
  /\ SF_vars(Step(TakeRestart))
  /\ WF_vars(Step(ConfigWatcher))
  /\ WF_vars(Step(AddrWatcher))

FairSpec == Spec /\ Fairness

-----------------------------------------------------------------------------
(***************************************************************************)
(* Properties.                                                             *)
(***************************************************************************)

\* Where the threads are; the shell is in Run only while ServiceThread is.
PcTypeOK ==
  /\ process \in {"up", "ended"}
  /\ scm \in {"none", "START_PENDING", "RUNNING", "STOP_PENDING", "STOPPED"}
  /\ start \in {"begin", "create", "report", "done"}
  /\ ctl \in {"idle", "async", "wait"}
  /\ svc \in {"none", "spawn", "run", "join_config", "join_addr", "report",
              "ended"}
  /\ shell \in {"ready", "start", "up", "poll", "restart", "returned"}
  /\ shell \in {"start", "up", "poll", "restart"} => svc = "run"
  /\ conf_pc \in {"none", "init", "wait", "request", "rearm", "ended"}
  /\ addr_pc \in {"none", "init", "wait", "reset", "rearm", "ended"}

\* The types of the flags.
FlagTypeOK ==
  /\ service_thread_ \in BOOLEAN
  /\ result \in {0, 1}
  /\ restart_requested_ \in BOOLEAN
  /\ shutdown_requested_ \in BOOLEAN
  /\ stop_config_change_detection \in BOOLEAN
  /\ stop_addr_change_detection \in BOOLEAN
  /\ conf_changed \in BOOLEAN
  /\ addr_event \in BOOLEAN
  /\ addr_pending \in BOOLEAN

\* The counts: nothing is read or watched before it is there.
CountTypeOK ==
  /\ conf \in 0..MaxConfChanges
  /\ addr \in 0..MaxAddrChanges
  /\ loaded_conf \in 0..conf
  /\ started_addr \in 0..addr
  /\ watched_conf \in 0..conf
  /\ watched_addr \in 0..addr

\* The type invariant.
TypeOK == PcTypeOK /\ FlagTypeOK /\ CountTypeOK

\* The watchers use variables on the stack of ServiceThread: both have ended
\* before it returns, on every path.
WatchersJoined ==
  svc \in {"report", "ended"} => conf_pc = "ended" /\ addr_pc = "ended"

\* When the dispatcher returns and main destroys the service, neither
\* ServiceThread nor a watcher is left that would use it.  Nobody waits for
\* ServiceMain: it has returned too, or has ended the process itself by its
\* exception, unless Run failed before Start could report RUNNING, the race
\* of StoppedIsFinal, and then that report is all it had left to do.
ServiceOutlivesThreads ==
  process = "ended" =>
    /\ svc \in {"none", "ended"}
    /\ conf_pc \in {"none", "ended"}
    /\ addr_pc \in {"none", "ended"}
    /\ \/ start = "done"
       \/ start = "begin" /\ svc = "none"
       \/ start = "report" /\ svc = "ended" /\ result # 0

\* A change of broker.conf that the shell has not read, made while the
\* watcher is at work, is on its way: recorded by the system, in the hands
\* of the watcher, requested, or about to be read.
ConfigChangeKept ==
  /\ conf_pc \in {"wait", "request", "rearm"}
  /\ conf > watched_conf
  /\ conf > loaded_conf
  => \/ conf_changed
     \/ conf_pc = "request"
     \/ restart_requested_
     \/ shell = "restart"

\* The same for the address table, although a change between the event and
\* the next NotifyAddrChange is not recorded: the restart requested before
\* is still to come and covers it.
AddrChangeKept ==
  /\ addr_pc \in {"wait", "reset", "rearm"}
  /\ addr > watched_addr
  /\ addr > started_addr
  => \/ addr_event
     \/ restart_requested_
     \/ shell \in {"restart", "start"}

\* Nobody waits on the way out for something that was not asked for: the
\* control handler waits for a shell that has been told to shut down, each
\* join is of a thread that was started and has been told to stop, also when
\* Run has failed, and the handle waited for is that of a started thread.
WaitsAnswered ==
  /\ ctl = "wait" => shutdown_requested_
  /\ service_thread_ => svc # "none"
  /\ svc = "join_config" => stop_config_change_detection /\ conf_pc # "none"
  /\ svc = "join_addr" => stop_addr_change_detection /\ addr_pc # "none"

\* How far ServiceThread, with the shell it runs, is from its end when a
\* shutdown has been requested, and a watcher that has been told to stop.
ServiceSteps ==
  [none |-> 7, spawn |-> 6, run |-> 5, join_config |-> 4, join_addr |-> 3,
   report |-> 2, ended |-> 1][svc]
  + [ready |-> 6, poll |-> 5, restart |-> 4, start |-> 3, up |-> 2, returned |-> 1][shell]

WatcherSteps ==
  [none |-> 6, init |-> 5, wait |-> 4, request |-> 3, reset |-> 3, rearm |-> 2,
   ended |-> 1]

\* On the way out every step of a thread brings it nearer to its end: the
\* shell takes at most one more restart, ServiceThread goes straight from Run
\* to its return, and a watcher that was in the middle of a notification when
\* it was told to stop finishes that one and waits for no other, however many
\* changes follow.
StopProgress ==
  [][/\ shutdown_requested_ /\ <<svc', shell'>> # <<svc, shell>> =>
          ServiceSteps' < ServiceSteps
     /\ stop_config_change_detection /\ conf_pc' # conf_pc =>
          WatcherSteps[conf_pc'] < WatcherSteps[conf_pc]
     /\ stop_addr_change_detection /\ addr_pc' # addr_pc =>
          WatcherSteps[addr_pc'] < WatcherSteps[addr_pc]]_vars

\* The broker is shut down, could not be run, or is not watched over.
NotServing ==
  \/ shutdown_requested_
  \/ shell = "returned"
  \/ svc = "none" /\ start \in {"report", "done"}

\* Every change of the address table made while the watcher is at work is
\* followed by a start of the broker that sees it.
AddrChangesServed ==
  addr_pc \in {"wait", "reset", "rearm"} /\ addr > watched_addr ~>
    started_addr = addr \/ addr_pc = "ended" \/ NotServing

\* A stop or a shutdown of the service ends with SERVICE_STOPPED reported
\* and ServiceThread ended: neither join waits for a watcher that waits.
StopCompletes ==
  ctl # "idle" ~> scm = "STOPPED" /\ svc \in {"none", "ended"}

-----------------------------------------------------------------------------
(***************************************************************************)
(* What the documentation and the comments say and the code does not do.   *)
(***************************************************************************)

\* README.md: broker.conf is monitored for changes.  Every change is read in
\* the end, unless the watcher has failed.
ConfigInEffect ==
  conf > loaded_conf ~>
    loaded_conf = conf \/ conf_pc = "ended" \/ NotServing

\* Start tells the SCM that the service is started; ServiceThread tells it
\* that it is stopped.  A service that is stopped is not started any more.
StoppedIsFinal == [][scm = "STOPPED" => scm' = "STOPPED"]_vars
=============================================================================
