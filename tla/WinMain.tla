------------------------------- MODULE WinMain -------------------------------
(***************************************************************************)
(* The Windows executable (src/windows/main.cpp, service_utils.cpp and the *)
(* log file of win_broker_os_interface.cpp), as processes that share one   *)
(* broker.log and one service control manager.  Every invocation, whatever *)
(* its option, first initializes a broker service, which rotates the logs  *)
(* and opens broker.log so that nobody else can open it for writing; only  *)
(* then it looks at its option.                                            *)
(* The service control manager is external.  It starts an installed        *)
(* service with no option, accepts a stop for a running service only, and  *)
(* forgets a service marked for deletion when it has stopped.              *)
(***************************************************************************)
CONSTANTS
  Processes,   \* invocations of the executable, each of which happens once
  Nobody,      \* no process
  OsFails      \* whether calls to the operating system may fail

ASSUME MainAssumption == Nobody \notin Processes /\ OsFails \in BOOLEAN

Options == {"none", "-version", "-install", "-remove", "-debug", "other"}

VARIABLES
  proc,         \* where each process is
  option,       \* argv[1]
  retval,       \* what it returned, or "killed"
  log_writer,   \* the process that has broker.log open for writing
  broker_log,   \* the process that wrote what broker.log holds
  service,      \* the process that the service control manager has started
  state,        \* dwCurrentState of the service
  database      \* "absent", "installed" or "deleting"

procVars == <<proc, option, retval>>
logVars == <<log_writer, broker_log>>
scmVars == <<service, state, database>>
vars == <<procVars, logVars, scmVars>>

Init ==
  /\ proc = [p \in Processes |-> "none"]
  /\ option = [p \in Processes |-> "none"]
  /\ retval = [p \in Processes |-> "EXIT_SUCCESS"]
  /\ log_writer = Nobody
  /\ broker_log = Nobody
  /\ service = Nobody
  /\ state = "STOPPED"
  /\ database \in {"absent", "installed"}

-----------------------------------------------------------------------------
Go(p, from, to) == proc[p] = from /\ proc' = [proc EXCEPT ![p] = to]

Return(p, value) == retval' = [retval EXCEPT ![p] = value]

\* Somebody starts the executable from a console.
Invoke(p, argv1) ==
  /\ Go(p, "none", "rotate")
  /\ option' = [option EXCEPT ![p] = argv1]
  /\ UNCHANGED <<retval, logVars, scmVars>>

\* RotateLogs copies broker.log, which it may read while another process
\* writes it.  Whether it succeeds makes no difference to what follows.
RotateLogs(p) ==
  /\ Go(p, "rotate", "open")
  /\ UNCHANGED <<option, retval, logVars, scmVars>>

\* Mutants: the log is opened so that others can write it too; -remove is
\* done without opening it.
OpenShared(p) == log_writer' = p /\ broker_log' = p
OpenUnlessRemove(p) ==
  IF option[p] = "-remove" THEN UNCHANGED logVars
  ELSE log_writer = Nobody /\ log_writer' = p /\ broker_log' = p

\* _wfsopen(..., L"w", _SH_DENYWR): denied while a writer has it open.
OpenForWriting(p) == log_writer = Nobody /\ log_writer' = p /\ broker_log' = p

InitSucceeds(p) ==
  /\ Go(p, "open", "dispatch")
  /\ OpenForWriting(p)
  /\ UNCHANGED <<option, retval, scmVars>>

\* The process that the manager started for the service, if it is p, is gone.
ServiceGone(p) ==
  \/ /\ service = p
     /\ service' = Nobody
     /\ state' = "STOPPED"
     /\ database' = IF database = "deleting" THEN "absent" ELSE database
  \/ service # p /\ UNCHANGED scmVars

\* "Couldn't initialize Broker service.": the log does not open, or it does
\* and the logger fails to start, in which case it is closed again.
InitFails(p) ==
  /\ \/ (log_writer # Nobody \/ OsFails) /\ UNCHANGED broker_log
     \/ log_writer = Nobody /\ OsFails /\ broker_log' = p
  /\ Go(p, "open", "ended")
  /\ Return(p, "EXIT_FAILURE")
  /\ ServiceGone(p)
  /\ UNCHANGED <<option, log_writer>>

-----------------------------------------------------------------------------
\* -version prints the version and falls through to the usage of the other
\* chain of options, like an unknown option.
PrintUsage(p) ==
  /\ option[p] \in {"-version", "other"}
  /\ Go(p, "dispatch", "deinit")
  /\ Return(p, "EXIT_FAILURE")
  /\ UNCHANGED <<option, logVars, scmVars>>

\* -install: CreateService fails for a service that exists or is still being
\* deleted.  The result is printed and the process returns EXIT_SUCCESS.
InstallService(p) ==
  /\ option[p] = "-install"
  /\ Go(p, "dispatch", "deinit")
  /\ \/ database = "absent" /\ database' = "installed"
     \/ (database # "absent" \/ OsFails) /\ UNCHANGED database
  /\ UNCHANGED <<option, retval, logVars, service, state>>

\* -remove: OpenService, then ControlService, then DeleteService.
OpenService(p) ==
  /\ option[p] = "-remove"
  /\ \/ database # "absent" /\ Go(p, "dispatch", "control")
     \/ (database = "absent" \/ OsFails) /\ Go(p, "dispatch", "deinit")
  /\ UNCHANGED <<option, retval, logVars, scmVars>>

\* The manager accepts a stop only for a running service.
ControlService(p) ==
  \E accepted \in BOOLEAN :
    /\ accepted => state = "RUNNING"
    /\ ~accepted => state # "RUNNING" \/ OsFails
    /\ Go(p, "control", IF accepted THEN "stopping" ELSE "delete")
    /\ state' = IF accepted THEN "STOP_PENDING" ELSE state
    /\ UNCHANGED <<option, retval, logVars, service, database>>

\* If the stop was accepted, the wait for the service to leave
\* SERVICE_STOP_PENDING, or for QueryServiceStatus to fail; then DeleteService.
DeleteService(p) ==
  /\ proc[p] = "stopping" => state # "STOP_PENDING" \/ OsFails
  /\ proc[p] \in {"delete", "stopping"}
  /\ proc' = [proc EXCEPT ![p] = "deinit"]
  /\ \/ database' = IF service = Nobody THEN "absent" ELSE "deleting"
     \/ OsFails /\ UNCHANGED database
  /\ UNCHANGED <<option, retval, logVars, service, state>>

\* Mutant: an option that is not known is taken for -debug.
UnlessKnown(p) == option[p] \notin {"none", "-install", "-remove"}

\* debug_mode
DebugMode(p) == option[p] = "-debug"

\* Debug, or the dispatcher of a process that the manager has started.
RunBroker(p) ==
  /\ \/ DebugMode(p) /\ UNCHANGED state
     \/ service = p /\ state' = "RUNNING"
  /\ Go(p, "dispatch", "running")
  /\ UNCHANGED <<option, retval, logVars, service, database>>

\* StartServiceCtrlDispatcher fails in a process started from a console.
DispatcherFails(p) ==
  /\ option[p] = "none" /\ service # p
  /\ Go(p, "dispatch", "deinit")
  /\ Return(p, "EXIT_FAILURE")
  /\ UNCHANGED <<option, logVars, scmVars>>

\* The broker ends: Run has failed in debug mode, where nobody asks for a
\* shutdown; or the service has stopped or failed, which it reports before
\* its process ends.
BrokerEnds(p) ==
  /\ Go(p, "running", "deinit")
  /\ \/ DebugMode(p) /\ Return(p, "EXIT_FAILURE")
     \/ ~DebugMode(p) /\ UNCHANGED retval
  /\ ServiceGone(p)
  /\ UNCHANGED <<option, logVars>>

\* The destructor of the operating system interface closes the log, and the
\* system does when a process is killed.
ClosesLog(p) == log_writer' = IF log_writer = p THEN Nobody ELSE log_writer

\* Deinit and the return from wmain.
Deinit(p) ==
  /\ Go(p, "deinit", "ended")
  /\ ClosesLog(p)
  /\ UNCHANGED <<option, retval, broker_log, scmVars>>

\* A process is killed, or the service crashes.
Kill(p) ==
  /\ proc[p] \notin {"none", "ended"}
  /\ proc' = [proc EXCEPT ![p] = "ended"]
  /\ Return(p, "killed")
  /\ ClosesLog(p)
  /\ ServiceGone(p)
  /\ UNCHANGED <<option, broker_log>>

-----------------------------------------------------------------------------
(***************************************************************************)
(* The service control manager.                                            *)
(***************************************************************************)
StartService(p) ==
  /\ database = "installed" /\ state = "STOPPED" /\ service = Nobody
  /\ Go(p, "none", "rotate")
  /\ service' = p
  /\ state' = "START_PENDING"
  /\ UNCHANGED <<option, retval, logVars, database>>

StopService ==
  /\ state = "RUNNING"
  /\ state' = "STOP_PENDING"
  /\ UNCHANGED <<procVars, logVars, service, database>>

-----------------------------------------------------------------------------
Process(p) ==
  \/ RotateLogs(p) \/ InitSucceeds(p) \/ InitFails(p)
  \/ PrintUsage(p) \/ InstallService(p)
  \/ OpenService(p) \/ ControlService(p) \/ DeleteService(p)
  \/ RunBroker(p) \/ DispatcherFails(p) \/ BrokerEnds(p)
  \/ Deinit(p)

Next ==
  \/ \E p \in Processes : \/ \E argv1 \in Options : Invoke(p, argv1)
                          \/ Process(p) \/ Kill(p) \/ StartService(p)
  \/ StopService

Spec == Init /\ [][Next]_vars

-----------------------------------------------------------------------------
(***************************************************************************)
(* Properties.                                                             *)
(***************************************************************************)

\* The type invariant.  What a process does is what it was started for: only
\* -remove gets into UninstallService, and a broker is run by -debug or by
\* the process that the manager has started, never because of another option
\* that falls through the chain of comparisons.
TypeOK ==
  /\ proc \in [Processes -> {"none", "rotate", "open", "dispatch", "control",
                             "stopping", "delete", "running", "deinit", "ended"}]
  /\ option \in [Processes -> Options]
  /\ retval \in [Processes -> {"EXIT_SUCCESS", "EXIT_FAILURE", "killed"}]
  /\ log_writer \in Processes \cup {Nobody}
  /\ broker_log \in Processes \cup {Nobody}
  /\ service \in Processes \cup {Nobody}
  /\ state \in {"STOPPED", "START_PENDING", "RUNNING", "STOP_PENDING"}
  /\ database \in {"absent", "installed", "deleting"}
  /\ \A p \in Processes :
       /\ proc[p] \in {"control", "stopping", "delete"} => option[p] = "-remove"
       /\ proc[p] = "running" => \/ option[p] = "-debug"
                                 \/ option[p] = "none" /\ service = p

\* broker.log holds the log of the process that runs a broker, so that there
\* is at most one such process.  Every other invocation, with whatever option,
\* rotates the logs and tries to open broker.log before it gives up: a service
\* that is started next to a debug session, or before the process it replaces
\* has ended, included.
OneBrokerOneLog == \A p \in Processes : proc[p] = "running" => broker_log = p

\* UninstallService never deletes a service that is running: it never finds
\* one, so that its loop that waits for the stop has nothing to wait for.
RemoveFindsStopped ==
  \A p \in Processes : proc[p] \in {"control", "stopping", "delete"} => state # "RUNNING"

-----------------------------------------------------------------------------
\* service_utils.cpp: UninstallService stops and removes the service.  When an
\* invocation with -remove ends, and was not killed, the service is not
\* running.
RemoveStops ==
  [][\A p \in Processes :
       /\ option[p] = "-remove"
       /\ proc[p] # "ended" /\ proc'[p] = "ended"
       /\ retval'[p] # "killed"
       => state' # "RUNNING"]_vars
=============================================================================
