---------------------------- MODULE WinMainProofs ----------------------------
(***************************************************************************)
(* Proofs, for every number of invocations and with failing calls or       *)
(* without, of the safety properties of WinMain.                           *)
(***************************************************************************)
EXTENDS WinMain, TLAPS

\* A process that has got past Init and has not closed its log.
PastInit(p) ==
  proc[p] \in {"dispatch", "control", "stopping", "delete", "running", "deinit"}

\* Exactly the process past Init has broker.log open, and its log is there.
LogInv ==
  \A p \in Processes : /\ PastInit(p) <=> log_writer = p
                       /\ PastInit(p) => broker_log = p

\* The service is a process without options that has not left its dispatcher,
\* and when the service is running the process is.
ScmInv ==
  /\ \A p \in Processes : proc[p] = "none" => option[p] = "none"
  /\ service # Nobody => /\ option[service] = "none"
                         /\ proc[service] \in {"rotate", "open", "dispatch",
                                               "running"}
  /\ state = "RUNNING" => service # Nobody /\ proc[service] = "running"

IInv == TypeOK /\ LogInv /\ ScmInv

\* Every step keeps the types.
LEMMA TypeStep ==
  ASSUME TypeOK, LogInv, ScmInv, [Next]_vars
  PROVE  TypeOK'
<1> USE MainAssumption
        DEF TypeOK, LogInv, ScmInv, PastInit, Options, Go, vars,
            procVars, logVars, scmVars
<1>1. ASSUME NEW p \in Processes, \/ \E argv1 \in Options : Invoke(p, argv1)
                                    \/ Process(p) \/ Kill(p) \/ StartService(p)
      PROVE  TypeOK'
  <2>1. CASE \E argv1 \in Options : Invoke(p, argv1)
    BY <2>1 DEF Invoke
  <2>2. CASE RotateLogs(p)
    BY <2>2 DEF RotateLogs
  <2>3. CASE InitSucceeds(p)
    BY <2>3 DEF InitSucceeds, OpenForWriting
  <2>4. CASE InitFails(p)
    BY <2>4 DEF InitFails, ServiceGone, Return
  <2>5. CASE PrintUsage(p)
    BY <2>5 DEF PrintUsage, Return
  <2>6. CASE InstallService(p)
    BY <2>6 DEF InstallService
  <2>7. CASE OpenService(p)
    BY <2>7 DEF OpenService
  <2>8. CASE ControlService(p)
    BY <2>8 DEF ControlService
  <2>9. CASE DeleteService(p)
    BY <2>9 DEF DeleteService
  <2>10. CASE RunBroker(p)
    BY <2>10 DEF RunBroker, DebugMode
  <2>11. CASE DispatcherFails(p)
    BY <2>11 DEF DispatcherFails, Return
  <2>12. CASE BrokerEnds(p)
    BY <2>12 DEF BrokerEnds, DebugMode, ServiceGone, Return
  <2>13. CASE Deinit(p)
    BY <2>13 DEF Deinit, ClosesLog
  <2>14. CASE Kill(p)
    BY <2>14 DEF Kill, ClosesLog, ServiceGone, Return
  <2>15. CASE StartService(p)
    BY <2>15 DEF StartService
  <2> QED
    BY <1>1, <2>1, <2>2, <2>3, <2>4, <2>5, <2>6, <2>7, <2>8,
       <2>9, <2>10, <2>11, <2>12, <2>13, <2>14, <2>15
       DEF Process
<1>2. CASE StopService
  BY <1>2 DEF StopService
<1>3. CASE UNCHANGED vars
  BY <1>3
<1> QED  BY <1>1, <1>2, <1>3 DEF Next

\* Every step keeps the log with the process past Init.
LEMMA LogStep ==
  ASSUME TypeOK, LogInv, [Next]_vars
  PROVE  LogInv'
<1> USE MainAssumption
        DEF TypeOK, LogInv, PastInit, Go, vars,
            procVars, logVars, scmVars
<1>1. ASSUME NEW p \in Processes, \/ \E argv1 \in Options : Invoke(p, argv1)
                                    \/ Process(p) \/ Kill(p) \/ StartService(p)
      PROVE  LogInv'
  <2>1. CASE \E argv1 \in Options : Invoke(p, argv1)
    BY <2>1 DEF Invoke
  <2>2. CASE RotateLogs(p)
    BY <2>2 DEF RotateLogs
  <2>3. CASE InitSucceeds(p)
    BY <2>3 DEF InitSucceeds, OpenForWriting
  <2>4. CASE InitFails(p)
    BY <2>4 DEF InitFails, ServiceGone, Return
  <2>5. CASE PrintUsage(p)
    BY <2>5 DEF PrintUsage, Return
  <2>6. CASE InstallService(p)
    BY <2>6 DEF InstallService
  <2>7. CASE OpenService(p)
    BY <2>7 DEF OpenService
  <2>8. CASE ControlService(p)
    BY <2>8 DEF ControlService
  <2>9. CASE DeleteService(p)
    BY <2>9 DEF DeleteService
  <2>10. CASE RunBroker(p)
    BY <2>10 DEF RunBroker, DebugMode
  <2>11. CASE DispatcherFails(p)
    BY <2>11 DEF DispatcherFails, Return
  <2>12. CASE BrokerEnds(p)
    BY <2>12 DEF BrokerEnds, DebugMode, ServiceGone, Return
  <2>13. CASE Deinit(p)
    BY <2>13 DEF Deinit, ClosesLog
  <2>14. CASE Kill(p)
    BY <2>14 DEF Kill, ClosesLog, ServiceGone, Return
  <2>15. CASE StartService(p)
    BY <2>15 DEF StartService
  <2> QED
    BY <1>1, <2>1, <2>2, <2>3, <2>4, <2>5, <2>6, <2>7, <2>8,
       <2>9, <2>10, <2>11, <2>12, <2>13, <2>14, <2>15
       DEF Process
<1>2. CASE StopService
  BY <1>2 DEF StopService
<1>3. CASE UNCHANGED vars
  BY <1>3
<1> QED  BY <1>1, <1>2, <1>3 DEF Next

\* Every step keeps a running service with its process.
LEMMA ScmStep ==
  ASSUME TypeOK, ScmInv, [Next]_vars
  PROVE  ScmInv'
<1> USE MainAssumption
        DEF TypeOK, ScmInv, Go, vars,
            procVars, logVars, scmVars
<1>1. ASSUME NEW p \in Processes, \/ \E argv1 \in Options : Invoke(p, argv1)
                                    \/ Process(p) \/ Kill(p) \/ StartService(p)
      PROVE  ScmInv'
  <2>1. CASE \E argv1 \in Options : Invoke(p, argv1)
    BY <2>1 DEF Invoke
  <2>2. CASE RotateLogs(p)
    BY <2>2 DEF RotateLogs
  <2>3. CASE InitSucceeds(p)
    BY <2>3 DEF InitSucceeds, OpenForWriting
  <2>4. CASE InitFails(p)
    BY <2>4 DEF InitFails, ServiceGone, Return
  <2>5. CASE PrintUsage(p)
    BY <2>5 DEF PrintUsage, Return
  <2>6. CASE InstallService(p)
    BY <2>6 DEF InstallService
  <2>7. CASE OpenService(p)
    BY <2>7 DEF OpenService
  <2>8. CASE ControlService(p)
    BY <2>8 DEF ControlService
  <2>9. CASE DeleteService(p)
    BY <2>9 DEF DeleteService
  <2>10. CASE RunBroker(p)
    BY <2>10 DEF RunBroker, DebugMode
  <2>11. CASE DispatcherFails(p)
    BY <2>11 DEF DispatcherFails, Return
  <2>12. CASE BrokerEnds(p)
    BY <2>12 DEF BrokerEnds, DebugMode, ServiceGone, Return
  <2>13. CASE Deinit(p)
    BY <2>13 DEF Deinit, ClosesLog
  <2>14. CASE Kill(p)
    BY <2>14 DEF Kill, ClosesLog, ServiceGone, Return
  <2>15. CASE StartService(p)
    BY <2>15 DEF StartService
  <2> QED
    BY <1>1, <2>1, <2>2, <2>3, <2>4, <2>5, <2>6, <2>7, <2>8,
       <2>9, <2>10, <2>11, <2>12, <2>13, <2>14, <2>15
       DEF Process
<1>2. CASE StopService
  BY <1>2 DEF StopService
<1>3. CASE UNCHANGED vars
  BY <1>3
<1> QED  BY <1>1, <1>2, <1>3 DEF Next

-----------------------------------------------------------------------------
\* The inductive invariant holds in every state of every behaviour.
LEMMA Inductive == Spec => []IInv
<1>1. Init => IInv
  BY MainAssumption
     DEF Init, IInv, TypeOK, Options, LogInv, PastInit, ScmInv
<1>2. IInv /\ [Next]_vars => IInv'
  BY TypeStep, LogStep, ScmStep DEF IInv
<1> QED  BY <1>1, <1>2, PTL DEF Spec

\* Every variable keeps its type, and whatever options are used, a broker is
\* run by a debug session or by the service only, and a service is removed by
\* -remove only.
THEOREM TypeCorrect == Spec => []TypeOK
<1>1. IInv => TypeOK  BY DEF IInv
<1> QED  BY <1>1, Inductive, PTL

\* However many invocations there are, at most one runs a broker, and
\* broker.log is its log.
THEOREM OneBrokerAtATime == Spec => []OneBrokerOneLog
<1>1. IInv => OneBrokerOneLog
  BY DEF IInv, LogInv, PastInit, OneBrokerOneLog
<1> QED  BY <1>1, Inductive, PTL

\* An invocation with -remove never gets as far as a running service.
THEOREM RemoveNeverStops == Spec => []RemoveFindsStopped
<1>1. IInv => RemoveFindsStopped
  <2> SUFFICES ASSUME IInv, NEW p \in Processes,
                      proc[p] \in {"control", "stopping", "delete"}, state = "RUNNING"
               PROVE  FALSE
    BY DEF RemoveFindsStopped
  <2>1. service \in Processes /\ proc[service] = "running"
    BY DEF IInv, TypeOK, ScmInv
  <2>2. log_writer = p /\ log_writer = service
    BY <2>1 DEF IInv, LogInv, PastInit
  <2> QED  BY <2>1, <2>2
<1> QED  BY <1>1, Inductive, PTL
=============================================================================
