--------------------------- MODULE MacServiceProofs ---------------------------
(***************************************************************************)
(* Proofs that the macOS daemon keeps to the specification of BrokerShell, *)
(* so that the shell's theorems hold in it, and of the daemon's own safety *)
(* properties.                                                             *)
(***************************************************************************)
EXTENDS MacService, BrokerShellProofs

\* The main thread runs the daemon's life: what has happened at each place.
MainInv ==
  /\ main \notin {"init", "ended"} => pc # "init" /\ ready_to_run_
  /\ main # "ended" => pc # "done"
  /\ shell_thread_ => main \notin {"init", "signal", "start"}
  /\ main \in {"observe", "enter", "loop"} => shell_thread_
  /\ ~shell_thread_ /\ main # "ended" => pc \in {"init", "run"}
  /\ handler # "none" => main \notin {"init", "signal"}
  /\ req_pc[Main] # "idle" => main = "loop"

\* What the handler has done: the loop that it stopped is left only when the
\* shell's thread has been joined.
HandlerInv ==
  /\ loop_stopped => main \in {"loop", "deinit", "ended"}
  /\ loop_stopped => handler \in {"shutdown", "join", "done"}
  /\ loop_stopped /\ main = "loop" /\ handler = "done" => pc = "returned"
  /\ main = "deinit" /\ shell_thread_ => handler = "done" /\ pc = "returned"
  /\ main = "deinit" /\ ~shell_thread_ => ~loop_stopped

\* The handler waits, on the thread that runs the loop, for a shell that it
\* has told to shut down, whether a broker was running or not; and while it
\* waits, the loop it interrupted is one that will not go on.
TermAnswered ==
  /\ handler \in {"join", "done"} => shutdown_requested_
  /\ handler \in {"shutdown", "join"} => (loop_stopped <=> main = "loop")

MacIInv == MacTypeOK /\ MainInv /\ HandlerInv /\ NetChangeKept /\ TermAnswered

-----------------------------------------------------------------------------
\* Every step of the daemon is a step of BrokerShell or leaves it alone.
LEMMA ShellStep ==
  ASSUME [MacNext]_allVars
  PROVE  [Next]_vars
<1>1. Main \in Requesters /\ kNetworkChangeCooldownMs \in Cooldowns
  BY MacAssumption
<1>2. CASE MacNext
  <2>1. CASE MainThread
    BY <1>1, <2>1
       DEF MainThread, ServiceInit, InstallHandler, StartShellThread,
           StartFails, AddObserver, RunLoop, InterfaceChangeCallback,
           RequestForNetwork, CallbackLock, CallbackBody, LeaveLoop,
           ServiceDeinit, Next, Shell, Requester
  <2>2. CASE KilledBySignal \/ HandleSignal \/ NetworkChange
    BY <2>2 DEF KilledBySignal, HandleSignal, NetworkChange
  <2>3. CASE Handler
    BY <2>3 DEF Handler, RemoveObserver, StopLoop, ShutdownFromHandler,
                ShutdownShell, JoinShellThread, Next, Environment
  <2>4. CASE ShellThread
    BY <2>4 DEF ShellThread, Next, Shell
  <2>5. CASE OtherThreads
    BY <2>5 DEF OtherThreads, Next, Environment
  <2> QED  BY <1>2, <2>1, <2>2, <2>3, <2>4, <2>5 DEF MacNext
<1>3. CASE UNCHANGED allVars
  BY <1>3 DEF allVars
<1> QED  BY <1>2, <1>3

\* The daemon keeps to the specification of BrokerShell: its main thread and
\* its signal handler call the shell only as BrokerShell allows, so that what
\* is proved of the shell holds in the daemon.
THEOREM MacImplementsShell == MacSpec => Spec
<1>1. MacInit => Init
  BY DEF MacInit
<1>2. [MacNext]_allVars => [Next]_vars
  BY ShellStep
<1> QED  BY <1>1, <1>2, PTL DEF MacSpec, Spec

\* In particular the daemon is a RestartService.
THEOREM MacImplementsService == MacSpec => Implements
  BY MacImplementsShell, ShellImplementsService

\* And once the SIGTERM handler has called AsyncShutdown, the shell's thread
\* that it joins takes a bounded number of steps.
THEOREM MacShutdownMakesProgress == MacSpec => ShutdownProgress
  BY MacImplementsShell, ShutdownMakesProgress

\* Every step keeps the types of the daemon's variables; that main goes on only
\* after a successful Init is part of MainInv.
LEMMA MacTypeStep ==
  ASSUME MacTypeOK, [MacNext]_allVars, MainInv'
  PROVE  MacTypeOK'
<1> USE MacAssumption
        DEF MacTypeOK, MainInv, vars, shellVars,
            setupVars, configVars, brokerVars, requestVars, reqVars, cbVars,
            otherVars, historyVars, mainVars, loopVars, macVars, allVars, Go,
            Pass, Acquire, Release, At, HandlerStep, Uninterrupted
<1>1. CASE main # "ended" /\ ServiceInit
  BY <1>1 DEF ServiceInit, AfterInit, InitShell
<1>2. CASE main # "ended" /\ InstallHandler
  BY <1>2 DEF InstallHandler
<1>3. CASE main # "ended" /\ StartShellThread
  BY <1>3 DEF StartShellThread
<1>4. CASE main # "ended" /\ StartFails
  BY <1>4 DEF StartFails
<1>5. CASE main # "ended" /\ AddObserver
  BY <1>5 DEF AddObserver
<1>6. CASE main # "ended" /\ RunLoop
  BY <1>6 DEF RunLoop
<1>7. CASE main # "ended" /\ InterfaceChangeCallback
  BY <1>7 DEF InterfaceChangeCallback, RequestForNetwork, RequestRestart
<1>8. CASE main # "ended" /\ CallbackLock
  BY <1>8 DEF CallbackLock, RequestLock
<1>9. CASE main # "ended" /\ CallbackBody
  BY <1>9 DEF CallbackBody, RequestBody, LockedRequestRestart
<1>10. CASE main # "ended" /\ LeaveLoop
  BY <1>10 DEF LeaveLoop
<1>11. CASE main # "ended" /\ ServiceDeinit
  BY <1>11 DEF ServiceDeinit, Deinit
<1>12. CASE main # "ended" /\ KilledBySignal
  BY <1>12 DEF KilledBySignal
<1>13. CASE main # "ended" /\ HandleSignal
  BY <1>13 DEF HandleSignal
<1>14. CASE main # "ended" /\ RemoveObserver
  BY <1>14 DEF RemoveObserver
<1>15. CASE main # "ended" /\ StopLoop
  BY <1>15 DEF StopLoop, LoopRuns
<1>16. CASE main # "ended" /\ ShutdownFromHandler
  BY <1>16 DEF ShutdownFromHandler, ShutdownShell, AsyncShutdown
<1>17. CASE main # "ended" /\ JoinShellThread
  BY <1>17 DEF JoinShellThread, Joined
<1>18. CASE main # "ended" /\ ShellThread
  <2>1. CASE RunEnter
    BY <1>18, <2>1 DEF ShellThread, RunEnter
  <2>2. CASE RunFails
    BY <1>18, <2>2 DEF ShellThread, RunFails
  <2>3. CASE LoopTop
    BY <1>18, <2>3 DEF ShellThread, LoopTop
  <2>4. CASE CheckShutdown
    BY <1>18, <2>4 DEF ShellThread, CheckShutdown
  <2>5. CASE PollLock
    BY <1>18, <2>5 DEF ShellThread, PollLock
  <2>6. CASE TimeToRestartBroker
    BY <1>18, <2>6 DEF ShellThread, TimeToRestartBroker, TakeRequest, NotYet
  <2>7. CASE ShutdownBroker
    BY <1>18, <2>7 DEF ShellThread, ShutdownBroker
  <2>8. CASE BrokerStopped
    BY <1>18, <2>8 DEF ShellThread, BrokerStopped
  <2>9. CASE ReloadConfig
    BY <1>18, <2>9 DEF ShellThread, ReloadConfig
  <2>10. CASE ApplyLock
    BY <1>18, <2>10 DEF ShellThread, ApplyLock
  <2>11. CASE ApplySettingsChanges
    BY <1>18, <2>11 DEF ShellThread, ApplySettingsChanges, TakeScope
  <2>12. CASE Sleep
    BY <1>18, <2>12 DEF ShellThread, Sleep
  <2>13. CASE RdmnetDeinit
    BY <1>18, <2>13 DEF ShellThread, RdmnetDeinit
  <2> QED
    BY <1>18, <2>1, <2>2, <2>3, <2>4, <2>5, <2>6, <2>7, <2>8,
       <2>9, <2>10, <2>11, <2>12, <2>13
       DEF ShellThread, Run
<1>19. CASE main # "ended" /\ OtherThreads
  <2>1. UNCHANGED macVars
    BY <1>19 DEF OtherThreads
  <2>2. ASSUME NEW scope \in Scopes, HandleScopeChanged(scope)
        PROVE  MacTypeOK'
    BY <2>1, <2>2 DEF HandleScopeChanged
  <2>3. CASE ScopeLock
    BY <2>1, <2>3 DEF ScopeLock
  <2>4. CASE ScopeBody
    <3>1. restart_requested_'
      BY <2>4 DEF ScopeBody, RequestForScope, LockedRequestRestart
    <3> QED  BY <2>1, <2>4, <3>1 DEF ScopeBody
  <2>5. CASE Tick
    BY <2>1, <2>5 DEF Tick
  <2>6. ASSUME NEW file \in ConfFiles, WriteConfFile(file)
        PROVE  MacTypeOK'
    BY <2>1, <2>6 DEF WriteConfFile
  <2> QED  BY <1>19, <2>2, <2>3, <2>4, <2>5, <2>6 DEF OtherThreads, Library
<1>20. CASE main # "ended" /\ NetworkChange
  BY <1>20 DEF NetworkChange
<1>21. CASE UNCHANGED allVars
  BY <1>21
<1> QED
  BY <1>1, <1>2, <1>3, <1>4, <1>5, <1>6, <1>7, <1>8, <1>9, <1>10, <1>11,
     <1>12, <1>13, <1>14, <1>15, <1>16, <1>17, <1>18, <1>19, <1>20, <1>21
     DEF MacNext, MainThread, Handler

\* Every step keeps the daemon's life in order.
LEMMA MainStep ==
  ASSUME TypeOK, MacTypeOK, MainInv, HandlerInv, [MacNext]_allVars
  PROVE  MainInv'
<1> USE MacAssumption
        DEF TypeOK, ShellTypeOK, RequestTypeOK, MacTypeOK, MainInv,
            HandlerInv, vars, shellVars,
            setupVars, configVars, brokerVars, requestVars, reqVars, cbVars,
            otherVars, historyVars, mainVars, loopVars, macVars, allVars, Go,
            Pass, Acquire, Release, At, HandlerStep, Uninterrupted
<1>1. CASE main # "ended" /\ ServiceInit
  BY <1>1 DEF ServiceInit, AfterInit, InitShell
<1>2. CASE main # "ended" /\ InstallHandler
  BY <1>2 DEF InstallHandler
<1>3. CASE main # "ended" /\ StartShellThread
  BY <1>3 DEF StartShellThread
<1>4. CASE main # "ended" /\ StartFails
  BY <1>4 DEF StartFails
<1>5. CASE main # "ended" /\ AddObserver
  BY <1>5 DEF AddObserver
<1>6. CASE main # "ended" /\ RunLoop
  BY <1>6 DEF RunLoop
<1>7. CASE main # "ended" /\ InterfaceChangeCallback
  BY <1>7 DEF InterfaceChangeCallback, RequestForNetwork, RequestRestart
<1>8. CASE main # "ended" /\ CallbackLock
  BY <1>8 DEF CallbackLock, RequestLock
<1>9. CASE main # "ended" /\ CallbackBody
  BY <1>9 DEF CallbackBody, RequestBody, LockedRequestRestart
<1>10. CASE main # "ended" /\ LeaveLoop
  BY <1>10 DEF LeaveLoop
<1>11. CASE main # "ended" /\ ServiceDeinit
  BY <1>11 DEF ServiceDeinit, Deinit
<1>12. CASE main # "ended" /\ KilledBySignal
  BY <1>12 DEF KilledBySignal
<1>13. CASE main # "ended" /\ HandleSignal
  BY <1>13 DEF HandleSignal
<1>14. CASE main # "ended" /\ RemoveObserver
  BY <1>14 DEF RemoveObserver
<1>15. CASE main # "ended" /\ StopLoop
  BY <1>15 DEF StopLoop, LoopRuns
<1>16. CASE main # "ended" /\ ShutdownFromHandler
  BY <1>16 DEF ShutdownFromHandler, ShutdownShell, AsyncShutdown
<1>17. CASE main # "ended" /\ JoinShellThread
  BY <1>17 DEF JoinShellThread, Joined
<1>18. CASE main # "ended" /\ ShellThread
  <2>1. CASE RunEnter
    BY <1>18, <2>1 DEF ShellThread, RunEnter
  <2>2. CASE RunFails
    BY <1>18, <2>2 DEF ShellThread, RunFails
  <2>3. CASE LoopTop
    BY <1>18, <2>3 DEF ShellThread, LoopTop
  <2>4. CASE CheckShutdown
    BY <1>18, <2>4 DEF ShellThread, CheckShutdown
  <2>5. CASE PollLock
    BY <1>18, <2>5 DEF ShellThread, PollLock
  <2>6. CASE TimeToRestartBroker
    BY <1>18, <2>6 DEF ShellThread, TimeToRestartBroker, TakeRequest, NotYet
  <2>7. CASE ShutdownBroker
    BY <1>18, <2>7 DEF ShellThread, ShutdownBroker
  <2>8. CASE BrokerStopped
    BY <1>18, <2>8 DEF ShellThread, BrokerStopped
  <2>9. CASE ReloadConfig
    BY <1>18, <2>9 DEF ShellThread, ReloadConfig
  <2>10. CASE ApplyLock
    BY <1>18, <2>10 DEF ShellThread, ApplyLock
  <2>11. CASE ApplySettingsChanges
    BY <1>18, <2>11 DEF ShellThread, ApplySettingsChanges, TakeScope
  <2>12. CASE Sleep
    BY <1>18, <2>12 DEF ShellThread, Sleep
  <2>13. CASE RdmnetDeinit
    BY <1>18, <2>13 DEF ShellThread, RdmnetDeinit
  <2> QED
    BY <1>18, <2>1, <2>2, <2>3, <2>4, <2>5, <2>6, <2>7, <2>8,
       <2>9, <2>10, <2>11, <2>12, <2>13
       DEF ShellThread, Run
<1>19. CASE main # "ended" /\ OtherThreads
  <2>1. UNCHANGED macVars
    BY <1>19 DEF OtherThreads
  <2>2. ASSUME NEW scope \in Scopes, HandleScopeChanged(scope)
        PROVE  MainInv'
    BY <2>1, <2>2 DEF HandleScopeChanged
  <2>3. CASE ScopeLock
    BY <2>1, <2>3 DEF ScopeLock
  <2>4. CASE ScopeBody
    <3>1. restart_requested_'
      BY <2>4 DEF ScopeBody, RequestForScope, LockedRequestRestart
    <3> QED  BY <2>1, <2>4, <3>1 DEF ScopeBody
  <2>5. CASE Tick
    BY <2>1, <2>5 DEF Tick
  <2>6. ASSUME NEW file \in ConfFiles, WriteConfFile(file)
        PROVE  MainInv'
    BY <2>1, <2>6 DEF WriteConfFile
  <2> QED  BY <1>19, <2>2, <2>3, <2>4, <2>5, <2>6 DEF OtherThreads, Library
<1>20. CASE main # "ended" /\ NetworkChange
  BY <1>20 DEF NetworkChange
<1>21. CASE UNCHANGED allVars
  BY <1>21
<1> QED
  BY <1>1, <1>2, <1>3, <1>4, <1>5, <1>6, <1>7, <1>8, <1>9, <1>10, <1>11,
     <1>12, <1>13, <1>14, <1>15, <1>16, <1>17, <1>18, <1>19, <1>20, <1>21
     DEF MacNext, MainThread, Handler

\* Every step keeps the handler in step with the loop and the thread.
LEMMA HandlerInvStep ==
  ASSUME TypeOK, MacTypeOK, MainInv, HandlerInv, [MacNext]_allVars
  PROVE  HandlerInv'
<1> USE MacAssumption
        DEF TypeOK, ShellTypeOK, MacTypeOK, MainInv, HandlerInv, vars, shellVars,
            setupVars, configVars, brokerVars, requestVars, reqVars, cbVars,
            otherVars, historyVars, mainVars, loopVars, macVars, allVars, Go,
            Pass, Acquire, Release, At, HandlerStep, Uninterrupted
<1>1. CASE main # "ended" /\ ServiceInit
  BY <1>1 DEF ServiceInit, AfterInit, InitShell
<1>2. CASE main # "ended" /\ InstallHandler
  BY <1>2 DEF InstallHandler
<1>3. CASE main # "ended" /\ StartShellThread
  BY <1>3 DEF StartShellThread
<1>4. CASE main # "ended" /\ StartFails
  BY <1>4 DEF StartFails
<1>5. CASE main # "ended" /\ AddObserver
  BY <1>5 DEF AddObserver
<1>6. CASE main # "ended" /\ RunLoop
  BY <1>6 DEF RunLoop
<1>7. CASE main # "ended" /\ InterfaceChangeCallback
  BY <1>7 DEF InterfaceChangeCallback, RequestForNetwork, RequestRestart
<1>8. CASE main # "ended" /\ CallbackLock
  BY <1>8 DEF CallbackLock, RequestLock
<1>9. CASE main # "ended" /\ CallbackBody
  BY <1>9 DEF CallbackBody, RequestBody, LockedRequestRestart
<1>10. CASE main # "ended" /\ LeaveLoop
  BY <1>10 DEF LeaveLoop
<1>11. CASE main # "ended" /\ ServiceDeinit
  BY <1>11 DEF ServiceDeinit, Deinit
<1>12. CASE main # "ended" /\ KilledBySignal
  BY <1>12 DEF KilledBySignal
<1>13. CASE main # "ended" /\ HandleSignal
  BY <1>13 DEF HandleSignal
<1>14. CASE main # "ended" /\ RemoveObserver
  BY <1>14 DEF RemoveObserver
<1>15. CASE main # "ended" /\ StopLoop
  BY <1>15 DEF StopLoop, LoopRuns
<1>16. CASE main # "ended" /\ ShutdownFromHandler
  BY <1>16 DEF ShutdownFromHandler, ShutdownShell, AsyncShutdown
<1>17. CASE main # "ended" /\ JoinShellThread
  BY <1>17 DEF JoinShellThread, Joined
<1>18. CASE main # "ended" /\ ShellThread
  <2>1. CASE RunEnter
    BY <1>18, <2>1 DEF ShellThread, RunEnter
  <2>2. CASE RunFails
    BY <1>18, <2>2 DEF ShellThread, RunFails
  <2>3. CASE LoopTop
    BY <1>18, <2>3 DEF ShellThread, LoopTop
  <2>4. CASE CheckShutdown
    BY <1>18, <2>4 DEF ShellThread, CheckShutdown
  <2>5. CASE PollLock
    BY <1>18, <2>5 DEF ShellThread, PollLock
  <2>6. CASE TimeToRestartBroker
    BY <1>18, <2>6 DEF ShellThread, TimeToRestartBroker, TakeRequest, NotYet
  <2>7. CASE ShutdownBroker
    BY <1>18, <2>7 DEF ShellThread, ShutdownBroker
  <2>8. CASE BrokerStopped
    BY <1>18, <2>8 DEF ShellThread, BrokerStopped
  <2>9. CASE ReloadConfig
    BY <1>18, <2>9 DEF ShellThread, ReloadConfig
  <2>10. CASE ApplyLock
    BY <1>18, <2>10 DEF ShellThread, ApplyLock
  <2>11. CASE ApplySettingsChanges
    BY <1>18, <2>11 DEF ShellThread, ApplySettingsChanges, TakeScope
  <2>12. CASE Sleep
    BY <1>18, <2>12 DEF ShellThread, Sleep
  <2>13. CASE RdmnetDeinit
    BY <1>18, <2>13 DEF ShellThread, RdmnetDeinit
  <2> QED
    BY <1>18, <2>1, <2>2, <2>3, <2>4, <2>5, <2>6, <2>7, <2>8,
       <2>9, <2>10, <2>11, <2>12, <2>13
       DEF ShellThread, Run
<1>19. CASE main # "ended" /\ OtherThreads
  <2>1. UNCHANGED macVars
    BY <1>19 DEF OtherThreads
  <2>2. ASSUME NEW scope \in Scopes, HandleScopeChanged(scope)
        PROVE  HandlerInv'
    BY <2>1, <2>2 DEF HandleScopeChanged
  <2>3. CASE ScopeLock
    BY <2>1, <2>3 DEF ScopeLock
  <2>4. CASE ScopeBody
    <3>1. restart_requested_'
      BY <2>4 DEF ScopeBody, RequestForScope, LockedRequestRestart
    <3> QED  BY <2>1, <2>4, <3>1 DEF ScopeBody
  <2>5. CASE Tick
    BY <2>1, <2>5 DEF Tick
  <2>6. ASSUME NEW file \in ConfFiles, WriteConfFile(file)
        PROVE  HandlerInv'
    BY <2>1, <2>6 DEF WriteConfFile
  <2> QED  BY <1>19, <2>2, <2>3, <2>4, <2>5, <2>6 DEF OtherThreads, Library
<1>20. CASE main # "ended" /\ NetworkChange
  BY <1>20 DEF NetworkChange
<1>21. CASE UNCHANGED allVars
  BY <1>21
<1> QED
  BY <1>1, <1>2, <1>3, <1>4, <1>5, <1>6, <1>7, <1>8, <1>9, <1>10, <1>11,
     <1>12, <1>13, <1>14, <1>15, <1>16, <1>17, <1>18, <1>19, <1>20, <1>21
     DEF MacNext, MainThread, Handler

\* Every step keeps every observed network change.
LEMMA NetStep ==
  ASSUME TypeOK, BrokerInv, MacTypeOK, NetChangeKept, [MacNext]_allVars
  PROVE  NetChangeKept'
<1> USE MacAssumption
        DEF TypeOK, ShellTypeOK, RequestTypeOK, BrokerInv,
            MacTypeOK, NetChangeKept, ShellPhase, vars, shellVars,
            setupVars, configVars, brokerVars, requestVars, reqVars, cbVars,
            otherVars, historyVars, mainVars, loopVars, macVars, allVars, Go,
            Pass, Acquire, Release, At, HandlerStep, Uninterrupted
<1>1. CASE main # "ended" /\ ServiceInit
  BY <1>1 DEF ServiceInit, AfterInit, InitShell
<1>2. CASE main # "ended" /\ InstallHandler
  BY <1>2 DEF InstallHandler
<1>3. CASE main # "ended" /\ StartShellThread
  BY <1>3 DEF StartShellThread
<1>4. CASE main # "ended" /\ StartFails
  BY <1>4 DEF StartFails
<1>5. CASE main # "ended" /\ AddObserver
  BY <1>5 DEF AddObserver
<1>6. CASE main # "ended" /\ RunLoop
  BY <1>6 DEF RunLoop
<1>7. CASE main # "ended" /\ InterfaceChangeCallback
  BY <1>7 DEF InterfaceChangeCallback, RequestForNetwork, RequestRestart
<1>8. CASE main # "ended" /\ CallbackLock
  BY <1>8 DEF CallbackLock, RequestLock
<1>9. CASE main # "ended" /\ CallbackBody
  BY <1>9 DEF CallbackBody, RequestBody, LockedRequestRestart
<1>10. CASE main # "ended" /\ LeaveLoop
  BY <1>10 DEF LeaveLoop
<1>11. CASE main # "ended" /\ ServiceDeinit
  BY <1>11 DEF ServiceDeinit, Deinit
<1>12. CASE main # "ended" /\ KilledBySignal
  BY <1>12 DEF KilledBySignal
<1>13. CASE main # "ended" /\ HandleSignal
  BY <1>13 DEF HandleSignal
<1>14. CASE main # "ended" /\ RemoveObserver
  BY <1>14 DEF RemoveObserver
<1>15. CASE main # "ended" /\ StopLoop
  BY <1>15 DEF StopLoop, LoopRuns
<1>16. CASE main # "ended" /\ ShutdownFromHandler
  BY <1>16 DEF ShutdownFromHandler, ShutdownShell, AsyncShutdown
<1>17. CASE main # "ended" /\ JoinShellThread
  BY <1>17 DEF JoinShellThread, Joined
<1>18. CASE main # "ended" /\ ShellThread
  <2>1. CASE RunEnter
    BY <1>18, <2>1 DEF ShellThread, RunEnter
  <2>2. CASE RunFails
    BY <1>18, <2>2 DEF ShellThread, RunFails
  <2>3. CASE LoopTop
    BY <1>18, <2>3 DEF ShellThread, LoopTop
  <2>4. CASE CheckShutdown
    BY <1>18, <2>4 DEF ShellThread, CheckShutdown
  <2>5. CASE PollLock
    BY <1>18, <2>5 DEF ShellThread, PollLock
  <2>6. CASE TimeToRestartBroker
    BY <1>18, <2>6 DEF ShellThread, TimeToRestartBroker, TakeRequest, NotYet
  <2>7. CASE ShutdownBroker
    BY <1>18, <2>7 DEF ShellThread, ShutdownBroker
  <2>8. CASE BrokerStopped
    BY <1>18, <2>8 DEF ShellThread, BrokerStopped
  <2>9. CASE ReloadConfig
    BY <1>18, <2>9 DEF ShellThread, ReloadConfig
  <2>10. CASE ApplyLock
    BY <1>18, <2>10 DEF ShellThread, ApplyLock
  <2>11. CASE ApplySettingsChanges
    BY <1>18, <2>11 DEF ShellThread, ApplySettingsChanges, TakeScope
  <2>12. CASE Sleep
    BY <1>18, <2>12 DEF ShellThread, Sleep
  <2>13. CASE RdmnetDeinit
    BY <1>18, <2>13 DEF ShellThread, RdmnetDeinit
  <2> QED
    BY <1>18, <2>1, <2>2, <2>3, <2>4, <2>5, <2>6, <2>7, <2>8,
       <2>9, <2>10, <2>11, <2>12, <2>13
       DEF ShellThread, Run
<1>19. CASE main # "ended" /\ OtherThreads
  <2>1. UNCHANGED macVars
    BY <1>19 DEF OtherThreads
  <2>2. ASSUME NEW scope \in Scopes, HandleScopeChanged(scope)
        PROVE  NetChangeKept'
    BY <2>1, <2>2 DEF HandleScopeChanged
  <2>3. CASE ScopeLock
    BY <2>1, <2>3 DEF ScopeLock
  <2>4. CASE ScopeBody
    <3>1. restart_requested_'
      BY <2>4 DEF ScopeBody, RequestForScope, LockedRequestRestart
    <3> QED  BY <2>1, <2>4, <3>1 DEF ScopeBody
  <2>5. CASE Tick
    BY <2>1, <2>5 DEF Tick
  <2>6. ASSUME NEW file \in ConfFiles, WriteConfFile(file)
        PROVE  NetChangeKept'
    BY <2>1, <2>6 DEF WriteConfFile
  <2> QED  BY <1>19, <2>2, <2>3, <2>4, <2>5, <2>6 DEF OtherThreads, Library
<1>20. CASE main # "ended" /\ NetworkChange
  BY <1>20 DEF NetworkChange
<1>21. CASE UNCHANGED allVars
  BY <1>21
<1> QED
  BY <1>1, <1>2, <1>3, <1>4, <1>5, <1>6, <1>7, <1>8, <1>9, <1>10, <1>11,
     <1>12, <1>13, <1>14, <1>15, <1>16, <1>17, <1>18, <1>19, <1>20, <1>21
     DEF MacNext, MainThread, Handler

\* Every step keeps what the handler's wait rests on.
LEMMA TermStep ==
  ASSUME TypeOK, MacTypeOK, MainInv, HandlerInv, TermAnswered, [MacNext]_allVars
  PROVE  TermAnswered'
<1> USE MacAssumption
        DEF TypeOK, ShellTypeOK, MacTypeOK, MainInv, HandlerInv,
            TermAnswered, vars, shellVars,
            setupVars, configVars, brokerVars, requestVars, reqVars, cbVars,
            otherVars, historyVars, mainVars, loopVars, macVars, allVars, Go,
            Pass, Acquire, Release, At, HandlerStep, Uninterrupted
<1>1. CASE main # "ended" /\ ServiceInit
  BY <1>1 DEF ServiceInit, AfterInit, InitShell
<1>2. CASE main # "ended" /\ InstallHandler
  BY <1>2 DEF InstallHandler
<1>3. CASE main # "ended" /\ StartShellThread
  BY <1>3 DEF StartShellThread
<1>4. CASE main # "ended" /\ StartFails
  BY <1>4 DEF StartFails
<1>5. CASE main # "ended" /\ AddObserver
  BY <1>5 DEF AddObserver
<1>6. CASE main # "ended" /\ RunLoop
  BY <1>6 DEF RunLoop
<1>7. CASE main # "ended" /\ InterfaceChangeCallback
  BY <1>7 DEF InterfaceChangeCallback, RequestForNetwork, RequestRestart
<1>8. CASE main # "ended" /\ CallbackLock
  BY <1>8 DEF CallbackLock, RequestLock
<1>9. CASE main # "ended" /\ CallbackBody
  BY <1>9 DEF CallbackBody, RequestBody, LockedRequestRestart
<1>10. CASE main # "ended" /\ LeaveLoop
  BY <1>10 DEF LeaveLoop
<1>11. CASE main # "ended" /\ ServiceDeinit
  BY <1>11 DEF ServiceDeinit, Deinit
<1>12. CASE main # "ended" /\ KilledBySignal
  BY <1>12 DEF KilledBySignal
<1>13. CASE main # "ended" /\ HandleSignal
  BY <1>13 DEF HandleSignal
<1>14. CASE main # "ended" /\ RemoveObserver
  BY <1>14 DEF RemoveObserver
<1>15. CASE main # "ended" /\ StopLoop
  BY <1>15 DEF StopLoop, LoopRuns
<1>16. CASE main # "ended" /\ ShutdownFromHandler
  BY <1>16 DEF ShutdownFromHandler, ShutdownShell, AsyncShutdown
<1>17. CASE main # "ended" /\ JoinShellThread
  BY <1>17 DEF JoinShellThread, Joined
<1>18. CASE main # "ended" /\ ShellThread
  <2>1. CASE RunEnter
    BY <1>18, <2>1 DEF ShellThread, RunEnter
  <2>2. CASE RunFails
    BY <1>18, <2>2 DEF ShellThread, RunFails
  <2>3. CASE LoopTop
    BY <1>18, <2>3 DEF ShellThread, LoopTop
  <2>4. CASE CheckShutdown
    BY <1>18, <2>4 DEF ShellThread, CheckShutdown
  <2>5. CASE PollLock
    BY <1>18, <2>5 DEF ShellThread, PollLock
  <2>6. CASE TimeToRestartBroker
    BY <1>18, <2>6 DEF ShellThread, TimeToRestartBroker, TakeRequest, NotYet
  <2>7. CASE ShutdownBroker
    BY <1>18, <2>7 DEF ShellThread, ShutdownBroker
  <2>8. CASE BrokerStopped
    BY <1>18, <2>8 DEF ShellThread, BrokerStopped
  <2>9. CASE ReloadConfig
    BY <1>18, <2>9 DEF ShellThread, ReloadConfig
  <2>10. CASE ApplyLock
    BY <1>18, <2>10 DEF ShellThread, ApplyLock
  <2>11. CASE ApplySettingsChanges
    BY <1>18, <2>11 DEF ShellThread, ApplySettingsChanges, TakeScope
  <2>12. CASE Sleep
    BY <1>18, <2>12 DEF ShellThread, Sleep
  <2>13. CASE RdmnetDeinit
    BY <1>18, <2>13 DEF ShellThread, RdmnetDeinit
  <2> QED
    BY <1>18, <2>1, <2>2, <2>3, <2>4, <2>5, <2>6, <2>7, <2>8,
       <2>9, <2>10, <2>11, <2>12, <2>13
       DEF ShellThread, Run
<1>19. CASE main # "ended" /\ OtherThreads
  <2>1. UNCHANGED macVars
    BY <1>19 DEF OtherThreads
  <2>2. ASSUME NEW scope \in Scopes, HandleScopeChanged(scope)
        PROVE  TermAnswered'
    BY <2>1, <2>2 DEF HandleScopeChanged
  <2>3. CASE ScopeLock
    BY <2>1, <2>3 DEF ScopeLock
  <2>4. CASE ScopeBody
    <3>1. restart_requested_'
      BY <2>4 DEF ScopeBody, RequestForScope, LockedRequestRestart
    <3> QED  BY <2>1, <2>4, <3>1 DEF ScopeBody
  <2>5. CASE Tick
    BY <2>1, <2>5 DEF Tick
  <2>6. ASSUME NEW file \in ConfFiles, WriteConfFile(file)
        PROVE  TermAnswered'
    BY <2>1, <2>6 DEF WriteConfFile
  <2> QED  BY <1>19, <2>2, <2>3, <2>4, <2>5, <2>6 DEF OtherThreads, Library
<1>20. CASE main # "ended" /\ NetworkChange
  BY <1>20 DEF NetworkChange
<1>21. CASE UNCHANGED allVars
  BY <1>21
<1> QED
  BY <1>1, <1>2, <1>3, <1>4, <1>5, <1>6, <1>7, <1>8, <1>9, <1>10, <1>11,
     <1>12, <1>13, <1>14, <1>15, <1>16, <1>17, <1>18, <1>19, <1>20, <1>21
     DEF MacNext, MainThread, Handler

-----------------------------------------------------------------------------
\* The daemon's inductive invariant holds in every state of every behaviour.
LEMMA MacInductive == MacSpec => [](IInv /\ MacIInv)
<1>1. MacSpec => []IInv
  BY MacImplementsShell, Inductive, PTL
<1>2. MacInit => MacIInv
  BY MacAssumption
     DEF MacInit, Init, MacIInv, MacTypeOK, MainInv, HandlerInv, NetChangeKept,
         TermAnswered
<1>3. IInv /\ MacIInv /\ [MacNext]_allVars => MacIInv'
  BY MacTypeStep, MainStep, HandlerInvStep, NetStep, TermStep DEF IInv, MacIInv
<1> QED  BY <1>1, <1>2, <1>3, PTL DEF MacSpec

\* The daemon's variables keep their types, and a daemon that could not be
\* initialized goes no further.
THEOREM MacTypeCorrect == MacSpec => []MacTypeOK
<1>1. MacIInv => MacTypeOK  BY DEF MacIInv
<1> QED  BY <1>1, MacInductive, PTL

\* main() reaches Deinit only when the shell's thread has returned from Run.
THEOREM DeinitIsSafe == MacSpec => []DeinitAfterRun
<1>1. MacIInv => DeinitAfterRun
  BY DEF MacIInv, MainInv, HandlerInv, DeinitAfterRun
<1> QED  BY <1>1, MacInductive, PTL

\* No observed network change is forgotten, for every cooldown and whatever
\* the shell and the library are doing.
THEOREM NetChangesAreKept == MacSpec => []NetChangeKept
<1>1. MacIInv => NetChangeKept  BY DEF MacIInv
<1> QED  BY <1>1, MacInductive, PTL

\* When the handler waits for the shell's thread, that thread has been told to
\* shut down and the interrupted loop to stop, wherever the signal found them.
THEOREM TermIsAnswered == MacSpec => []TermAnswered
<1>1. MacIInv => TermAnswered  BY DEF MacIInv
<1> QED  BY <1>1, MacInductive, PTL
=============================================================================
