-------------------------- MODULE WinServiceProofs --------------------------
(***************************************************************************)
(* Proofs about WinService.  The invariants of the threads follow from the *)
(* phases they pass through together; that no change is missed follows     *)
(* from what the two notification mechanisms guarantee in every state of a *)
(* watcher.                                                                *)
(***************************************************************************)
EXTENDS WinService, TLAPS

\* The handle exists exactly from the creation of ServiceThread, and the
\* watchers live between its spawning and its joining them.
ThreadInv ==
  /\ start \in {"begin", "create"} => svc = "none"
  /\ ~service_thread_ => svc = "none"
  /\ conf_pc = "none" <=> svc \in {"none", "spawn"}
  /\ addr_pc = "none" <=> svc \in {"none", "spawn"}
  /\ svc \in {"join_addr", "report", "ended"} => conf_pc = "ended"
  /\ svc \in {"report", "ended"} => addr_pc = "ended"

\* The handler runs only after Start, and STOPPED is reported only without a
\* thread, before the end of Start only by a ServiceThread whose Run failed;
\* the process also ends if ServiceMain throws.
StatusInv ==
  /\ scm \in {"RUNNING", "STOP_PENDING"} => start = "done"
  /\ ctl # "idle" => start = "done"
  /\ scm = "STOPPED" => \/ svc = "ended"
                        \/ svc = "none" /\ start = "done"
  /\ svc = "report" => result # 0
  /\ scm = "STOPPED" /\ start # "done" => start = "report" /\ result # 0
  /\ process = "ended" => /\ svc \in {"none", "ended"}
                          /\ \/ start = "done"
                             \/ start = "begin" /\ svc = "none"
                             \/ start = "report" /\ svc = "ended" /\ result # 0

\* A waiting address watcher has a notification outstanding or its event
\* signalled; one that is about to ask for the next has a restart requested.
ArmedInv ==
  /\ addr_pc = "wait" => addr_pending \/ addr_event
  /\ addr_pc \in {"reset", "rearm"} => restart_requested_
  /\ addr_pending => addr_pc = "wait" /\ ~addr_event
  /\ addr_pc \in {"none", "init", "rearm"} => ~addr_event

IInv == /\ TypeOK
        /\ ThreadInv
        /\ StatusInv
        /\ ArmedInv
        /\ WaitsAnswered
        /\ ConfigChangeKept
        /\ AddrChangeKept

-----------------------------------------------------------------------------
\* Every step keeps the types of the program counters.
LEMMA PcTypeStep ==
  ASSUME IInv, [Next]_vars
  PROVE  PcTypeOK'
<1> USE DEF IInv, TypeOK, PcTypeOK, vars, scmVars, svcVars, shellVars,
            flagVars, watchVars, confVars, addrVars
<1>1. CASE RegisterFails
  BY <1>1 DEF RegisterFails
<1>2. CASE StartPending
  BY <1>2 DEF StartPending, SetServiceStatus
<1>3. CASE CreateServiceThread
  BY <1>3 DEF CreateServiceThread, ThreadInv
<1>4. CASE StartRunning
  BY <1>4 DEF StartRunning, SetServiceStatus
<1>5. CASE Stop
  BY <1>5 DEF Stop, SetServiceStatus
<1>6. CASE Shutdown
  BY <1>6 DEF Shutdown
<1>7. CASE AsyncShutdown
  BY <1>7 DEF AsyncShutdown, Shell!AsyncShutdown
<1>8. CASE WaitServiceThread
  BY <1>8 DEF WaitServiceThread, SetServiceStatus, ThreadSignalled
<1>9. CASE DispatcherReturns
  BY <1>9 DEF DispatcherReturns
<1>10. CASE SpawnWatchers
  BY <1>10 DEF SpawnWatchers
<1>11. CASE StopConfigDetection
  BY <1>11 DEF StopConfigDetection, RunReturned
<1>12. CASE JoinConfig
  BY <1>12 DEF JoinConfig, Joined, TellAddrWatcher
<1>13. CASE JoinAddr
  BY <1>13 DEF JoinAddr, Joined
<1>14. CASE ReportFailure
  BY <1>14 DEF ReportFailure, SetServiceStatus
<1>15. CASE EnterRun
  BY <1>15 DEF EnterRun, Shell!EnterRun, Shell!Move
<1>16. CASE RunFails
  BY <1>16 DEF RunFails, Shell!RunFails, Shell!Move
<1>17. CASE StartBroker
  BY <1>17 DEF StartBroker, Shell!StartBroker, Shell!Move
<1>18. CASE Poll
  BY <1>18 DEF Poll, Shell!Poll, Shell!Move
<1>19. CASE NotYet
  BY <1>19 DEF NotYet, Shell!NotYet, Shell!Move
<1>20. CASE TakeRestart
  BY <1>20 DEF TakeRestart, Shell!TakeRestart, Shell!Move
<1>21. CASE ReloadConfig
  BY <1>21 DEF ReloadConfig, Shell!ReloadConfig, Shell!Move
<1>22. CASE RunReturns
  BY <1>22 DEF RunReturns, Shell!RunReturns, Shell!Move
<1>23. CASE InitConfigChangeDetectionHandle
  BY <1>23 DEF InitConfigChangeDetectionHandle, ConfigLoop
<1>24. CASE WaitConfigChange
  BY <1>24 DEF WaitConfigChange
<1>25. CASE StopConfigWatcher
  BY <1>25 DEF StopConfigWatcher, StopSeen
<1>26. CASE RequestConfigRestart
  BY <1>26 DEF RequestConfigRestart, RequestForConfig, Shell!RequestRestart
<1>27. CASE FindNextChangeNotification
  BY <1>27 DEF FindNextChangeNotification, ConfigLoop
<1>28. CASE InitAddrChangeDetection
  BY <1>28 DEF InitAddrChangeDetection
<1>29. CASE WaitAddrChange
  BY <1>29 DEF WaitAddrChange, Shell!RequestRestart
<1>30. CASE StopAddrWatcher
  BY <1>30 DEF StopAddrWatcher, DeinitAddrChangeDetection
<1>31. CASE GetNextAddrChange
  BY <1>31 DEF GetNextAddrChange, ResetEvent, NotifyAddrChange
<1>32. CASE ConfigWaitFails
  BY <1>32 DEF ConfigWaitFails
<1>33. CASE AddrWaitFails
  BY <1>33 DEF AddrWaitFails, DeinitAddrChangeDetection
<1>34. CASE ChangeConf
  BY <1>34 DEF ChangeConf
<1>35. CASE ChangeAddr
  BY <1>35 DEF ChangeAddr
<1>36. CASE UNCHANGED vars
  BY <1>36
<1> QED
  BY <1>1, <1>2, <1>3, <1>4, <1>5, <1>6, <1>7, <1>8, <1>9, <1>10, <1>11,
     <1>12, <1>13, <1>14, <1>15, <1>16, <1>17, <1>18, <1>19, <1>20, <1>21,
     <1>22, <1>23, <1>24, <1>25, <1>26, <1>27, <1>28, <1>29, <1>30, <1>31,
     <1>32, <1>33, <1>34, <1>35, <1>36
  DEF Next, Start, ServiceCtrlHandler, ServiceThread, ConfigWatcher,
      AddrWatcher

\* Every step keeps the types of the flags.
LEMMA FlagTypeStep ==
  ASSUME IInv, [Next]_vars
  PROVE  FlagTypeOK'
<1> USE DEF IInv, TypeOK, FlagTypeOK, vars, scmVars, svcVars, shellVars,
            flagVars, watchVars, confVars, addrVars
<1>1. CASE RegisterFails
  BY <1>1 DEF RegisterFails
<1>2. CASE StartPending
  BY <1>2 DEF StartPending, SetServiceStatus
<1>3. CASE CreateServiceThread
  BY <1>3 DEF CreateServiceThread
<1>4. CASE StartRunning
  BY <1>4 DEF StartRunning, SetServiceStatus
<1>5. CASE Stop
  BY <1>5 DEF Stop, SetServiceStatus
<1>6. CASE Shutdown
  BY <1>6 DEF Shutdown
<1>7. CASE AsyncShutdown
  BY <1>7 DEF AsyncShutdown, Shell!AsyncShutdown
<1>8. CASE WaitServiceThread
  BY <1>8 DEF WaitServiceThread, SetServiceStatus, ThreadSignalled
<1>9. CASE DispatcherReturns
  BY <1>9 DEF DispatcherReturns
<1>10. CASE SpawnWatchers
  BY <1>10 DEF SpawnWatchers
<1>11. CASE StopConfigDetection
  BY <1>11 DEF StopConfigDetection, RunReturned
<1>12. CASE JoinConfig
  BY <1>12 DEF JoinConfig, Joined, TellAddrWatcher
<1>13. CASE JoinAddr
  BY <1>13 DEF JoinAddr, Joined
<1>14. CASE ReportFailure
  BY <1>14 DEF ReportFailure, SetServiceStatus
<1>15. CASE EnterRun
  BY <1>15 DEF EnterRun, Shell!EnterRun, Shell!Move
<1>16. CASE RunFails
  BY <1>16 DEF RunFails, Shell!RunFails, Shell!Move
<1>17. CASE StartBroker
  BY <1>17 DEF StartBroker, Shell!StartBroker, Shell!Move
<1>18. CASE Poll
  BY <1>18 DEF Poll, Shell!Poll, Shell!Move
<1>19. CASE NotYet
  BY <1>19 DEF NotYet, Shell!NotYet, Shell!Move
<1>20. CASE TakeRestart
  BY <1>20 DEF TakeRestart, Shell!TakeRestart, Shell!Move
<1>21. CASE ReloadConfig
  BY <1>21 DEF ReloadConfig, Shell!ReloadConfig, Shell!Move
<1>22. CASE RunReturns
  BY <1>22 DEF RunReturns, Shell!RunReturns, Shell!Move
<1>23. CASE InitConfigChangeDetectionHandle
  BY <1>23 DEF InitConfigChangeDetectionHandle, ConfigLoop
<1>24. CASE WaitConfigChange
  BY <1>24 DEF WaitConfigChange
<1>25. CASE StopConfigWatcher
  BY <1>25 DEF StopConfigWatcher, StopSeen
<1>26. CASE RequestConfigRestart
  BY <1>26 DEF RequestConfigRestart, RequestForConfig, Shell!RequestRestart
<1>27. CASE FindNextChangeNotification
  BY <1>27 DEF FindNextChangeNotification, ConfigLoop
<1>28. CASE InitAddrChangeDetection
  BY <1>28 DEF InitAddrChangeDetection
<1>29. CASE WaitAddrChange
  BY <1>29 DEF WaitAddrChange, Shell!RequestRestart
<1>30. CASE StopAddrWatcher
  BY <1>30 DEF StopAddrWatcher, DeinitAddrChangeDetection
<1>31. CASE GetNextAddrChange
  BY <1>31 DEF GetNextAddrChange, ResetEvent, NotifyAddrChange
<1>32. CASE ConfigWaitFails
  BY <1>32 DEF ConfigWaitFails
<1>33. CASE AddrWaitFails
  BY <1>33 DEF AddrWaitFails, DeinitAddrChangeDetection
<1>34. CASE ChangeConf
  BY <1>34 DEF ChangeConf
<1>35. CASE ChangeAddr
  BY <1>35 DEF ChangeAddr
<1>36. CASE UNCHANGED vars
  BY <1>36
<1> QED
  BY <1>1, <1>2, <1>3, <1>4, <1>5, <1>6, <1>7, <1>8, <1>9, <1>10, <1>11,
     <1>12, <1>13, <1>14, <1>15, <1>16, <1>17, <1>18, <1>19, <1>20, <1>21,
     <1>22, <1>23, <1>24, <1>25, <1>26, <1>27, <1>28, <1>29, <1>30, <1>31,
     <1>32, <1>33, <1>34, <1>35, <1>36
  DEF Next, Start, ServiceCtrlHandler, ServiceThread, ConfigWatcher,
      AddrWatcher

\* Every step keeps the order of the counts.
LEMMA CountTypeStep ==
  ASSUME IInv, [Next]_vars
  PROVE  CountTypeOK'
<1> USE WinAssumption DEF IInv, TypeOK, CountTypeOK, vars, scmVars, svcVars, shellVars,
            flagVars, watchVars, confVars, addrVars
<1>1. CASE RegisterFails
  BY <1>1 DEF RegisterFails
<1>2. CASE StartPending
  BY <1>2 DEF StartPending, SetServiceStatus
<1>3. CASE CreateServiceThread
  BY <1>3 DEF CreateServiceThread
<1>4. CASE StartRunning
  BY <1>4 DEF StartRunning, SetServiceStatus
<1>5. CASE Stop
  BY <1>5 DEF Stop, SetServiceStatus
<1>6. CASE Shutdown
  BY <1>6 DEF Shutdown
<1>7. CASE AsyncShutdown
  BY <1>7 DEF AsyncShutdown, Shell!AsyncShutdown
<1>8. CASE WaitServiceThread
  BY <1>8 DEF WaitServiceThread, SetServiceStatus, ThreadSignalled
<1>9. CASE DispatcherReturns
  BY <1>9 DEF DispatcherReturns
<1>10. CASE SpawnWatchers
  BY <1>10 DEF SpawnWatchers
<1>11. CASE StopConfigDetection
  BY <1>11 DEF StopConfigDetection, RunReturned
<1>12. CASE JoinConfig
  BY <1>12 DEF JoinConfig, Joined, TellAddrWatcher
<1>13. CASE JoinAddr
  BY <1>13 DEF JoinAddr, Joined
<1>14. CASE ReportFailure
  BY <1>14 DEF ReportFailure, SetServiceStatus
<1>15. CASE EnterRun
  BY <1>15 DEF EnterRun, Shell!EnterRun, Shell!Move
<1>16. CASE RunFails
  BY <1>16 DEF RunFails, Shell!RunFails, Shell!Move
<1>17. CASE StartBroker
  BY <1>17 DEF StartBroker, Shell!StartBroker, Shell!Move
<1>18. CASE Poll
  BY <1>18 DEF Poll, Shell!Poll, Shell!Move
<1>19. CASE NotYet
  BY <1>19 DEF NotYet, Shell!NotYet, Shell!Move
<1>20. CASE TakeRestart
  BY <1>20 DEF TakeRestart, Shell!TakeRestart, Shell!Move
<1>21. CASE ReloadConfig
  BY <1>21 DEF ReloadConfig, Shell!ReloadConfig, Shell!Move
<1>22. CASE RunReturns
  BY <1>22 DEF RunReturns, Shell!RunReturns, Shell!Move
<1>23. CASE InitConfigChangeDetectionHandle
  BY <1>23 DEF InitConfigChangeDetectionHandle, ConfigLoop
<1>24. CASE WaitConfigChange
  BY <1>24 DEF WaitConfigChange
<1>25. CASE StopConfigWatcher
  BY <1>25 DEF StopConfigWatcher, StopSeen
<1>26. CASE RequestConfigRestart
  BY <1>26 DEF RequestConfigRestart, RequestForConfig, Shell!RequestRestart
<1>27. CASE FindNextChangeNotification
  BY <1>27 DEF FindNextChangeNotification, ConfigLoop
<1>28. CASE InitAddrChangeDetection
  BY <1>28 DEF InitAddrChangeDetection
<1>29. CASE WaitAddrChange
  BY <1>29 DEF WaitAddrChange, Shell!RequestRestart
<1>30. CASE StopAddrWatcher
  BY <1>30 DEF StopAddrWatcher, DeinitAddrChangeDetection
<1>31. CASE GetNextAddrChange
  BY <1>31 DEF GetNextAddrChange, ResetEvent, NotifyAddrChange
<1>32. CASE ConfigWaitFails
  BY <1>32 DEF ConfigWaitFails
<1>33. CASE AddrWaitFails
  BY <1>33 DEF AddrWaitFails, DeinitAddrChangeDetection
<1>34. CASE ChangeConf
  BY <1>34 DEF ChangeConf
<1>35. CASE ChangeAddr
  BY <1>35 DEF ChangeAddr
<1>36. CASE UNCHANGED vars
  BY <1>36
<1> QED
  BY <1>1, <1>2, <1>3, <1>4, <1>5, <1>6, <1>7, <1>8, <1>9, <1>10, <1>11,
     <1>12, <1>13, <1>14, <1>15, <1>16, <1>17, <1>18, <1>19, <1>20, <1>21,
     <1>22, <1>23, <1>24, <1>25, <1>26, <1>27, <1>28, <1>29, <1>30, <1>31,
     <1>32, <1>33, <1>34, <1>35, <1>36
  DEF Next, Start, ServiceCtrlHandler, ServiceThread, ConfigWatcher,
      AddrWatcher

\* Every step keeps the phases of the threads together.
LEMMA ThreadStep ==
  ASSUME IInv, [Next]_vars
  PROVE  ThreadInv'
<1> USE DEF IInv, TypeOK, PcTypeOK, ThreadInv, vars, scmVars, svcVars,
            shellVars, flagVars, watchVars, confVars, addrVars
<1>1. CASE RegisterFails
  BY <1>1 DEF RegisterFails
<1>2. CASE StartPending
  BY <1>2 DEF StartPending, SetServiceStatus
<1>3. CASE CreateServiceThread
  BY <1>3 DEF CreateServiceThread
<1>4. CASE StartRunning
  BY <1>4 DEF StartRunning, SetServiceStatus
<1>5. CASE Stop
  BY <1>5 DEF Stop, SetServiceStatus
<1>6. CASE Shutdown
  BY <1>6 DEF Shutdown
<1>7. CASE AsyncShutdown
  BY <1>7 DEF AsyncShutdown, Shell!AsyncShutdown
<1>8. CASE WaitServiceThread
  BY <1>8 DEF WaitServiceThread, SetServiceStatus, ThreadSignalled
<1>9. CASE DispatcherReturns
  BY <1>9 DEF DispatcherReturns
<1>10. CASE SpawnWatchers
  BY <1>10 DEF SpawnWatchers
<1>11. CASE StopConfigDetection
  BY <1>11 DEF StopConfigDetection, RunReturned
<1>12. CASE JoinConfig
  BY <1>12 DEF JoinConfig, Joined, TellAddrWatcher
<1>13. CASE JoinAddr
  BY <1>13 DEF JoinAddr, Joined
<1>14. CASE ReportFailure
  BY <1>14 DEF ReportFailure, SetServiceStatus
<1>15. CASE EnterRun
  BY <1>15 DEF EnterRun, Shell!EnterRun, Shell!Move
<1>16. CASE RunFails
  BY <1>16 DEF RunFails, Shell!RunFails, Shell!Move
<1>17. CASE StartBroker
  BY <1>17 DEF StartBroker, Shell!StartBroker, Shell!Move
<1>18. CASE Poll
  BY <1>18 DEF Poll, Shell!Poll, Shell!Move
<1>19. CASE NotYet
  BY <1>19 DEF NotYet, Shell!NotYet, Shell!Move
<1>20. CASE TakeRestart
  BY <1>20 DEF TakeRestart, Shell!TakeRestart, Shell!Move
<1>21. CASE ReloadConfig
  BY <1>21 DEF ReloadConfig, Shell!ReloadConfig, Shell!Move
<1>22. CASE RunReturns
  BY <1>22 DEF RunReturns, Shell!RunReturns, Shell!Move
<1>23. CASE InitConfigChangeDetectionHandle
  BY <1>23 DEF InitConfigChangeDetectionHandle, ConfigLoop
<1>24. CASE WaitConfigChange
  BY <1>24 DEF WaitConfigChange
<1>25. CASE StopConfigWatcher
  BY <1>25 DEF StopConfigWatcher, StopSeen
<1>26. CASE RequestConfigRestart
  BY <1>26 DEF RequestConfigRestart, RequestForConfig, Shell!RequestRestart
<1>27. CASE FindNextChangeNotification
  BY <1>27 DEF FindNextChangeNotification, ConfigLoop
<1>28. CASE InitAddrChangeDetection
  BY <1>28 DEF InitAddrChangeDetection
<1>29. CASE WaitAddrChange
  BY <1>29 DEF WaitAddrChange, Shell!RequestRestart
<1>30. CASE StopAddrWatcher
  BY <1>30 DEF StopAddrWatcher, DeinitAddrChangeDetection
<1>31. CASE GetNextAddrChange
  BY <1>31 DEF GetNextAddrChange, ResetEvent, NotifyAddrChange
<1>32. CASE ConfigWaitFails
  BY <1>32 DEF ConfigWaitFails
<1>33. CASE AddrWaitFails
  BY <1>33 DEF AddrWaitFails, DeinitAddrChangeDetection
<1>34. CASE ChangeConf
  BY <1>34 DEF ChangeConf
<1>35. CASE ChangeAddr
  BY <1>35 DEF ChangeAddr
<1>36. CASE UNCHANGED vars
  BY <1>36
<1> QED
  BY <1>1, <1>2, <1>3, <1>4, <1>5, <1>6, <1>7, <1>8, <1>9, <1>10, <1>11,
     <1>12, <1>13, <1>14, <1>15, <1>16, <1>17, <1>18, <1>19, <1>20, <1>21,
     <1>22, <1>23, <1>24, <1>25, <1>26, <1>27, <1>28, <1>29, <1>30, <1>31,
     <1>32, <1>33, <1>34, <1>35, <1>36
  DEF Next, Start, ServiceCtrlHandler, ServiceThread, ConfigWatcher,
      AddrWatcher

\* Every step keeps what the SCM has been told true.
LEMMA StatusStep ==
  ASSUME IInv, [Next]_vars
  PROVE  StatusInv'
<1> USE DEF IInv, TypeOK, PcTypeOK, ThreadInv, StatusInv, vars, scmVars,
            svcVars, shellVars, flagVars, watchVars, confVars, addrVars
<1>1. CASE RegisterFails
  BY <1>1 DEF RegisterFails
<1>2. CASE StartPending
  BY <1>2 DEF StartPending, SetServiceStatus, Next
<1>3. CASE CreateServiceThread
  BY <1>3 DEF CreateServiceThread, Next
<1>4. CASE StartRunning
  BY <1>4 DEF StartRunning, SetServiceStatus
<1>5. CASE Stop
  BY <1>5 DEF Stop, SetServiceStatus
<1>6. CASE Shutdown
  BY <1>6 DEF Shutdown
<1>7. CASE AsyncShutdown
  BY <1>7 DEF AsyncShutdown, Shell!AsyncShutdown
<1>8. CASE WaitServiceThread
  BY <1>8 DEF WaitServiceThread, SetServiceStatus, ThreadSignalled
<1>9. CASE DispatcherReturns
  BY <1>9 DEF DispatcherReturns
<1>10. CASE SpawnWatchers
  BY <1>10 DEF SpawnWatchers
<1>11. CASE StopConfigDetection
  BY <1>11 DEF StopConfigDetection, RunReturned
<1>12. CASE JoinConfig
  BY <1>12 DEF JoinConfig, Joined, TellAddrWatcher
<1>13. CASE JoinAddr
  BY <1>13 DEF JoinAddr, Joined
<1>14. CASE ReportFailure
  BY <1>14 DEF ReportFailure, SetServiceStatus
<1>15. CASE EnterRun
  BY <1>15 DEF EnterRun, Shell!EnterRun, Shell!Move
<1>16. CASE RunFails
  BY <1>16 DEF RunFails, Shell!RunFails, Shell!Move
<1>17. CASE StartBroker
  BY <1>17 DEF StartBroker, Shell!StartBroker, Shell!Move
<1>18. CASE Poll
  BY <1>18 DEF Poll, Shell!Poll, Shell!Move
<1>19. CASE NotYet
  BY <1>19 DEF NotYet, Shell!NotYet, Shell!Move
<1>20. CASE TakeRestart
  BY <1>20 DEF TakeRestart, Shell!TakeRestart, Shell!Move
<1>21. CASE ReloadConfig
  BY <1>21 DEF ReloadConfig, Shell!ReloadConfig, Shell!Move
<1>22. CASE RunReturns
  BY <1>22 DEF RunReturns, Shell!RunReturns, Shell!Move
<1>23. CASE InitConfigChangeDetectionHandle
  BY <1>23 DEF InitConfigChangeDetectionHandle, ConfigLoop
<1>24. CASE WaitConfigChange
  BY <1>24 DEF WaitConfigChange
<1>25. CASE StopConfigWatcher
  BY <1>25 DEF StopConfigWatcher, StopSeen
<1>26. CASE RequestConfigRestart
  BY <1>26 DEF RequestConfigRestart, RequestForConfig, Shell!RequestRestart
<1>27. CASE FindNextChangeNotification
  BY <1>27 DEF FindNextChangeNotification, ConfigLoop
<1>28. CASE InitAddrChangeDetection
  BY <1>28 DEF InitAddrChangeDetection
<1>29. CASE WaitAddrChange
  BY <1>29 DEF WaitAddrChange, Shell!RequestRestart
<1>30. CASE StopAddrWatcher
  BY <1>30 DEF StopAddrWatcher, DeinitAddrChangeDetection
<1>31. CASE GetNextAddrChange
  BY <1>31 DEF GetNextAddrChange, ResetEvent, NotifyAddrChange
<1>32. CASE ConfigWaitFails
  BY <1>32 DEF ConfigWaitFails
<1>33. CASE AddrWaitFails
  BY <1>33 DEF AddrWaitFails, DeinitAddrChangeDetection
<1>34. CASE ChangeConf
  BY <1>34 DEF ChangeConf
<1>35. CASE ChangeAddr
  BY <1>35 DEF ChangeAddr
<1>36. CASE UNCHANGED vars
  BY <1>36
<1> QED
  BY <1>1, <1>2, <1>3, <1>4, <1>5, <1>6, <1>7, <1>8, <1>9, <1>10, <1>11,
     <1>12, <1>13, <1>14, <1>15, <1>16, <1>17, <1>18, <1>19, <1>20, <1>21,
     <1>22, <1>23, <1>24, <1>25, <1>26, <1>27, <1>28, <1>29, <1>30, <1>31,
     <1>32, <1>33, <1>34, <1>35, <1>36
  DEF Next, Start, ServiceCtrlHandler, ServiceThread, ConfigWatcher,
      AddrWatcher

\* Every step keeps the address watcher armed.
LEMMA ArmedStep ==
  ASSUME IInv, [Next]_vars
  PROVE  ArmedInv'
<1> USE DEF IInv, TypeOK, PcTypeOK, ThreadInv, ArmedInv, vars, scmVars,
            svcVars, shellVars, flagVars, watchVars, confVars, addrVars
<1>1. CASE RegisterFails
  BY <1>1 DEF RegisterFails
<1>2. CASE StartPending
  BY <1>2 DEF StartPending, SetServiceStatus
<1>3. CASE CreateServiceThread
  BY <1>3 DEF CreateServiceThread
<1>4. CASE StartRunning
  BY <1>4 DEF StartRunning, SetServiceStatus
<1>5. CASE Stop
  BY <1>5 DEF Stop, SetServiceStatus
<1>6. CASE Shutdown
  BY <1>6 DEF Shutdown
<1>7. CASE AsyncShutdown
  BY <1>7 DEF AsyncShutdown, Shell!AsyncShutdown
<1>8. CASE WaitServiceThread
  BY <1>8 DEF WaitServiceThread, SetServiceStatus, ThreadSignalled
<1>9. CASE DispatcherReturns
  BY <1>9 DEF DispatcherReturns
<1>10. CASE SpawnWatchers
  BY <1>10 DEF SpawnWatchers
<1>11. CASE StopConfigDetection
  BY <1>11 DEF StopConfigDetection, RunReturned
<1>12. CASE JoinConfig
  BY <1>12 DEF JoinConfig, Joined, TellAddrWatcher
<1>13. CASE JoinAddr
  BY <1>13 DEF JoinAddr, Joined
<1>14. CASE ReportFailure
  BY <1>14 DEF ReportFailure, SetServiceStatus
<1>15. CASE EnterRun
  BY <1>15 DEF EnterRun, Shell!EnterRun, Shell!Move
<1>16. CASE RunFails
  BY <1>16 DEF RunFails, Shell!RunFails, Shell!Move
<1>17. CASE StartBroker
  BY <1>17 DEF StartBroker, Shell!StartBroker, Shell!Move
<1>18. CASE Poll
  BY <1>18 DEF Poll, Shell!Poll, Shell!Move
<1>19. CASE NotYet
  BY <1>19 DEF NotYet, Shell!NotYet, Shell!Move
<1>20. CASE TakeRestart
  BY <1>20 DEF TakeRestart, Shell!TakeRestart, Shell!Move
<1>21. CASE ReloadConfig
  BY <1>21 DEF ReloadConfig, Shell!ReloadConfig, Shell!Move
<1>22. CASE RunReturns
  BY <1>22 DEF RunReturns, Shell!RunReturns, Shell!Move
<1>23. CASE InitConfigChangeDetectionHandle
  BY <1>23 DEF InitConfigChangeDetectionHandle, ConfigLoop
<1>24. CASE WaitConfigChange
  BY <1>24 DEF WaitConfigChange
<1>25. CASE StopConfigWatcher
  BY <1>25 DEF StopConfigWatcher, StopSeen
<1>26. CASE RequestConfigRestart
  BY <1>26 DEF RequestConfigRestart, RequestForConfig, Shell!RequestRestart
<1>27. CASE FindNextChangeNotification
  BY <1>27 DEF FindNextChangeNotification, ConfigLoop
<1>28. CASE InitAddrChangeDetection
  BY <1>28 DEF InitAddrChangeDetection
<1>29. CASE WaitAddrChange
  BY <1>29 DEF WaitAddrChange, Shell!RequestRestart
<1>30. CASE StopAddrWatcher
  BY <1>30 DEF StopAddrWatcher, DeinitAddrChangeDetection
<1>31. CASE GetNextAddrChange
  BY <1>31 DEF GetNextAddrChange, ResetEvent, NotifyAddrChange
<1>32. CASE ConfigWaitFails
  BY <1>32 DEF ConfigWaitFails
<1>33. CASE AddrWaitFails
  BY <1>33 DEF AddrWaitFails, DeinitAddrChangeDetection
<1>34. CASE ChangeConf
  BY <1>34 DEF ChangeConf
<1>35. CASE ChangeAddr
  BY <1>35 DEF ChangeAddr
<1>36. CASE UNCHANGED vars
  BY <1>36
<1> QED
  BY <1>1, <1>2, <1>3, <1>4, <1>5, <1>6, <1>7, <1>8, <1>9, <1>10, <1>11,
     <1>12, <1>13, <1>14, <1>15, <1>16, <1>17, <1>18, <1>19, <1>20, <1>21,
     <1>22, <1>23, <1>24, <1>25, <1>26, <1>27, <1>28, <1>29, <1>30, <1>31,
     <1>32, <1>33, <1>34, <1>35, <1>36
  DEF Next, Start, ServiceCtrlHandler, ServiceThread, ConfigWatcher,
      AddrWatcher

\* Every step keeps a change of broker.conf on its way.
LEMMA ConfigChangeStep ==
  ASSUME IInv, [Next]_vars
  PROVE  ConfigChangeKept'
<1> USE WinAssumption DEF IInv, TypeOK, PcTypeOK, CountTypeOK, ThreadInv,
            ConfigChangeKept, vars, scmVars, svcVars, shellVars, flagVars,
            watchVars, confVars, addrVars
<1>1. CASE RegisterFails
  BY <1>1 DEF RegisterFails
<1>2. CASE StartPending
  BY <1>2 DEF StartPending, SetServiceStatus
<1>3. CASE CreateServiceThread
  BY <1>3 DEF CreateServiceThread
<1>4. CASE StartRunning
  BY <1>4 DEF StartRunning, SetServiceStatus
<1>5. CASE Stop
  BY <1>5 DEF Stop, SetServiceStatus
<1>6. CASE Shutdown
  BY <1>6 DEF Shutdown
<1>7. CASE AsyncShutdown
  BY <1>7 DEF AsyncShutdown, Shell!AsyncShutdown
<1>8. CASE WaitServiceThread
  BY <1>8 DEF WaitServiceThread, SetServiceStatus, ThreadSignalled
<1>9. CASE DispatcherReturns
  BY <1>9 DEF DispatcherReturns
<1>10. CASE SpawnWatchers
  BY <1>10 DEF SpawnWatchers
<1>11. CASE StopConfigDetection
  BY <1>11 DEF StopConfigDetection, RunReturned
<1>12. CASE JoinConfig
  BY <1>12 DEF JoinConfig, Joined, TellAddrWatcher
<1>13. CASE JoinAddr
  BY <1>13 DEF JoinAddr, Joined
<1>14. CASE ReportFailure
  BY <1>14 DEF ReportFailure, SetServiceStatus
<1>15. CASE EnterRun
  BY <1>15 DEF EnterRun, Shell!EnterRun, Shell!Move
<1>16. CASE RunFails
  BY <1>16 DEF RunFails, Shell!RunFails, Shell!Move
<1>17. CASE StartBroker
  BY <1>17 DEF StartBroker, Shell!StartBroker, Shell!Move
<1>18. CASE Poll
  BY <1>18 DEF Poll, Shell!Poll, Shell!Move
<1>19. CASE NotYet
  BY <1>19 DEF NotYet, Shell!NotYet, Shell!Move
<1>20. CASE TakeRestart
  BY <1>20 DEF TakeRestart, Shell!TakeRestart, Shell!Move
<1>21. CASE ReloadConfig
  BY <1>21 DEF ReloadConfig, Shell!ReloadConfig, Shell!Move
<1>22. CASE RunReturns
  BY <1>22 DEF RunReturns, Shell!RunReturns, Shell!Move
<1>23. CASE InitConfigChangeDetectionHandle
  BY <1>23 DEF InitConfigChangeDetectionHandle, ConfigLoop
<1>24. CASE WaitConfigChange
  BY <1>24 DEF WaitConfigChange
<1>25. CASE StopConfigWatcher
  BY <1>25 DEF StopConfigWatcher, StopSeen
<1>26. CASE RequestConfigRestart
  BY <1>26 DEF RequestConfigRestart, RequestForConfig, Shell!RequestRestart
<1>27. CASE FindNextChangeNotification
  BY <1>27 DEF FindNextChangeNotification, ConfigLoop
<1>28. CASE InitAddrChangeDetection
  BY <1>28 DEF InitAddrChangeDetection
<1>29. CASE WaitAddrChange
  BY <1>29 DEF WaitAddrChange, Shell!RequestRestart
<1>30. CASE StopAddrWatcher
  BY <1>30 DEF StopAddrWatcher, DeinitAddrChangeDetection
<1>31. CASE GetNextAddrChange
  BY <1>31 DEF GetNextAddrChange, ResetEvent, NotifyAddrChange
<1>32. CASE ConfigWaitFails
  BY <1>32 DEF ConfigWaitFails
<1>33. CASE AddrWaitFails
  BY <1>33 DEF AddrWaitFails, DeinitAddrChangeDetection
<1>34. CASE ChangeConf
  BY <1>34 DEF ChangeConf
<1>35. CASE ChangeAddr
  BY <1>35 DEF ChangeAddr
<1>36. CASE UNCHANGED vars
  BY <1>36
<1> QED
  BY <1>1, <1>2, <1>3, <1>4, <1>5, <1>6, <1>7, <1>8, <1>9, <1>10, <1>11,
     <1>12, <1>13, <1>14, <1>15, <1>16, <1>17, <1>18, <1>19, <1>20, <1>21,
     <1>22, <1>23, <1>24, <1>25, <1>26, <1>27, <1>28, <1>29, <1>30, <1>31,
     <1>32, <1>33, <1>34, <1>35, <1>36
  DEF Next, Start, ServiceCtrlHandler, ServiceThread, ConfigWatcher,
      AddrWatcher

\* Every step keeps a change of the address table on its way.
LEMMA AddrChangeStep ==
  ASSUME IInv, [Next]_vars
  PROVE  AddrChangeKept'
<1> USE WinAssumption DEF IInv, TypeOK, PcTypeOK, CountTypeOK, ThreadInv, ArmedInv,
            AddrChangeKept, vars, scmVars, svcVars, shellVars, flagVars,
            watchVars, confVars, addrVars
<1>1. CASE RegisterFails
  BY <1>1 DEF RegisterFails
<1>2. CASE StartPending
  BY <1>2 DEF StartPending, SetServiceStatus
<1>3. CASE CreateServiceThread
  BY <1>3 DEF CreateServiceThread
<1>4. CASE StartRunning
  BY <1>4 DEF StartRunning, SetServiceStatus
<1>5. CASE Stop
  BY <1>5 DEF Stop, SetServiceStatus
<1>6. CASE Shutdown
  BY <1>6 DEF Shutdown
<1>7. CASE AsyncShutdown
  BY <1>7 DEF AsyncShutdown, Shell!AsyncShutdown
<1>8. CASE WaitServiceThread
  BY <1>8 DEF WaitServiceThread, SetServiceStatus, ThreadSignalled
<1>9. CASE DispatcherReturns
  BY <1>9 DEF DispatcherReturns
<1>10. CASE SpawnWatchers
  BY <1>10 DEF SpawnWatchers
<1>11. CASE StopConfigDetection
  BY <1>11 DEF StopConfigDetection, RunReturned
<1>12. CASE JoinConfig
  BY <1>12 DEF JoinConfig, Joined, TellAddrWatcher
<1>13. CASE JoinAddr
  BY <1>13 DEF JoinAddr, Joined
<1>14. CASE ReportFailure
  BY <1>14 DEF ReportFailure, SetServiceStatus
<1>15. CASE EnterRun
  BY <1>15 DEF EnterRun, Shell!EnterRun, Shell!Move
<1>16. CASE RunFails
  BY <1>16 DEF RunFails, Shell!RunFails, Shell!Move
<1>17. CASE StartBroker
  BY <1>17 DEF StartBroker, Shell!StartBroker, Shell!Move
<1>18. CASE Poll
  BY <1>18 DEF Poll, Shell!Poll, Shell!Move
<1>19. CASE NotYet
  BY <1>19 DEF NotYet, Shell!NotYet, Shell!Move
<1>20. CASE TakeRestart
  BY <1>20 DEF TakeRestart, Shell!TakeRestart, Shell!Move
<1>21. CASE ReloadConfig
  BY <1>21 DEF ReloadConfig, Shell!ReloadConfig, Shell!Move
<1>22. CASE RunReturns
  BY <1>22 DEF RunReturns, Shell!RunReturns, Shell!Move
<1>23. CASE InitConfigChangeDetectionHandle
  BY <1>23 DEF InitConfigChangeDetectionHandle, ConfigLoop
<1>24. CASE WaitConfigChange
  BY <1>24 DEF WaitConfigChange
<1>25. CASE StopConfigWatcher
  BY <1>25 DEF StopConfigWatcher, StopSeen
<1>26. CASE RequestConfigRestart
  BY <1>26 DEF RequestConfigRestart, RequestForConfig, Shell!RequestRestart
<1>27. CASE FindNextChangeNotification
  BY <1>27 DEF FindNextChangeNotification, ConfigLoop
<1>28. CASE InitAddrChangeDetection
  BY <1>28 DEF InitAddrChangeDetection
<1>29. CASE WaitAddrChange
  BY <1>29 DEF WaitAddrChange, Shell!RequestRestart
<1>30. CASE StopAddrWatcher
  BY <1>30 DEF StopAddrWatcher, DeinitAddrChangeDetection
<1>31. CASE GetNextAddrChange
  BY <1>31 DEF GetNextAddrChange, ResetEvent, NotifyAddrChange
<1>32. CASE ConfigWaitFails
  BY <1>32 DEF ConfigWaitFails
<1>33. CASE AddrWaitFails
  BY <1>33 DEF AddrWaitFails, DeinitAddrChangeDetection
<1>34. CASE ChangeConf
  BY <1>34 DEF ChangeConf
<1>35. CASE ChangeAddr
  BY <1>35 DEF ChangeAddr
<1>36. CASE UNCHANGED vars
  BY <1>36
<1> QED
  BY <1>1, <1>2, <1>3, <1>4, <1>5, <1>6, <1>7, <1>8, <1>9, <1>10, <1>11,
     <1>12, <1>13, <1>14, <1>15, <1>16, <1>17, <1>18, <1>19, <1>20, <1>21,
     <1>22, <1>23, <1>24, <1>25, <1>26, <1>27, <1>28, <1>29, <1>30, <1>31,
     <1>32, <1>33, <1>34, <1>35, <1>36
  DEF Next, Start, ServiceCtrlHandler, ServiceThread, ConfigWatcher,
      AddrWatcher

\* Every step keeps what the waits on the way out rest on.
LEMMA WaitsStep ==
  ASSUME IInv, [Next]_vars
  PROVE  WaitsAnswered'
<1> USE DEF IInv, ThreadInv, WaitsAnswered, vars, scmVars, svcVars, shellVars,
            flagVars, watchVars, confVars, addrVars
<1>1. CASE RegisterFails
  BY <1>1 DEF RegisterFails
<1>2. CASE StartPending
  BY <1>2 DEF StartPending, SetServiceStatus
<1>3. CASE CreateServiceThread
  BY <1>3 DEF CreateServiceThread, Next
<1>4. CASE StartRunning
  BY <1>4 DEF StartRunning, SetServiceStatus
<1>5. CASE Stop
  BY <1>5 DEF Stop, SetServiceStatus
<1>6. CASE Shutdown
  BY <1>6 DEF Shutdown
<1>7. CASE AsyncShutdown
  BY <1>7 DEF AsyncShutdown, Shell!AsyncShutdown
<1>8. CASE WaitServiceThread
  BY <1>8 DEF WaitServiceThread, SetServiceStatus, ThreadSignalled
<1>9. CASE DispatcherReturns
  BY <1>9 DEF DispatcherReturns
<1>10. CASE SpawnWatchers
  BY <1>10 DEF SpawnWatchers
<1>11. CASE StopConfigDetection
  BY <1>11 DEF StopConfigDetection, RunReturned
<1>12. CASE JoinConfig
  BY <1>12 DEF JoinConfig, Joined, TellAddrWatcher
<1>13. CASE JoinAddr
  BY <1>13 DEF JoinAddr, Joined
<1>14. CASE ReportFailure
  BY <1>14 DEF ReportFailure, SetServiceStatus
<1>15. CASE EnterRun
  BY <1>15 DEF EnterRun, Shell!EnterRun, Shell!Move
<1>16. CASE RunFails
  BY <1>16 DEF RunFails, Shell!RunFails, Shell!Move
<1>17. CASE StartBroker
  BY <1>17 DEF StartBroker, Shell!StartBroker, Shell!Move
<1>18. CASE Poll
  BY <1>18 DEF Poll, Shell!Poll, Shell!Move
<1>19. CASE NotYet
  BY <1>19 DEF NotYet, Shell!NotYet, Shell!Move
<1>20. CASE TakeRestart
  BY <1>20 DEF TakeRestart, Shell!TakeRestart, Shell!Move
<1>21. CASE ReloadConfig
  BY <1>21 DEF ReloadConfig, Shell!ReloadConfig, Shell!Move
<1>22. CASE RunReturns
  BY <1>22 DEF RunReturns, Shell!RunReturns, Shell!Move
<1>23. CASE InitConfigChangeDetectionHandle
  BY <1>23 DEF InitConfigChangeDetectionHandle, ConfigLoop
<1>24. CASE WaitConfigChange
  BY <1>24 DEF WaitConfigChange
<1>25. CASE StopConfigWatcher
  BY <1>25 DEF StopConfigWatcher, StopSeen
<1>26. CASE RequestConfigRestart
  BY <1>26 DEF RequestConfigRestart, RequestForConfig, Shell!RequestRestart
<1>27. CASE FindNextChangeNotification
  BY <1>27 DEF FindNextChangeNotification, ConfigLoop
<1>28. CASE InitAddrChangeDetection
  BY <1>28 DEF InitAddrChangeDetection
<1>29. CASE WaitAddrChange
  BY <1>29 DEF WaitAddrChange, Shell!RequestRestart
<1>30. CASE StopAddrWatcher
  BY <1>30 DEF StopAddrWatcher, DeinitAddrChangeDetection
<1>31. CASE GetNextAddrChange
  BY <1>31 DEF GetNextAddrChange, ResetEvent, NotifyAddrChange
<1>32. CASE ConfigWaitFails
  BY <1>32 DEF ConfigWaitFails
<1>33. CASE AddrWaitFails
  BY <1>33 DEF AddrWaitFails, DeinitAddrChangeDetection
<1>34. CASE ChangeConf
  BY <1>34 DEF ChangeConf
<1>35. CASE ChangeAddr
  BY <1>35 DEF ChangeAddr
<1>36. CASE UNCHANGED vars
  BY <1>36
<1> QED
  BY <1>1, <1>2, <1>3, <1>4, <1>5, <1>6, <1>7, <1>8, <1>9, <1>10, <1>11,
     <1>12, <1>13, <1>14, <1>15, <1>16, <1>17, <1>18, <1>19, <1>20, <1>21,
     <1>22, <1>23, <1>24, <1>25, <1>26, <1>27, <1>28, <1>29, <1>30, <1>31,
     <1>32, <1>33, <1>34, <1>35, <1>36
  DEF Next, Start, ServiceCtrlHandler, ServiceThread, ConfigWatcher,
      AddrWatcher

\* Every step on the way out brings the thread that takes it nearer to its
\* end.
LEMMA ProgressStep ==
  ASSUME IInv, [Next]_vars
  PROVE  /\ shutdown_requested_ /\ <<svc', shell'>> # <<svc, shell>> =>
              ServiceSteps' < ServiceSteps
         /\ stop_config_change_detection /\ conf_pc' # conf_pc =>
              WatcherSteps[conf_pc'] < WatcherSteps[conf_pc]
         /\ stop_addr_change_detection /\ addr_pc' # addr_pc =>
              WatcherSteps[addr_pc'] < WatcherSteps[addr_pc]
<1> USE DEF IInv, TypeOK, PcTypeOK, ThreadInv, ServiceSteps, WatcherSteps,
            vars, scmVars, svcVars, shellVars, flagVars, watchVars, confVars,
            addrVars
<1>1. CASE RegisterFails
  BY <1>1 DEF RegisterFails
<1>2. CASE StartPending
  BY <1>2 DEF StartPending, SetServiceStatus
<1>3. CASE CreateServiceThread
  BY <1>3 DEF CreateServiceThread, Next
<1>4. CASE StartRunning
  BY <1>4 DEF StartRunning, SetServiceStatus
<1>5. CASE Stop
  BY <1>5 DEF Stop, SetServiceStatus
<1>6. CASE Shutdown
  BY <1>6 DEF Shutdown
<1>7. CASE AsyncShutdown
  BY <1>7 DEF AsyncShutdown, Shell!AsyncShutdown
<1>8. CASE WaitServiceThread
  BY <1>8 DEF WaitServiceThread, SetServiceStatus, ThreadSignalled
<1>9. CASE DispatcherReturns
  BY <1>9 DEF DispatcherReturns
<1>10. CASE SpawnWatchers
  BY <1>10 DEF SpawnWatchers
<1>11. CASE StopConfigDetection
  BY <1>11 DEF StopConfigDetection, RunReturned
<1>12. CASE JoinConfig
  BY <1>12 DEF JoinConfig, Joined, TellAddrWatcher
<1>13. CASE JoinAddr
  BY <1>13 DEF JoinAddr, Joined
<1>14. CASE ReportFailure
  BY <1>14 DEF ReportFailure, SetServiceStatus
<1>15. CASE EnterRun
  BY <1>15 DEF EnterRun, Shell!EnterRun, Shell!Move
<1>16. CASE RunFails
  BY <1>16 DEF RunFails, Shell!RunFails, Shell!Move
<1>17. CASE StartBroker
  BY <1>17 DEF StartBroker, Shell!StartBroker, Shell!Move
<1>18. CASE Poll
  BY <1>18 DEF Poll, Shell!Poll, Shell!Move
<1>19. CASE NotYet
  BY <1>19 DEF NotYet, Shell!NotYet, Shell!Move
<1>20. CASE TakeRestart
  BY <1>20 DEF TakeRestart, Shell!TakeRestart, Shell!Move
<1>21. CASE ReloadConfig
  BY <1>21 DEF ReloadConfig, Shell!ReloadConfig, Shell!Move
<1>22. CASE RunReturns
  BY <1>22 DEF RunReturns, Shell!RunReturns, Shell!Move
<1>23. CASE InitConfigChangeDetectionHandle
  BY <1>23 DEF InitConfigChangeDetectionHandle, ConfigLoop, StopSeen
<1>24. CASE WaitConfigChange
  BY <1>24 DEF WaitConfigChange
<1>25. CASE StopConfigWatcher
  BY <1>25 DEF StopConfigWatcher, StopSeen
<1>26. CASE RequestConfigRestart
  BY <1>26 DEF RequestConfigRestart, RequestForConfig, Shell!RequestRestart
<1>27. CASE FindNextChangeNotification
  BY <1>27 DEF FindNextChangeNotification, ConfigLoop, StopSeen
<1>28. CASE InitAddrChangeDetection
  BY <1>28 DEF InitAddrChangeDetection
<1>29. CASE WaitAddrChange
  BY <1>29 DEF WaitAddrChange, Shell!RequestRestart
<1>30. CASE StopAddrWatcher
  BY <1>30 DEF StopAddrWatcher, DeinitAddrChangeDetection
<1>31. CASE GetNextAddrChange
  BY <1>31 DEF GetNextAddrChange, ResetEvent, NotifyAddrChange
<1>32. CASE ConfigWaitFails
  BY <1>32 DEF ConfigWaitFails
<1>33. CASE AddrWaitFails
  BY <1>33 DEF AddrWaitFails, DeinitAddrChangeDetection
<1>34. CASE ChangeConf
  BY <1>34 DEF ChangeConf
<1>35. CASE ChangeAddr
  BY <1>35 DEF ChangeAddr
<1>36. CASE UNCHANGED vars
  BY <1>36
<1> QED
  BY <1>1, <1>2, <1>3, <1>4, <1>5, <1>6, <1>7, <1>8, <1>9, <1>10, <1>11,
     <1>12, <1>13, <1>14, <1>15, <1>16, <1>17, <1>18, <1>19, <1>20, <1>21,
     <1>22, <1>23, <1>24, <1>25, <1>26, <1>27, <1>28, <1>29, <1>30, <1>31,
     <1>32, <1>33, <1>34, <1>35, <1>36
  DEF Next, Start, ServiceCtrlHandler, ServiceThread, ConfigWatcher,
      AddrWatcher

-----------------------------------------------------------------------------
\* The inductive invariant holds in every state.
LEMMA Inductive == Spec => []IInv
<1>1. Init => IInv
  <2> SUFFICES ASSUME Init PROVE IInv
    OBVIOUS
  <2> USE DEF Init, Shell!Init
  <2>1. PcTypeOK
    BY DEF PcTypeOK
  <2>2. FlagTypeOK
    BY DEF FlagTypeOK
  <2>3. CountTypeOK
    BY WinAssumption DEF CountTypeOK
  <2>4. ThreadInv /\ StatusInv /\ ArmedInv /\ WaitsAnswered
    BY DEF ThreadInv, StatusInv, ArmedInv, WaitsAnswered
  <2>5. ConfigChangeKept /\ AddrChangeKept
    BY DEF ConfigChangeKept, AddrChangeKept
  <2> QED  BY <2>1, <2>2, <2>3, <2>4, <2>5 DEF IInv, TypeOK
<1>2. IInv /\ [Next]_vars => IInv'
  BY PcTypeStep, FlagTypeStep, CountTypeStep, ThreadStep, StatusStep,
     ArmedStep, WaitsStep, ConfigChangeStep, AddrChangeStep
  DEF IInv, TypeOK
<1> QED  BY <1>1, <1>2, PTL DEF Spec

\* The variables of WinService have their types, for any number of changes.
THEOREM TypeCorrect == Spec => []TypeOK
<1>1. IInv => TypeOK
  BY DEF IInv
<1> QED  BY <1>1, Inductive, PTL

\* ServiceThread never returns with a watcher alive that uses its stack.
THEOREM WatchersAreJoined == Spec => []WatchersJoined
<1>1. IInv => WatchersJoined
  BY DEF IInv, ThreadInv, WatchersJoined
<1> QED  BY <1>1, Inductive, PTL

\* Main destroys the service only after ServiceThread and both watchers have
\* ended, and after ServiceMain's thread has left Start, except in the race of
\* a Run that fails at once.
THEOREM ServiceOutlives == Spec => []ServiceOutlivesThreads
<1>1. IInv => ServiceOutlivesThreads
  BY DEF IInv, ThreadInv, StatusInv, ServiceOutlivesThreads
<1> QED  BY <1>1, Inductive, PTL

\* However the watcher, the shell and the writers of broker.conf interleave,
\* no change is forgotten while the watcher is at work.
THEOREM ConfigChangesAreKept == Spec => []ConfigChangeKept
<1>1. IInv => ConfigChangeKept
  BY DEF IInv
<1> QED  BY <1>1, Inductive, PTL

\* No change of the address table is forgotten, although some notifications
\* are not delivered.
THEOREM AddrChangesAreKept == Spec => []AddrChangeKept
<1>1. IInv => AddrChangeKept
  BY DEF IInv
<1> QED  BY <1>1, Inductive, PTL

\* Whoever waits on the way out has asked for what it waits for.
THEOREM WaitsAreAnswered == Spec => []WaitsAnswered
<1>1. IInv => WaitsAnswered
  BY DEF IInv
<1> QED  BY <1>1, Inductive, PTL

\* Once a shutdown is requested ServiceThread takes a bounded number of
\* steps, and so does a watcher once it has been told to stop, whatever
\* changes meanwhile.
THEOREM StopMakesProgress == Spec => StopProgress
<1>1. IInv /\ [Next]_vars =>
        [/\ shutdown_requested_ /\ <<svc', shell'>> # <<svc, shell>> =>
              ServiceSteps' < ServiceSteps
         /\ stop_config_change_detection /\ conf_pc' # conf_pc =>
              WatcherSteps[conf_pc'] < WatcherSteps[conf_pc]
         /\ stop_addr_change_detection /\ addr_pc' # addr_pc =>
              WatcherSteps[addr_pc'] < WatcherSteps[addr_pc]]_vars
  BY ProgressStep
<1> QED  BY <1>1, Inductive, PTL DEF Spec, StopProgress

-----------------------------------------------------------------------------
(***************************************************************************)
(* The shell inside the service.                                           *)
(***************************************************************************)

\* Every step of the service is a step of RestartService or leaves its
\* variables alone.
LEMMA ServiceStep ==
  ASSUME [Next]_vars
  PROVE  [Shell!Next]_(Shell!serviceVars)
<1> USE DEF vars, scmVars, svcVars, shellVars, flagVars, watchVars, confVars,
            addrVars, Shell!serviceVars
<1>1. CASE AsyncShutdown \/ RequestConfigRestart \/ WaitAddrChange
  BY <1>1 DEF AsyncShutdown, RequestConfigRestart, RequestForConfig,
              WaitAddrChange, Shell!Next
<1>2. CASE EnterRun \/ RunFails \/ StartBroker \/ Poll
  BY <1>2 DEF EnterRun, RunFails, StartBroker, Poll, Shell!Next
<1>3. CASE NotYet \/ TakeRestart \/ ReloadConfig \/ RunReturns
  BY <1>3 DEF NotYet, TakeRestart, ReloadConfig, RunReturns, Shell!Next
<1>4. CASE RegisterFails \/ Start \/ Stop \/ Shutdown \/ WaitServiceThread
           \/ DispatcherReturns
  BY <1>4 DEF RegisterFails, Start, StartPending, CreateServiceThread,
              StartRunning, Stop, Shutdown, WaitServiceThread,
              DispatcherReturns
<1>5. CASE SpawnWatchers \/ StopConfigDetection \/ JoinConfig \/ JoinAddr
           \/ ReportFailure
  BY <1>5 DEF SpawnWatchers, StopConfigDetection, JoinConfig, JoinAddr,
              ReportFailure
<1>6. CASE InitConfigChangeDetectionHandle \/ WaitConfigChange
           \/ StopConfigWatcher \/ FindNextChangeNotification
           \/ ConfigWaitFails \/ ChangeConf
  BY <1>6 DEF InitConfigChangeDetectionHandle, WaitConfigChange,
              StopConfigWatcher, FindNextChangeNotification, ConfigWaitFails,
              ChangeConf
<1>7. CASE InitAddrChangeDetection \/ StopAddrWatcher \/ GetNextAddrChange
           \/ AddrWaitFails \/ ChangeAddr
  BY <1>7 DEF InitAddrChangeDetection, StopAddrWatcher, GetNextAddrChange,
              ResetEvent, NotifyAddrChange, AddrWaitFails,
              DeinitAddrChangeDetection, ChangeAddr
<1>8. CASE UNCHANGED vars
  BY <1>8
<1> QED
  BY <1>1, <1>2, <1>3, <1>4, <1>5, <1>6, <1>7, <1>8
  DEF Next, ServiceCtrlHandler, ServiceThread, ConfigWatcher, AddrWatcher

\* The service drives the shell as RestartService allows: what is proved of
\* that specification, which BrokerShell implements, holds in the service.
THEOREM WinImplementsService == Spec => Shell!Spec
<1>1. Init => Shell!Init
  BY DEF Init
<1> QED  BY <1>1, ServiceStep, PTL DEF Spec, Shell!Spec
=============================================================================
