-------------------------- MODULE BrokerShellProofs --------------------------
(***************************************************************************)
(* Proofs, for every set of requesters, cooldowns, scopes and files, of    *)
(* the safety properties of BrokerShell.                                   *)
(***************************************************************************)
EXTENDS BrokerShell, TLAPS

-----------------------------------------------------------------------------
(***************************************************************************)
(* The parts of the inductive invariant.                                   *)
(***************************************************************************)

\* lock_ names exactly the thread that is between acquire and release.
LockInv ==
  /\ lock_ = "shell" <=> pc \in {"poll_cs", "apply_cs"}
  /\ lock_ = "lib" <=> cb_pc = "cs"
  /\ \A t \in Requesters : lock_ = t <=> req_pc[t] = "cs"

\* What is set up at each point of the shell's thread.
PhaseInv ==
  /\ pc = "init" => ~ready_to_run_
  /\ pc \notin {"init", "run", "returned", "done"} => ready_to_run_
  /\ log_ = "on" <=> ready_to_run_ /\ pc # "done"
  /\ rdmnet = "on" <=> pc \notin {"init", "run", "returned", "done"}

\* Whether the broker is up at each point of the shell's thread.
BrokerInv ==
  /\ pc \in {"check", "poll", "poll_cs", "restart", "exit"} => ~startup_broker
  /\ \/ pc \in {"check", "poll", "poll_cs", "restart", "exit"}
     \/ pc \in {"top", "sleep"} /\ ~startup_broker
     => broker_ = IF broker_config_.enable_broker THEN "up" ELSE "down"
  /\ pc \in {"top", "sleep"} /\ startup_broker => broker_ = "down"
  /\ pc \in {"stopping", "exit_stopping"} => broker_ = "stopping"
  /\ pc \in {"init", "run", "load", "apply", "apply_cs", "deinit",
             "returned", "done"} => broker_ = "down"
  /\ cb_pc # "idle" => broker_ # "down"
  /\ pc = "done" => \A t \in Requesters : req_pc[t] = "idle"

\* The mask lags behind the configuration only between the reload and the
\* end of ApplySettingsChanges.
MaskInv == pc \notin {"apply", "apply_cs"} => log_mask = broker_config_.log_mask

\* The timer has at least as long to run as any cooldown that is not over.
CooldownInv == quiet <= GetRemaining

IInv == /\ TypeOK
        /\ LockInv
        /\ PhaseInv
        /\ BrokerInv
        /\ MaskInv
        /\ SettingsInEffect
        /\ NoRequestLost
        /\ ScopeChangePending
        /\ CooldownInv

-----------------------------------------------------------------------------
\* What the assumption says of the clock.
LEMMA ClockAssumption ==
  /\ Wrap \in Nat
  /\ MaxPollGap \in Nat
  /\ 0 \in Cooldowns
  /\ \A d \in Cooldowns : d \in Nat /\ d < Wrap
<1>1. Wrap \in Nat /\ MaxPollGap \in Nat /\ 0 \in Cooldowns
  BY ShellAssumption
<1>2. ASSUME NEW d \in Cooldowns
      PROVE  d \in Nat /\ d < Wrap
  <2>1. d \in Nat /\ d + MaxPollGap < Wrap
    BY ShellAssumption
  <2> QED  BY <1>1, <2>1
<1> QED  BY <1>1, <1>2

\* An expired timer has no time left to run.
LEMMA ExpiredHasNothingLeft ==
  ASSUME restart_timer_ \in Timer, IsExpired
  PROVE  GetRemaining = 0
  BY ClockAssumption DEF Timer, IsExpired, GetRemaining

\* The clock advances the timer and keeps its interval.
LEMMA TickTimer ==
  ASSUME restart_timer_ \in Timer, Tick
  PROVE  /\ restart_timer_' \in Timer
         /\ restart_timer_'.interval = restart_timer_.interval
         /\ restart_timer_'.elapsed = NextElapsed
<1>1. NextElapsed \in Nat
  BY ClockAssumption DEF NextElapsed, Timer
<1> QED  BY <1>1 DEF Tick, Timer

\* The clock keeps the types of the two counters it moves.
LEMMA TickCounters ==
  ASSUME lag \in 0..MaxPollGap, quiet \in Nat, Tick
  PROVE  lag' \in 0..MaxPollGap /\ quiet' \in Nat
<1>1. /\ lag < MaxPollGap /\ lag' = lag + 1
      /\ quiet' = IF quiet > 0 THEN quiet - 1 ELSE 0
  BY DEF Tick
<1>2. lag' \in 0..MaxPollGap
  BY <1>1, ClockAssumption
<1>3. quiet' \in Nat
  BY <1>1
<1> QED  BY <1>2, <1>3

\* A poll resets the lag to a lag.
LEMMA ZeroLag == 0 \in 0..MaxPollGap
  BY ClockAssumption

\* A request keeps the timer and covers its own cooldown and every cooldown
\* the timer covered before.
LEMMA RequestTimer ==
  ASSUME NEW cooldown_ms \in Cooldowns, restart_timer_ \in Timer,
         quiet \in Nat, LockedRequestRestart(cooldown_ms)
  PROVE  /\ restart_timer_' \in Timer
         /\ quiet' \in Nat
         /\ CooldownInv => CooldownInv'
<1>1. cooldown_ms \in Nat /\ GetRemaining \in Nat
  BY ClockAssumption DEF Timer, GetRemaining
<1>2. quiet' \in Nat /\ (quiet' = cooldown_ms \/ quiet' = quiet)
  BY <1>1 DEF LockedRequestRestart
<1>3. CASE cooldown_ms > GetRemaining
  <2>1. restart_timer_' = [interval |-> cooldown_ms, elapsed |-> 0]
    BY <1>1, <1>3 DEF LockedRequestRestart, Prolongs, StartTimer
  <2>2. GetRemaining' = cooldown_ms
    BY <1>1, <2>1 DEF GetRemaining
  <2>3. CooldownInv => quiet' <= cooldown_ms
    BY <1>1, <1>2, <1>3 DEF CooldownInv
  <2> QED  BY <1>2, <2>1, <2>2, <2>3 DEF CooldownInv, Timer
<1>4. CASE ~(cooldown_ms > GetRemaining)
  <2>1. restart_timer_' = restart_timer_
    BY <1>1, <1>4 DEF LockedRequestRestart, Prolongs
  <2>2. GetRemaining' = GetRemaining
    BY <2>1 DEF GetRemaining
  <2> QED  BY <1>1, <1>2, <1>4, <2>1, <2>2 DEF CooldownInv
<1> QED  BY <1>3, <1>4

\* Reading a configuration file always yields a configuration.
LEMMA LoadType ==
  ASSUME NEW file \in ConfFiles
  PROVE  LoadBrokerConfig(file) \in BrokerConfig
  BY ShellAssumption
     DEF LoadBrokerConfig, FileSettings, ReadAccepts, SetDefaults, ReadResult,
         BrokerConfig, ConfFile


\* Every step keeps the types of the shell's variables.
LEMMA ShellTypeStep ==
  ASSUME TypeOK, [Next]_vars
  PROVE  ShellTypeOK'
<1> USE ShellAssumption, LoadType
        DEF TypeOK, ShellTypeOK, OtherTypeOK, RequestTypeOK, vars, shellVars,
            setupVars, configVars, brokerVars, requestVars, reqVars, cbVars,
            otherVars, historyVars, Go, Pass, Acquire, Release
<1>1. CASE InitShell
  <2>1. LoadBrokerConfig(conf_file) \in BrokerConfig
    BY LoadType
  <2>2. LoadBrokerConfig(conf_file).log_mask \in LogMasks
    BY <2>1 DEF BrokerConfig
  <2>3. broker_config_' \in BrokerConfig /\ log_mask' \in LogMasks
    BY <1>1, <2>1, <2>2 DEF InitShell
  <2>4. log_' \in {"off", "on"} /\ ready_to_run_' \in BOOLEAN
    BY <1>1 DEF InitShell
  <2> QED  BY <1>1, <2>3, <2>4 DEF InitShell
<1>2. CASE RunEnter
  BY <1>2 DEF RunEnter
<1>3. CASE LoopTop
  BY <1>3 DEF LoopTop, StartupFailed, BrokerConfig
<1>4. CASE CheckShutdown
  BY <1>4 DEF CheckShutdown
<1>5. CASE PollLock
  BY <1>5 DEF PollLock
<1>6. CASE TimeToRestartBroker
  BY <1>6 DEF TimeToRestartBroker, TakeRequest, NotYet
<1>7. CASE ShutdownBroker
  BY <1>7 DEF ShutdownBroker, ShutdownDue
<1>8. CASE BrokerStopped
  BY <1>8 DEF BrokerStopped
<1>9. CASE ReloadConfig
  BY <1>9 DEF ReloadConfig
<1>10. CASE ApplyLock
  BY <1>10 DEF ApplyLock
<1>11. CASE ApplySettingsChanges
  BY <1>11 DEF ApplySettingsChanges, SetLogMask, TakeScope, BrokerConfig
<1>12. CASE Sleep
  BY <1>12 DEF Sleep
<1>13. CASE RdmnetDeinit
  BY <1>13 DEF RdmnetDeinit
<1>14. CASE Deinit
  BY <1>14 DEF Deinit
<1>15. ASSUME NEW t \in Requesters, Requester(t)
      PROVE  ShellTypeOK'
  <2>1. ASSUME NEW cooldown_ms \in Cooldowns, RequestRestart(t, cooldown_ms)
        PROVE  ShellTypeOK'
    BY <2>1 DEF RequestRestart
  <2>2. CASE RequestLock(t)
    BY <2>2 DEF RequestLock
  <2>3. CASE RequestBody(t)
    BY <2>3 DEF RequestBody
  <2> QED  BY <1>15, <2>1, <2>2, <2>3 DEF Requester
<1>16. ASSUME NEW scope \in Scopes, HandleScopeChanged(scope)
      PROVE  ShellTypeOK'
  BY <1>16 DEF HandleScopeChanged
<1>17. CASE ScopeLock
  BY <1>17 DEF ScopeLock
<1>18. CASE ScopeBody
  BY <1>18 DEF ScopeBody, RequestForScope
<1>19. CASE AsyncShutdown
  BY <1>19 DEF AsyncShutdown
<1>20. ASSUME NEW file \in ConfFiles, WriteConfFile(file)
      PROVE  ShellTypeOK'
  BY <1>20 DEF WriteConfFile
<1>21. CASE Tick
  BY <1>21 DEF Tick
<1>22. CASE RunFails
  BY <1>22 DEF RunFails
<1>23. CASE UNCHANGED vars
  BY <1>23
<1> QED
  BY <1>1, <1>2, <1>3, <1>4, <1>5, <1>6, <1>7, <1>8, <1>9, <1>10, <1>11,
     <1>12, <1>13, <1>14, <1>15, <1>16, <1>17, <1>18, <1>19, <1>20, <1>21,
     <1>22, <1>23 DEF Next, Shell, Run, Library, Environment

\* Every step keeps the types of the shared variables.
LEMMA RequestTypeStep ==
  ASSUME TypeOK, [Next]_vars
  PROVE  RequestTypeOK'
<1> USE DEF TypeOK, RequestTypeOK, OtherTypeOK, vars, shellVars,
            setupVars, configVars, brokerVars, requestVars, reqVars, cbVars,
            otherVars, historyVars, Go, Pass, Acquire, Release
<1>1. CASE InitShell
  BY <1>1 DEF InitShell
<1>2. CASE RunEnter
  BY <1>2 DEF RunEnter
<1>3. CASE LoopTop
  BY <1>3 DEF LoopTop, StartupFailed
<1>4. CASE CheckShutdown
  BY <1>4 DEF CheckShutdown
<1>5. CASE PollLock
  BY <1>5 DEF PollLock
<1>6. CASE TimeToRestartBroker
  BY <1>6 DEF TimeToRestartBroker, TakeRequest, NotYet
<1>7. CASE ShutdownBroker
  BY <1>7 DEF ShutdownBroker, ShutdownDue
<1>8. CASE BrokerStopped
  BY <1>8 DEF BrokerStopped
<1>9. CASE ReloadConfig
  BY <1>9 DEF ReloadConfig
<1>10. CASE ApplyLock
  BY <1>10 DEF ApplyLock
<1>11. CASE ApplySettingsChanges
  BY <1>11 DEF ApplySettingsChanges, SetLogMask, TakeScope
<1>12. CASE Sleep
  BY <1>12 DEF Sleep
<1>13. CASE RdmnetDeinit
  BY <1>13 DEF RdmnetDeinit
<1>14. CASE Deinit
  BY <1>14 DEF Deinit
<1>15. ASSUME NEW t \in Requesters, Requester(t)
      PROVE  RequestTypeOK'
  <2>1. ASSUME NEW cooldown_ms \in Cooldowns, RequestRestart(t, cooldown_ms)
        PROVE  RequestTypeOK'
    BY <2>1 DEF RequestRestart
  <2>2. CASE RequestLock(t)
    BY <2>2 DEF RequestLock
  <2>3. CASE RequestBody(t)
    <3>1. restart_timer_' \in Timer
      BY <2>3, RequestTimer DEF RequestBody
    <3>2. req_ms' \in [Requesters -> Cooldowns]
      BY <2>3, ClockAssumption DEF RequestBody
    <3> QED  BY <2>3, <3>1, <3>2 DEF RequestBody, LockedRequestRestart
  <2> QED  BY <1>15, <2>1, <2>2, <2>3 DEF Requester
<1>16. ASSUME NEW scope \in Scopes, HandleScopeChanged(scope)
      PROVE  RequestTypeOK'
  BY <1>16 DEF HandleScopeChanged
<1>17. CASE ScopeLock
  BY <1>17 DEF ScopeLock
<1>18. CASE ScopeBody
  <2>1. restart_timer_' \in Timer
    BY <1>18, RequestTimer, ClockAssumption DEF ScopeBody, RequestForScope
  <2> QED  BY <1>18, <2>1 DEF ScopeBody, RequestForScope, LockedRequestRestart
<1>19. CASE AsyncShutdown
  BY <1>19 DEF AsyncShutdown
<1>20. ASSUME NEW file \in ConfFiles, WriteConfFile(file)
      PROVE  RequestTypeOK'
  BY <1>20 DEF WriteConfFile
<1>21. CASE Tick
  BY <1>21, TickTimer DEF Tick
<1>22. CASE RunFails
  BY <1>22 DEF RunFails
<1>23. CASE UNCHANGED vars
  BY <1>23
<1> QED
  BY <1>1, <1>2, <1>3, <1>4, <1>5, <1>6, <1>7, <1>8, <1>9, <1>10, <1>11,
     <1>12, <1>13, <1>14, <1>15, <1>16, <1>17, <1>18, <1>19, <1>20, <1>21,
     <1>22, <1>23 DEF Next, Shell, Run, Library, Environment

\* Every step keeps the types of the other variables.
LEMMA OtherTypeStep ==
  ASSUME TypeOK, [Next]_vars
  PROVE  OtherTypeOK'
<1> USE DEF TypeOK, RequestTypeOK, OtherTypeOK, vars, shellVars,
            setupVars, configVars, brokerVars, requestVars, reqVars, cbVars,
            otherVars, historyVars, Go, Pass, Acquire, Release
<1>1. CASE InitShell
  BY <1>1 DEF InitShell
<1>2. CASE RunEnter
  BY <1>2 DEF RunEnter
<1>3. CASE LoopTop
  BY <1>3 DEF LoopTop, StartupFailed
<1>4. CASE CheckShutdown
  BY <1>4 DEF CheckShutdown
<1>5. CASE PollLock
  BY <1>5 DEF PollLock
<1>6. CASE TimeToRestartBroker
  BY <1>6, ZeroLag DEF TimeToRestartBroker, TakeRequest, NotYet
<1>7. CASE ShutdownBroker
  BY <1>7 DEF ShutdownBroker, ShutdownDue
<1>8. CASE BrokerStopped
  BY <1>8 DEF BrokerStopped
<1>9. CASE ReloadConfig
  BY <1>9 DEF ReloadConfig
<1>10. CASE ApplyLock
  BY <1>10 DEF ApplyLock
<1>11. CASE ApplySettingsChanges
  BY <1>11 DEF ApplySettingsChanges, SetLogMask, TakeScope
<1>12. CASE Sleep
  BY <1>12 DEF Sleep
<1>13. CASE RdmnetDeinit
  BY <1>13 DEF RdmnetDeinit
<1>14. CASE Deinit
  BY <1>14 DEF Deinit
<1>15. ASSUME NEW t \in Requesters, Requester(t)
      PROVE  OtherTypeOK'
  <2>1. ASSUME NEW cooldown_ms \in Cooldowns, RequestRestart(t, cooldown_ms)
        PROVE  OtherTypeOK'
    BY <2>1 DEF RequestRestart
  <2>2. CASE RequestLock(t)
    BY <2>2 DEF RequestLock
  <2>3. CASE RequestBody(t)
    <3>1. quiet' \in Nat
      BY <2>3, RequestTimer DEF RequestBody
    <3> QED  BY <2>3, <3>1 DEF RequestBody, LockedRequestRestart
  <2> QED  BY <1>15, <2>1, <2>2, <2>3 DEF Requester
<1>16. ASSUME NEW scope \in Scopes, HandleScopeChanged(scope)
      PROVE  OtherTypeOK'
  BY <1>16 DEF HandleScopeChanged
<1>17. CASE ScopeLock
  BY <1>17 DEF ScopeLock
<1>18. CASE ScopeBody
  <2>1. quiet' \in Nat
    BY <1>18, RequestTimer, ClockAssumption DEF ScopeBody, RequestForScope
  <2>2. cb_scope' \in Scopes
    BY <1>18, ShellAssumption DEF ScopeBody
  <2> QED  BY <1>18, <2>1, <2>2 DEF ScopeBody, RequestForScope, LockedRequestRestart
<1>19. CASE AsyncShutdown
  BY <1>19 DEF AsyncShutdown
<1>20. ASSUME NEW file \in ConfFiles, WriteConfFile(file)
      PROVE  OtherTypeOK'
  BY <1>20 DEF WriteConfFile
<1>21. CASE Tick
  <2>1. lag' \in 0..MaxPollGap /\ quiet' \in Nat
    BY <1>21, TickCounters
  <2> QED  BY <1>21, <2>1 DEF Tick
<1>22. CASE RunFails
  BY <1>22 DEF RunFails
<1>23. CASE UNCHANGED vars
  BY <1>23
<1> QED
  BY <1>1, <1>2, <1>3, <1>4, <1>5, <1>6, <1>7, <1>8, <1>9, <1>10, <1>11,
     <1>12, <1>13, <1>14, <1>15, <1>16, <1>17, <1>18, <1>19, <1>20, <1>21,
     <1>22, <1>23 DEF Next, Shell, Run, Library, Environment

\* Every step keeps the lock discipline.
LEMMA LockStep ==
  ASSUME TypeOK, LockInv, [Next]_vars
  PROVE  LockInv'
<1> USE ShellAssumption
        DEF TypeOK, ShellTypeOK, RequestTypeOK, OtherTypeOK, LockInv,
            vars, shellVars,
            setupVars, configVars, brokerVars, requestVars, reqVars, cbVars,
            otherVars, historyVars, Go, Pass, Acquire, Release
<1>1. CASE InitShell
  BY <1>1 DEF InitShell
<1>2. CASE RunEnter
  BY <1>2 DEF RunEnter
<1>3. CASE LoopTop
  BY <1>3 DEF LoopTop, StartupFailed
<1>4. CASE CheckShutdown
  BY <1>4 DEF CheckShutdown
<1>5. CASE PollLock
  BY <1>5 DEF PollLock
<1>6. CASE TimeToRestartBroker
  BY <1>6 DEF TimeToRestartBroker, TakeRequest, NotYet
<1>7. CASE ShutdownBroker
  BY <1>7 DEF ShutdownBroker, ShutdownDue
<1>8. CASE BrokerStopped
  BY <1>8 DEF BrokerStopped
<1>9. CASE ReloadConfig
  BY <1>9 DEF ReloadConfig
<1>10. CASE ApplyLock
  BY <1>10 DEF ApplyLock
<1>11. CASE ApplySettingsChanges
  BY <1>11 DEF ApplySettingsChanges, SetLogMask, TakeScope
<1>12. CASE Sleep
  BY <1>12 DEF Sleep
<1>13. CASE RdmnetDeinit
  BY <1>13 DEF RdmnetDeinit
<1>14. CASE Deinit
  BY <1>14 DEF Deinit
<1>15. ASSUME NEW t \in Requesters, Requester(t)
      PROVE  LockInv'
  <2>1. ASSUME NEW cooldown_ms \in Cooldowns, RequestRestart(t, cooldown_ms)
        PROVE  LockInv'
    BY <2>1 DEF RequestRestart
  <2>2. CASE RequestLock(t)
    BY <2>2 DEF RequestLock
  <2>3. CASE RequestBody(t)
    BY <2>3 DEF RequestBody
  <2> QED  BY <1>15, <2>1, <2>2, <2>3 DEF Requester
<1>16. ASSUME NEW scope \in Scopes, HandleScopeChanged(scope)
      PROVE  LockInv'
  BY <1>16 DEF HandleScopeChanged
<1>17. CASE ScopeLock
  BY <1>17 DEF ScopeLock
<1>18. CASE ScopeBody
  BY <1>18 DEF ScopeBody, RequestForScope
<1>19. CASE AsyncShutdown
  BY <1>19 DEF AsyncShutdown
<1>20. ASSUME NEW file \in ConfFiles, WriteConfFile(file)
      PROVE  LockInv'
  BY <1>20 DEF WriteConfFile
<1>21. CASE Tick
  BY <1>21 DEF Tick
<1>22. CASE RunFails
  BY <1>22 DEF RunFails
<1>23. CASE UNCHANGED vars
  BY <1>23
<1> QED
  BY <1>1, <1>2, <1>3, <1>4, <1>5, <1>6, <1>7, <1>8, <1>9, <1>10, <1>11,
     <1>12, <1>13, <1>14, <1>15, <1>16, <1>17, <1>18, <1>19, <1>20, <1>21,
     <1>22, <1>23 DEF Next, Shell, Run, Library, Environment

\* Every step keeps setup and teardown in step with the shell's thread.
LEMMA PhaseStep ==
  ASSUME TypeOK, PhaseInv, [Next]_vars
  PROVE  PhaseInv'
<1> USE DEF TypeOK, ShellTypeOK, RequestTypeOK, OtherTypeOK, PhaseInv,
            vars, shellVars,
            setupVars, configVars, brokerVars, requestVars, reqVars, cbVars,
            otherVars, historyVars, Go, Pass, Acquire, Release
<1>1. CASE InitShell
  <2>1. CASE log_' = "on" /\ ready_to_run_' = TRUE
    BY <1>1, <2>1 DEF InitShell
  <2>2. CASE UNCHANGED <<log_, ready_to_run_>>
    BY <1>1, <2>2 DEF InitShell
  <2> QED  BY <1>1, <2>1, <2>2 DEF InitShell
<1>2. CASE RunEnter
  BY <1>2 DEF RunEnter
<1>3. CASE LoopTop
  BY <1>3 DEF LoopTop, StartupFailed
<1>4. CASE CheckShutdown
  BY <1>4 DEF CheckShutdown
<1>5. CASE PollLock
  BY <1>5 DEF PollLock
<1>6. CASE TimeToRestartBroker
  BY <1>6 DEF TimeToRestartBroker, TakeRequest, NotYet
<1>7. CASE ShutdownBroker
  BY <1>7 DEF ShutdownBroker, ShutdownDue
<1>8. CASE BrokerStopped
  BY <1>8 DEF BrokerStopped
<1>9. CASE ReloadConfig
  BY <1>9 DEF ReloadConfig
<1>10. CASE ApplyLock
  BY <1>10 DEF ApplyLock
<1>11. CASE ApplySettingsChanges
  BY <1>11 DEF ApplySettingsChanges, SetLogMask, TakeScope
<1>12. CASE Sleep
  BY <1>12 DEF Sleep
<1>13. CASE RdmnetDeinit
  BY <1>13 DEF RdmnetDeinit
<1>14. CASE Deinit
  BY <1>14 DEF Deinit
<1>15. ASSUME NEW t \in Requesters, Requester(t)
      PROVE  PhaseInv'
  <2>1. ASSUME NEW cooldown_ms \in Cooldowns, RequestRestart(t, cooldown_ms)
        PROVE  PhaseInv'
    BY <2>1 DEF RequestRestart
  <2>2. CASE RequestLock(t)
    BY <2>2 DEF RequestLock
  <2>3. CASE RequestBody(t)
    BY <2>3 DEF RequestBody
  <2> QED  BY <1>15, <2>1, <2>2, <2>3 DEF Requester
<1>16. ASSUME NEW scope \in Scopes, HandleScopeChanged(scope)
      PROVE  PhaseInv'
  BY <1>16 DEF HandleScopeChanged
<1>17. CASE ScopeLock
  BY <1>17 DEF ScopeLock
<1>18. CASE ScopeBody
  BY <1>18 DEF ScopeBody, RequestForScope
<1>19. CASE AsyncShutdown
  BY <1>19 DEF AsyncShutdown
<1>20. ASSUME NEW file \in ConfFiles, WriteConfFile(file)
      PROVE  PhaseInv'
  BY <1>20 DEF WriteConfFile
<1>21. CASE Tick
  BY <1>21 DEF Tick
<1>22. CASE RunFails
  BY <1>22 DEF RunFails
<1>23. CASE UNCHANGED vars
  BY <1>23
<1> QED
  BY <1>1, <1>2, <1>3, <1>4, <1>5, <1>6, <1>7, <1>8, <1>9, <1>10, <1>11,
     <1>12, <1>13, <1>14, <1>15, <1>16, <1>17, <1>18, <1>19, <1>20, <1>21,
     <1>22, <1>23 DEF Next, Shell, Run, Library, Environment

\* Every step keeps enable_broker in step with the broker.
LEMMA BrokerStep ==
  ASSUME TypeOK, PhaseInv, BrokerInv, [Next]_vars
  PROVE  BrokerInv'
<1> USE DEF TypeOK, ShellTypeOK, RequestTypeOK, OtherTypeOK, PhaseInv,
            BrokerInv, vars, shellVars,
            setupVars, configVars, brokerVars, requestVars, reqVars, cbVars,
            otherVars, historyVars, Go, Pass, Acquire, Release
<1>1. CASE InitShell
  BY <1>1 DEF InitShell
<1>2. CASE RunEnter
  BY <1>2 DEF RunEnter
<1>3. CASE LoopTop
  BY <1>3 DEF LoopTop, StartupFailed, BrokerConfig
<1>4. CASE CheckShutdown
  <2>1. CASE Pass("check", "exit")
    BY <2>1
  <2>2. CASE Pass("check", "poll")
    BY <2>2
  <2> QED  BY <1>4, <2>1, <2>2 DEF CheckShutdown
<1>5. CASE PollLock
  BY <1>5 DEF PollLock
<1>6. CASE TimeToRestartBroker
  BY <1>6 DEF TimeToRestartBroker, TakeRequest, NotYet
<1>7. CASE ShutdownBroker
  BY <1>7 DEF ShutdownBroker, ShutdownDue
<1>8. CASE BrokerStopped
  BY <1>8 DEF BrokerStopped
<1>9. CASE ReloadConfig
  BY <1>9 DEF ReloadConfig
<1>10. CASE ApplyLock
  BY <1>10 DEF ApplyLock
<1>11. CASE ApplySettingsChanges
  BY <1>11 DEF ApplySettingsChanges, SetLogMask, TakeScope, BrokerConfig
<1>12. CASE Sleep
  BY <1>12 DEF Sleep
<1>13. CASE RdmnetDeinit
  BY <1>13 DEF RdmnetDeinit
<1>14. CASE Deinit
  BY <1>14 DEF Deinit
<1>15. ASSUME NEW t \in Requesters, Requester(t)
      PROVE  BrokerInv'
  <2>1. ASSUME NEW cooldown_ms \in Cooldowns, RequestRestart(t, cooldown_ms)
        PROVE  BrokerInv'
    BY <2>1 DEF RequestRestart, Serving
  <2>2. CASE RequestLock(t)
    BY <2>2 DEF RequestLock
  <2>3. CASE RequestBody(t)
    BY <2>3 DEF RequestBody
  <2> QED  BY <1>15, <2>1, <2>2, <2>3 DEF Requester
<1>16. ASSUME NEW scope \in Scopes, HandleScopeChanged(scope)
      PROVE  BrokerInv'
  BY <1>16 DEF HandleScopeChanged
<1>17. CASE ScopeLock
  BY <1>17 DEF ScopeLock
<1>18. CASE ScopeBody
  BY <1>18 DEF ScopeBody, RequestForScope
<1>19. CASE AsyncShutdown
  BY <1>19 DEF AsyncShutdown
<1>20. ASSUME NEW file \in ConfFiles, WriteConfFile(file)
      PROVE  BrokerInv'
  BY <1>20 DEF WriteConfFile
<1>21. CASE Tick
  BY <1>21 DEF Tick
<1>22. CASE RunFails
  BY <1>22 DEF RunFails
<1>23. CASE UNCHANGED vars
  BY <1>23
<1> QED
  BY <1>1, <1>2, <1>3, <1>4, <1>5, <1>6, <1>7, <1>8, <1>9, <1>10, <1>11,
     <1>12, <1>13, <1>14, <1>15, <1>16, <1>17, <1>18, <1>19, <1>20, <1>21,
     <1>22, <1>23 DEF Next, Shell, Run, Library, Environment

\* Every step keeps what has been read in effect.
LEMMA SettingsStep ==
  ASSUME TypeOK, BrokerInv, MaskInv, SettingsInEffect, [Next]_vars
  PROVE  (MaskInv /\ SettingsInEffect)'
<1> USE DEF TypeOK, ShellTypeOK, RequestTypeOK, OtherTypeOK, BrokerInv,
            MaskInv, SettingsInEffect, vars, shellVars,
            setupVars, configVars, brokerVars, requestVars, reqVars, cbVars,
            otherVars, historyVars, Go, Pass, Acquire, Release
<1>1. CASE InitShell
  BY <1>1 DEF InitShell
<1>2. CASE RunEnter
  BY <1>2 DEF RunEnter
<1>3. CASE LoopTop
  BY <1>3 DEF LoopTop, StartupFailed, BrokerConfig
<1>4. CASE CheckShutdown
  <2>1. CASE Pass("check", "exit")
    BY <2>1
  <2>2. CASE Pass("check", "poll")
    BY <2>2
  <2> QED  BY <1>4, <2>1, <2>2 DEF CheckShutdown
<1>5. CASE PollLock
  BY <1>5 DEF PollLock
<1>6. CASE TimeToRestartBroker
  BY <1>6 DEF TimeToRestartBroker, TakeRequest, NotYet
<1>7. CASE ShutdownBroker
  BY <1>7 DEF ShutdownBroker, ShutdownDue
<1>8. CASE BrokerStopped
  BY <1>8 DEF BrokerStopped
<1>9. CASE ReloadConfig
  BY <1>9 DEF ReloadConfig
<1>10. CASE ApplyLock
  BY <1>10 DEF ApplyLock
<1>11. CASE ApplySettingsChanges
  BY <1>11 DEF ApplySettingsChanges, SetLogMask, TakeScope, BrokerConfig
<1>12. CASE Sleep
  BY <1>12 DEF Sleep
<1>13. CASE RdmnetDeinit
  BY <1>13 DEF RdmnetDeinit
<1>14. CASE Deinit
  BY <1>14 DEF Deinit
<1>15. ASSUME NEW t \in Requesters, Requester(t)
      PROVE  (MaskInv /\ SettingsInEffect)'
  <2>1. ASSUME NEW cooldown_ms \in Cooldowns, RequestRestart(t, cooldown_ms)
        PROVE  (MaskInv /\ SettingsInEffect)'
    BY <2>1 DEF RequestRestart
  <2>2. CASE RequestLock(t)
    BY <2>2 DEF RequestLock
  <2>3. CASE RequestBody(t)
    BY <2>3 DEF RequestBody
  <2> QED  BY <1>15, <2>1, <2>2, <2>3 DEF Requester
<1>16. ASSUME NEW scope \in Scopes, HandleScopeChanged(scope)
      PROVE  (MaskInv /\ SettingsInEffect)'
  BY <1>16 DEF HandleScopeChanged
<1>17. CASE ScopeLock
  BY <1>17 DEF ScopeLock
<1>18. CASE ScopeBody
  BY <1>18 DEF ScopeBody, RequestForScope
<1>19. CASE AsyncShutdown
  BY <1>19 DEF AsyncShutdown
<1>20. ASSUME NEW file \in ConfFiles, WriteConfFile(file)
      PROVE  (MaskInv /\ SettingsInEffect)'
  BY <1>20 DEF WriteConfFile
<1>21. CASE Tick
  BY <1>21 DEF Tick
<1>22. CASE RunFails
  BY <1>22 DEF RunFails
<1>23. CASE UNCHANGED vars
  BY <1>23
<1> QED
  BY <1>1, <1>2, <1>3, <1>4, <1>5, <1>6, <1>7, <1>8, <1>9, <1>10, <1>11,
     <1>12, <1>13, <1>14, <1>15, <1>16, <1>17, <1>18, <1>19, <1>20, <1>21,
     <1>22, <1>23 DEF Next, Shell, Run, Library, Environment

\* Every step keeps every request, and every scope, pending or served.
LEMMA RequestStep ==
  ASSUME TypeOK, NoRequestLost, ScopeChangePending, [Next]_vars
  PROVE  (NoRequestLost /\ ScopeChangePending)'
<1> USE DEF TypeOK, ShellTypeOK, RequestTypeOK, OtherTypeOK,
            NoRequestLost, ScopeChangePending, vars, shellVars,
            setupVars, configVars, brokerVars, requestVars, reqVars, cbVars,
            otherVars, historyVars, Go, Pass, Acquire, Release
<1>1. CASE InitShell
  BY <1>1 DEF InitShell
<1>2. CASE RunEnter
  BY <1>2 DEF RunEnter
<1>3. CASE LoopTop
  BY <1>3 DEF LoopTop, StartupFailed
<1>4. CASE CheckShutdown
  <2>1. CASE Pass("check", "exit")
    BY <2>1
  <2>2. CASE Pass("check", "poll")
    BY <2>2
  <2> QED  BY <1>4, <2>1, <2>2 DEF CheckShutdown
<1>5. CASE PollLock
  BY <1>5 DEF PollLock
<1>6. CASE TimeToRestartBroker
  <2>1. CASE TakeRequest
    BY <1>6, <2>1 DEF TimeToRestartBroker, TakeRequest
  <2>2. CASE NotYet
    BY <1>6, <2>2 DEF TimeToRestartBroker, NotYet
  <2> QED  BY <1>6, <2>1, <2>2 DEF TimeToRestartBroker
<1>7. CASE ShutdownBroker
  <2>1. UNCHANGED <<unserved, restart_requested_, new_scope_>>
    BY <1>7 DEF ShutdownBroker
  <2>2. \/ pc = "restart" /\ pc' \in {"stopping", "load"}
        \/ pc = "exit"
    BY <1>7 DEF ShutdownBroker
  <2>3. CASE pc = "restart"
    BY <2>1, <2>2, <2>3
  <2>4. CASE pc = "exit"
    BY <2>1, <2>4
  <2> QED  BY <2>2, <2>3, <2>4
<1>8. CASE BrokerStopped
  BY <1>8 DEF BrokerStopped
<1>9. CASE ReloadConfig
  BY <1>9 DEF ReloadConfig
<1>10. CASE ApplyLock
  BY <1>10 DEF ApplyLock
<1>11. CASE ApplySettingsChanges
  BY <1>11 DEF ApplySettingsChanges, SetLogMask, TakeScope
<1>12. CASE Sleep
  BY <1>12 DEF Sleep
<1>13. CASE RdmnetDeinit
  BY <1>13 DEF RdmnetDeinit
<1>14. CASE Deinit
  BY <1>14 DEF Deinit
<1>15. ASSUME NEW t \in Requesters, Requester(t)
      PROVE  (NoRequestLost /\ ScopeChangePending)'
  <2>1. ASSUME NEW cooldown_ms \in Cooldowns, RequestRestart(t, cooldown_ms)
        PROVE  (NoRequestLost /\ ScopeChangePending)'
    BY <2>1 DEF RequestRestart
  <2>2. CASE RequestLock(t)
    BY <2>2 DEF RequestLock
  <2>3. CASE RequestBody(t)
    BY <2>3 DEF RequestBody, LockedRequestRestart
  <2> QED  BY <1>15, <2>1, <2>2, <2>3 DEF Requester
<1>16. ASSUME NEW scope \in Scopes, HandleScopeChanged(scope)
      PROVE  (NoRequestLost /\ ScopeChangePending)'
  BY <1>16 DEF HandleScopeChanged
<1>17. CASE ScopeLock
  BY <1>17 DEF ScopeLock
<1>18. CASE ScopeBody
  BY <1>18 DEF ScopeBody, RequestForScope, LockedRequestRestart
<1>19. CASE AsyncShutdown
  BY <1>19 DEF AsyncShutdown
<1>20. ASSUME NEW file \in ConfFiles, WriteConfFile(file)
      PROVE  (NoRequestLost /\ ScopeChangePending)'
  BY <1>20 DEF WriteConfFile
<1>21. CASE Tick
  BY <1>21 DEF Tick
<1>22. CASE RunFails
  BY <1>22 DEF RunFails
<1>23. CASE UNCHANGED vars
  BY <1>23
<1> QED
  BY <1>1, <1>2, <1>3, <1>4, <1>5, <1>6, <1>7, <1>8, <1>9, <1>10, <1>11,
     <1>12, <1>13, <1>14, <1>15, <1>16, <1>17, <1>18, <1>19, <1>20, <1>21,
     <1>22, <1>23 DEF Next, Shell, Run, Library, Environment

\* Every step keeps the timer running for every cooldown in force.
LEMMA CooldownStep ==
  ASSUME restart_timer_ \in Timer, quiet \in Nat,
         req_ms \in [Requesters -> Cooldowns], CooldownInv, [Next]_vars
  PROVE  CooldownInv'
<1> USE DEF CooldownInv, GetRemaining, vars, shellVars,
            setupVars, configVars, brokerVars, requestVars, reqVars, cbVars,
            otherVars, historyVars, Go, Pass, Acquire, Release
<1>1. CASE InitShell
  BY <1>1 DEF InitShell
<1>2. CASE RunEnter
  BY <1>2 DEF RunEnter
<1>3. CASE LoopTop
  BY <1>3 DEF LoopTop, StartupFailed
<1>4. CASE CheckShutdown
  <2>1. CASE Pass("check", "exit")
    BY <2>1
  <2>2. CASE Pass("check", "poll")
    BY <2>2
  <2> QED  BY <1>4, <2>1, <2>2 DEF CheckShutdown
<1>5. CASE PollLock
  BY <1>5 DEF PollLock
<1>6. CASE TimeToRestartBroker
  BY <1>6 DEF TimeToRestartBroker, TakeRequest, NotYet
<1>7. CASE ShutdownBroker
  BY <1>7 DEF ShutdownBroker, ShutdownDue
<1>8. CASE BrokerStopped
  BY <1>8 DEF BrokerStopped
<1>9. CASE ReloadConfig
  BY <1>9 DEF ReloadConfig
<1>10. CASE ApplyLock
  BY <1>10 DEF ApplyLock
<1>11. CASE ApplySettingsChanges
  BY <1>11 DEF ApplySettingsChanges, SetLogMask, TakeScope
<1>12. CASE Sleep
  BY <1>12 DEF Sleep
<1>13. CASE RdmnetDeinit
  BY <1>13 DEF RdmnetDeinit
<1>14. CASE Deinit
  BY <1>14 DEF Deinit
<1>15. ASSUME NEW t \in Requesters, Requester(t)
      PROVE  CooldownInv'
  <2>1. ASSUME NEW cooldown_ms \in Cooldowns, RequestRestart(t, cooldown_ms)
        PROVE  CooldownInv'
    BY <2>1 DEF RequestRestart
  <2>2. CASE RequestLock(t)
    BY <2>2 DEF RequestLock
  <2>3. CASE RequestBody(t)
    BY <2>3, RequestTimer DEF RequestBody
  <2> QED  BY <1>15, <2>1, <2>2, <2>3 DEF Requester
<1>16. ASSUME NEW scope \in Scopes, HandleScopeChanged(scope)
      PROVE  CooldownInv'
  BY <1>16 DEF HandleScopeChanged
<1>17. CASE ScopeLock
  BY <1>17 DEF ScopeLock
<1>18. CASE ScopeBody
  BY <1>18, RequestTimer, ClockAssumption DEF ScopeBody, RequestForScope
<1>19. CASE AsyncShutdown
  BY <1>19 DEF AsyncShutdown
<1>20. ASSUME NEW file \in ConfFiles, WriteConfFile(file)
      PROVE  CooldownInv'
  BY <1>20 DEF WriteConfFile
<1>21. CASE Tick
  <2>1. quiet' = IF quiet > 0 THEN quiet - 1 ELSE 0
    BY <1>21 DEF Tick
  <2>2. /\ restart_timer_.interval \in Nat
        /\ restart_timer_.interval < Wrap
        /\ restart_timer_.elapsed \in Nat
        /\ Wrap \in Nat
    BY ClockAssumption DEF Timer
  <2>3. /\ restart_timer_'.interval = restart_timer_.interval
        /\ restart_timer_'.elapsed = NextElapsed
    BY <1>21, TickTimer
  <2>4. CASE quiet = 0
    BY <2>1, <2>2, <2>3, <2>4 DEF NextElapsed
  <2>5. CASE quiet > 0
    <3>1. restart_timer_.elapsed + quiet <= restart_timer_.interval
      BY <2>2, <2>5
    <3>2. restart_timer_'.elapsed = restart_timer_.elapsed + 1
      BY <2>2, <2>3, <2>5, <3>1 DEF NextElapsed
    <3> QED  BY <2>1, <2>2, <2>3, <2>5, <3>1, <3>2
  <2> QED  BY <2>4, <2>5
<1>22. CASE RunFails
  BY <1>22 DEF RunFails
<1>23. CASE UNCHANGED vars
  BY <1>23
<1> QED
  BY <1>1, <1>2, <1>3, <1>4, <1>5, <1>6, <1>7, <1>8, <1>9, <1>10, <1>11,
     <1>12, <1>13, <1>14, <1>15, <1>16, <1>17, <1>18, <1>19, <1>20, <1>21,
     <1>22, <1>23 DEF Next, Shell, Run, Library, Environment


-----------------------------------------------------------------------------
\* The inductive invariant holds in every state of every behaviour.
LEMMA Inductive == Spec => []IInv
<1>1. Init => IInv
  <2> SUFFICES ASSUME Init  PROVE IInv
    OBVIOUS
  <2>1. /\ restart_timer_ = [interval |-> 0, elapsed |-> 0]
        /\ lag = 0
        /\ quiet = 0
    BY DEF Init
  <2>2. SetDefaults \in BrokerConfig
    BY ShellAssumption DEF SetDefaults, BrokerConfig
  <2>3. ShellTypeOK
    BY <2>2, ShellAssumption DEF Init, ShellTypeOK
  <2>4. restart_timer_ \in Timer /\ CooldownInv
    BY <2>1, ClockAssumption DEF Timer, CooldownInv, GetRemaining
  <2>5. RequestTypeOK
    BY <2>4, ClockAssumption DEF Init, RequestTypeOK
  <2>6. lag \in 0..MaxPollGap /\ quiet \in Nat
    BY <2>1, ZeroLag
  <2>7. OtherTypeOK
    BY <2>6, ShellAssumption DEF Init, OtherTypeOK
  <2>8. LockInv /\ PhaseInv /\ BrokerInv
    BY ShellAssumption DEF Init, LockInv, PhaseInv, BrokerInv
  <2>9. MaskInv /\ SettingsInEffect /\ NoRequestLost /\ ScopeChangePending
    BY DEF Init, MaskInv, SettingsInEffect, NoRequestLost,
           ScopeChangePending, SetDefaults
  <2> QED  BY <2>3, <2>4, <2>5, <2>7, <2>8, <2>9 DEF IInv, TypeOK
<1>2. IInv /\ [Next]_vars => IInv'
  <2> SUFFICES ASSUME IInv, [Next]_vars  PROVE IInv'
    OBVIOUS
  <2>1. TypeOK' /\ LockInv' /\ PhaseInv' /\ BrokerInv'
    BY ShellTypeStep, RequestTypeStep, OtherTypeStep, LockStep, PhaseStep,
       BrokerStep
       DEF IInv, TypeOK
  <2>2. MaskInv' /\ SettingsInEffect' /\ NoRequestLost' /\ ScopeChangePending'
    BY SettingsStep, RequestStep DEF IInv
  <2>3. CooldownInv'
    BY CooldownStep DEF IInv, TypeOK, RequestTypeOK, OtherTypeOK
  <2> QED  BY <2>1, <2>2, <2>3 DEF IInv
<1> QED  BY <1>1, <1>2, PTL DEF Spec

\* Every variable keeps its type: the settings, whatever the file holds, and
\* the timer, although its clock wraps.
THEOREM TypeCorrect == Spec => []TypeOK
<1>1. IInv => TypeOK  BY DEF IInv
<1> QED  BY <1>1, Inductive, PTL

\* Run starts only a broker that is down and shuts down only one that is up.
THEOREM CallsAreMatched == Spec => []CallsMatched
<1>1. IInv => CallsMatched
  BY DEF IInv, TypeOK, ShellTypeOK, BrokerInv, BrokerConfig, CallsMatched
<1> QED  BY <1>1, Inductive, PTL

\* Every path out of Run tears down in the reverse order of setup.
THEOREM TeardownIsOrdered == Spec => []TornDownInOrder
<1>1. IInv => TornDownInOrder
  BY DEF IInv, TypeOK, ShellTypeOK, PhaseInv, BrokerInv, TornDownInOrder
<1> QED  BY <1>1, Inductive, PTL

\* No request to restart is forgotten, at whatever point of a restart it is
\* made and however many threads make one.
THEOREM RequestsAreKept == Spec => []NoRequestLost
<1>1. IInv => NoRequestLost  BY DEF IInv
<1> QED  BY <1>1, Inductive, PTL

\* No scope set at run time waits without a restart to come.
THEOREM ScopeChangesArePending == Spec => []ScopeChangePending
<1>1. IInv => ScopeChangePending  BY DEF IInv
<1> QED  BY <1>1, Inductive, PTL

\* A running broker uses the settings that were read last.
THEOREM SettingsAreInEffect == Spec => []SettingsInEffect
<1>1. IInv => SettingsInEffect  BY DEF IInv
<1> QED  BY <1>1, Inductive, PTL

\* Whoever holds lock_ is about to release it.
THEOREM HoldersRelease == Spec => []HolderReleases
<1>1. IInv => HolderReleases  BY DEF IInv, LockInv, HolderReleases
<1> QED  BY <1>1, Inductive, PTL

\* No restart begins during the cooldown of a request made before it.
THEOREM CooldownsAreHonoured == Spec => CooldownHonoured
<1> DEFINE Taken == restart_requested_ /\ ~restart_requested_'
<1>1. ASSUME IInv, [Next]_vars
      PROVE  [Taken => quiet = 0]_vars
  <2>1. SUFFICES ASSUME Taken  PROVE quiet = 0
    OBVIOUS
  <2>2. TimeToRestartBroker
    BY <1>1, <2>1
       DEF Next, Shell, Run, Requester, Library, Environment, vars, shellVars,
            setupVars, configVars, brokerVars, requestVars, reqVars, cbVars,
            otherVars, historyVars, Go, Pass, Acquire, Release,
            InitShell, RunEnter, RunFails, LoopTop, CheckShutdown,
           PollLock, ShutdownBroker, BrokerStopped, ReloadConfig, ApplyLock,
           ApplySettingsChanges, TakeScope, RequestForScope, Sleep,
           RdmnetDeinit, Deinit, RequestRestart,
           RequestLock, RequestBody, LockedRequestRestart, HandleScopeChanged,
           ScopeLock, ScopeBody, AsyncShutdown, WriteConfFile, Tick
  <2>3. IsExpired
    BY <2>1, <2>2 DEF TimeToRestartBroker, TakeRequest, NotYet
  <2>4. restart_timer_ \in Timer /\ quiet \in Nat /\ CooldownInv
    BY <1>1 DEF IInv, TypeOK, RequestTypeOK, OtherTypeOK
  <2>5. GetRemaining = 0
    BY <2>3, <2>4, ExpiredHasNothingLeft
  <2> QED  BY <2>4, <2>5 DEF CooldownInv
<1> QED  BY <1>1, Inductive, PTL DEF Spec, CooldownHonoured

-----------------------------------------------------------------------------
(***************************************************************************)
(* The way out.                                                            *)
(***************************************************************************)

\* Once a shutdown is requested a step of the shell's thread brings it nearer
\* to its end, and no other thread moves it.
LEMMA ProgressStep ==
  ASSUME TypeOK, [Next]_vars
  PROVE  shutdown_requested_ /\ pc' # pc => StepsLeft[pc'] < StepsLeft[pc]
<1> USE DEF TypeOK, ShellTypeOK, StepsLeft, vars, shellVars, setupVars,
            configVars, brokerVars, requestVars, reqVars, cbVars, otherVars,
            historyVars, Go, Pass
<1>1. CASE InitShell
  BY <1>1 DEF InitShell
<1>2. CASE RunEnter
  BY <1>2 DEF RunEnter
<1>3. CASE RunFails
  BY <1>3 DEF RunFails
<1>4. CASE LoopTop
  BY <1>4 DEF LoopTop
<1>5. CASE CheckShutdown
  BY <1>5 DEF CheckShutdown, ExitDue
<1>6. CASE PollLock
  BY <1>6 DEF PollLock
<1>7. CASE TimeToRestartBroker
  BY <1>7 DEF TimeToRestartBroker, TakeRequest, NotYet
<1>8. CASE ShutdownBroker
  <2>1. \/ pc = "restart" /\ pc' \in {"stopping", "load"}
        \/ pc = "exit" /\ pc' \in {"exit_stopping", "deinit"}
    BY <1>8 DEF ShutdownBroker
  <2> QED  BY <2>1
<1>9. CASE BrokerStopped
  BY <1>9 DEF BrokerStopped
<1>10. CASE ReloadConfig
  BY <1>10 DEF ReloadConfig
<1>11. CASE ApplyLock
  BY <1>11 DEF ApplyLock
<1>12. CASE ApplySettingsChanges
  <2>1. pc = "apply_cs" /\ pc' = "sleep"
    BY <1>12 DEF ApplySettingsChanges
  <2> QED  BY <2>1
<1>13. CASE Sleep
  BY <1>13 DEF Sleep
<1>14. CASE RdmnetDeinit
  BY <1>14 DEF RdmnetDeinit
<1>15. CASE Deinit
  BY <1>15 DEF Deinit
<1>16. ASSUME NEW t \in Requesters, Requester(t)
      PROVE  pc' = pc
  BY <1>16 DEF Requester, RequestRestart, RequestLock, RequestBody
<1>17. CASE Library
  BY <1>17 DEF Library, HandleScopeChanged, ScopeLock, ScopeBody
<1>18. CASE Environment
  BY <1>18 DEF Environment, AsyncShutdown, WriteConfFile, Tick
<1>19. CASE UNCHANGED vars
  BY <1>19
<1> QED
  BY <1>1, <1>2, <1>3, <1>4, <1>5, <1>6, <1>7, <1>8, <1>9, <1>10, <1>11,
     <1>12, <1>13, <1>14, <1>15, <1>16, <1>17, <1>18, <1>19
     DEF Next, Shell, Run

\* After AsyncShutdown the shell's thread takes a bounded number of steps,
\* whatever the other threads request meanwhile.
THEOREM ShutdownMakesProgress == Spec => ShutdownProgress
<1>1. IInv /\ [Next]_vars =>
        [shutdown_requested_ /\ pc' # pc => StepsLeft[pc'] < StepsLeft[pc]]_vars
  BY ProgressStep DEF IInv
<1> QED  BY <1>1, Inductive, PTL DEF Spec, ShutdownProgress

-----------------------------------------------------------------------------
(***************************************************************************)
(* The refinement.                                                         *)
(***************************************************************************)

\* The way out of Run is taken only when a shutdown has been requested.
ExitInv == pc \in {"exit", "exit_stopping", "deinit"} => shutdown_requested_

\* Every step keeps the reason for leaving.
LEMMA ExitStep ==
  ASSUME TypeOK, ExitInv, [Next]_vars
  PROVE  ExitInv'
<1> USE DEF TypeOK, ShellTypeOK, ExitInv, vars, shellVars, setupVars,
            configVars, brokerVars, requestVars, reqVars, cbVars, otherVars,
            historyVars, Go, Pass
<1>1. CASE InitShell
  BY <1>1 DEF InitShell
<1>2. CASE RunEnter
  BY <1>2 DEF RunEnter
<1>3. CASE RunFails
  BY <1>3 DEF RunFails
<1>4. CASE LoopTop
  BY <1>4 DEF LoopTop
<1>5. CASE CheckShutdown
  BY <1>5 DEF CheckShutdown, ExitDue
<1>6. CASE PollLock
  BY <1>6 DEF PollLock
<1>7. CASE TimeToRestartBroker
  BY <1>7 DEF TimeToRestartBroker, TakeRequest, NotYet
<1>8. CASE ShutdownBroker
  BY <1>8 DEF ShutdownBroker
<1>9. CASE BrokerStopped
  BY <1>9 DEF BrokerStopped
<1>10. CASE ReloadConfig
  BY <1>10 DEF ReloadConfig
<1>11. CASE ApplyLock
  BY <1>11 DEF ApplyLock
<1>12. CASE ApplySettingsChanges
  BY <1>12 DEF ApplySettingsChanges
<1>13. CASE Sleep
  BY <1>13 DEF Sleep
<1>14. CASE RdmnetDeinit
  BY <1>14 DEF RdmnetDeinit
<1>15. CASE Deinit
  BY <1>15 DEF Deinit
<1>16. ASSUME NEW t \in Requesters, Requester(t)
      PROVE  ExitInv'
  BY <1>16 DEF Requester, RequestRestart, RequestLock, RequestBody
<1>17. CASE Library
  BY <1>17 DEF Library, HandleScopeChanged, ScopeLock, ScopeBody
<1>18. CASE Environment
  BY <1>18 DEF Environment, AsyncShutdown, WriteConfFile, Tick
<1>19. CASE UNCHANGED vars
  BY <1>19
<1> QED
  BY <1>1, <1>2, <1>3, <1>4, <1>5, <1>6, <1>7, <1>8, <1>9, <1>10, <1>11,
     <1>12, <1>13, <1>14, <1>15, <1>16, <1>17, <1>18, <1>19
     DEF Next, Shell, Run

\* What the services see of a step: a step of RestartService or nothing.
LEMMA ServiceStep ==
  ASSUME TypeOK, BrokerInv, ExitInv, [Next]_vars
  PROVE  [Service!Next]_(Service!serviceVars)
<1> DEFINE Seen == [Service!Next]_(Service!serviceVars)
<1> USE DEF TypeOK, ShellTypeOK, BrokerInv, ShellPhase, Service!serviceVars,
            vars, shellVars, setupVars, configVars, brokerVars, requestVars,
            reqVars, cbVars, otherVars, historyVars, Go, Pass
<1>1. CASE InitShell
  BY <1>1 DEF InitShell
<1>2. CASE RunEnter
  BY <1>2 DEF RunEnter, Service!Next, Service!EnterRun,
         Service!Move
<1>3. CASE RunFails
  BY <1>3 DEF RunFails, Service!Next, Service!RunFails,
         Service!Move
<1>4. CASE LoopTop
  BY <1>4 DEF LoopTop, Service!Next, Service!StartBroker,
         Service!Move
<1>5. CASE CheckShutdown
  BY <1>5 DEF CheckShutdown, ExitDue, Service!Next, Service!Poll, Service!Move
<1>6. CASE PollLock
  BY <1>6 DEF PollLock
<1>7. CASE TimeToRestartBroker
  BY <1>7 DEF TimeToRestartBroker, TakeRequest, NotYet, Service!Next,
         Service!TakeRestart, Service!NotYet, Service!Move
<1>8. CASE ShutdownBroker
  BY <1>8 DEF ShutdownBroker
<1>9. CASE BrokerStopped
  BY <1>9 DEF BrokerStopped
<1>10. CASE ReloadConfig
  BY <1>10 DEF ReloadConfig, Service!Next, Service!ReloadConfig,
         Service!Move
<1>11. CASE ApplyLock
  BY <1>11 DEF ApplyLock
<1>12. CASE ApplySettingsChanges
  BY <1>12 DEF ApplySettingsChanges, TakeScope
<1>13. CASE Sleep
  BY <1>13 DEF Sleep
<1>14. CASE RdmnetDeinit
  BY <1>14 DEF RdmnetDeinit, ExitInv, Service!Next, Service!RunReturns,
         Service!Move
<1>15. CASE Deinit
  BY <1>15 DEF Deinit, Service!Next, Service!RunFails,
         Service!Move
<1>16. ASSUME NEW t \in Requesters, Requester(t)
      PROVE  Seen
  BY <1>16 DEF Requester, RequestRestart, RequestLock, RequestBody,
         LockedRequestRestart, Service!Next, Service!RequestRestart
<1>17. CASE Library
  BY <1>17 DEF Library, HandleScopeChanged, ScopeLock, ScopeBody,
         RequestForScope, LockedRequestRestart, Service!Next,
         Service!RequestRestart
<1>18. CASE Environment
  BY <1>18 DEF Environment, AsyncShutdown, WriteConfFile, Tick,
         Service!Next, Service!AsyncShutdown
<1>19. CASE UNCHANGED vars
  BY <1>19
<1> QED
  BY <1>1, <1>2, <1>3, <1>4, <1>5, <1>6, <1>7, <1>8, <1>9, <1>10, <1>11,
     <1>12, <1>13, <1>14, <1>15, <1>16, <1>17, <1>18, <1>19
     DEF Next, Shell, Run

\* BrokerShell implements RestartService: for every set of requesters, files,
\* scopes and cooldowns, its threads together do only what the service
\* promises, each request being kept until the restart that takes it.
THEOREM ShellImplementsService == Spec => Implements
<1>1. Init => ExitInv
  BY DEF Init, ExitInv
<1>2. IInv /\ ExitInv /\ [Next]_vars => ExitInv'
  BY ExitStep DEF IInv
<1>3. Init => Service!Init
  BY DEF Init, Service!Init, ShellPhase
<1>4. IInv /\ ExitInv /\ [Next]_vars => [Service!Next]_(Service!serviceVars)
  BY ServiceStep DEF IInv
<1> QED  BY <1>1, <1>2, <1>3, <1>4, Inductive, PTL DEF Spec, Implements, Service!Spec
=============================================================================
