----------------------------- MODULE MacService -----------------------------
(***************************************************************************)
(* The macOS daemon (src/macos/main.cpp and broker_service.{h,cpp}): the   *)
(* main thread initializes the shell, installs a SIGTERM handler, starts   *)
(* the thread that executes BrokerShell::Run, observes network changes and *)
(* enters the run loop.  The handler executes on the main thread, wherever *)
(* that thread is: while it runs the main thread makes no progress, and it *)
(* waits for the shell's thread.                                           *)
(*                                                                         *)
(* The module composes with BrokerShell: the shell's thread and the        *)
(* library are the ones specified there, the main thread is the only       *)
(* requester, and every step here is a step of BrokerShell or leaves its   *)
(* variables alone.                                                        *)
(***************************************************************************)
EXTENDS BrokerShell

CONSTANTS
  Main,                     \* the main thread
  kNetworkChangeCooldownMs

ASSUME MacAssumption ==
  /\ Requesters = {Main}
  /\ kNetworkChangeCooldownMs \in Cooldowns

VARIABLES
  main,            \* where the main thread is
  shell_thread_,   \* the shell's thread has been started
  handler,         \* where the SIGTERM handler is: "none" before the signal
  observer,        \* the interface-change callback is registered
  loop_stopped,    \* the run loop that is executing has been told to stop
  notified,        \* a network change waits for the run loop
  \* History variable, read by no action:
  net_stale        \* an observed change that no start of the broker followed

mainVars == <<main, shell_thread_>>
loopVars == <<observer, loop_stopped, notified>>
macVars == <<mainVars, handler, loopVars, net_stale>>
allVars == <<vars, macVars>>

MacInit ==
  /\ Init
  /\ main = "init"
  /\ shell_thread_ = FALSE
  /\ handler = "none"
  /\ observer = FALSE
  /\ loop_stopped = FALSE
  /\ notified = FALSE
  /\ net_stale = FALSE

-----------------------------------------------------------------------------
(***************************************************************************)
(* The main thread, when no handler interrupts it.                         *)
(***************************************************************************)
Uninterrupted == handler \in {"none", "done"}

At(from, to) == Uninterrupted /\ main = from /\ main' = to

\* Mutant: main goes on whether Init has succeeded or not.
GoesOn == "signal"

AfterInit == IF ready_to_run_' THEN "signal" ELSE "ended"

ServiceInit ==
  /\ InitShell
  /\ At("init", AfterInit)
  /\ UNCHANGED <<shell_thread_, handler, loopVars, net_stale>>

\* signal(SIGTERM, HandleSignal)
InstallHandler ==
  /\ At("signal", "start")
  /\ UNCHANGED <<vars, shell_thread_, handler, loopVars, net_stale>>

StartShellThread ==
  /\ At("start", "observe")
  /\ shell_thread_' = TRUE
  /\ UNCHANGED <<vars, handler, loopVars, net_stale>>

StartFails ==
  /\ At("start", "deinit")
  /\ UNCHANGED <<vars, shell_thread_, handler, loopVars, net_stale>>

AddObserver ==
  /\ At("observe", "enter")
  /\ observer' = TRUE
  /\ UNCHANGED <<vars, shell_thread_, handler, loop_stopped, notified, net_stale>>

\* CFRunLoopRun
RunLoop ==
  /\ At("enter", "loop")
  /\ UNCHANGED <<vars, shell_thread_, handler, loopVars, net_stale>>

\* Mutant: a network change is ignored unless a broker is running.
RequestIfRunning ==
  IF broker_ = "up" THEN RequestRestart(Main, kNetworkChangeCooldownMs)
                    ELSE UNCHANGED vars

RequestForNetwork == RequestRestart(Main, kNetworkChangeCooldownMs)

\* The loop calls the callback, which is inside RequestRestart afterwards.
InterfaceChangeCallback ==
  /\ At("loop", "loop")
  /\ observer /\ notified /\ ~loop_stopped
  /\ notified' = FALSE
  /\ RequestForNetwork
  /\ UNCHANGED <<shell_thread_, handler, observer, loop_stopped, net_stale>>

CallbackLock == At("loop", "loop") /\ RequestLock(Main) /\ UNCHANGED macVars

CallbackBody == At("loop", "loop") /\ RequestBody(Main) /\ UNCHANGED macVars

LeaveLoop ==
  /\ At("loop", "deinit")
  /\ loop_stopped
  /\ req_pc[Main] = "idle"
  /\ UNCHANGED <<vars, shell_thread_, handler, loopVars, net_stale>>

\* BrokerService::Deinit and the return from main, which ends the process.
ServiceDeinit ==
  /\ At("deinit", "ended")
  /\ Deinit
  /\ UNCHANGED <<shell_thread_, handler, loopVars, net_stale>>

-----------------------------------------------------------------------------
(***************************************************************************)
(* SIGTERM, once.  Until the handler is installed it kills the process.    *)
(***************************************************************************)
KilledBySignal ==
  /\ main \in {"init", "signal"}
  /\ main' = "ended"
  /\ UNCHANGED <<vars, shell_thread_, handler, loopVars, net_stale>>

HandlerStep(from, to) == handler = from /\ handler' = to

HandleSignal ==
  /\ main \notin {"init", "signal"}
  /\ HandlerStep("none", "remove")
  /\ UNCHANGED <<vars, mainVars, loopVars, net_stale>>

\* BrokerService::AsyncShutdown, call by call.
RemoveObserver ==
  /\ HandlerStep("remove", "stop")
  /\ observer' = FALSE
  /\ UNCHANGED <<vars, mainVars, loop_stopped, notified, net_stale>>

\* CFRunLoopStop stops the run that is executing, if there is one.
LoopRuns == main = "loop"

StopLoop ==
  /\ HandlerStep("stop", "shutdown")
  /\ loop_stopped' = LoopRuns
  /\ UNCHANGED <<vars, mainVars, observer, notified, net_stale>>

\* Mutant: the handler asks only a shell whose broker is running to shut down.
ShutdownIfRunning == IF broker_ = "up" THEN AsyncShutdown ELSE UNCHANGED vars

ShutdownShell == AsyncShutdown

ShutdownFromHandler ==
  /\ HandlerStep("shutdown", "join")
  /\ ShutdownShell
  /\ UNCHANGED <<mainVars, loopVars, net_stale>>

\* Mutant: the handler does not wait for the shell's thread.
NotJoined == TRUE

\* Join on a thread that was never started is an error and returns at once.
Joined == shell_thread_ => pc = "returned"

JoinShellThread ==
  /\ HandlerStep("join", "done")
  /\ Joined
  /\ UNCHANGED <<vars, mainVars, loopVars, net_stale>>

-----------------------------------------------------------------------------
(***************************************************************************)
(* The shell's thread, the library's thread and the environment.           *)
(***************************************************************************)

\* Starting the broker refreshes the network interfaces first; a broker that
\* is disabled has no use for them.
ShellThread ==
  /\ shell_thread_
  /\ Run
  /\ net_stale' = (net_stale /\ ~(pc = "top" /\ startup_broker))
  /\ UNCHANGED <<mainVars, handler, loopVars>>

OtherThreads ==
  /\ Library \/ Tick \/ \E file \in ConfFiles : WriteConfFile(file)
  /\ UNCHANGED macVars

\* kNotifySCNetworkChange is posted; it queues for a registered observer.
NetworkChange ==
  /\ observer
  /\ notified' = TRUE
  /\ net_stale' = TRUE
  /\ UNCHANGED <<vars, mainVars, handler, observer, loop_stopped>>

MainThread == \/ ServiceInit \/ InstallHandler \/ StartShellThread
              \/ StartFails \/ AddObserver \/ RunLoop
              \/ InterfaceChangeCallback \/ CallbackLock \/ CallbackBody
              \/ LeaveLoop \/ ServiceDeinit

Handler == \/ RemoveObserver \/ StopLoop \/ ShutdownFromHandler
           \/ JoinShellThread

MacNext ==
  /\ main # "ended"
  /\ \/ MainThread
     \/ KilledBySignal \/ HandleSignal \/ Handler
     \/ ShellThread
     \/ OtherThreads
     \/ NetworkChange

MacSpec == MacInit /\ [][MacNext]_allVars

(***************************************************************************)
(* The fairness of BrokerShell; the main thread and the handler take the   *)
(* steps they can take, and the run loop delivers its notifications.       *)
(***************************************************************************)
Fairly(Step) == main # "ended" /\ Step

MacFairness ==
  /\ WF_allVars(Fairly(MainThread))
  /\ SF_allVars(Fairly(CallbackLock))
  /\ WF_allVars(Fairly(Handler))
  /\ WF_allVars(Fairly(ShellThread))
  /\ SF_allVars(Fairly(ShellThread /\ PollLock))
  /\ SF_allVars(Fairly(ShellThread /\ ApplyLock))
  /\ SF_allVars(Fairly(ShellThread /\ BrokerStopped))
  /\ SF_allVars(Fairly(ScopeLock /\ UNCHANGED macVars))
  /\ WF_allVars(Fairly(ScopeBody /\ UNCHANGED macVars))
  /\ WF_allVars(Fairly(Tick /\ UNCHANGED macVars))

MacFairSpec == MacSpec /\ MacFairness

-----------------------------------------------------------------------------
(***************************************************************************)
(* Properties.                                                             *)
(***************************************************************************)

\* The type invariant of the daemon's own variables.  A daemon that could not
\* be initialized does not get as far as a handler, a thread or a loop, in
\* which it would stay without a shell.
MacTypeOK ==
  /\ main \in {"init", "signal", "start", "observe", "enter", "loop",
               "deinit", "ended"}
  /\ shell_thread_ \in BOOLEAN
  /\ handler \in {"none", "remove", "stop", "shutdown", "join", "done"}
  /\ observer \in BOOLEAN
  /\ loop_stopped \in BOOLEAN
  /\ notified \in BOOLEAN
  /\ net_stale \in BOOLEAN
  /\ main \notin {"init", "ended"} => ready_to_run_

\* main() destroys nothing that is in use: when it calls Deinit the shell's
\* thread, if there is one, has returned from Run, and the main thread is not
\* inside a callback, although the handler that stopped the loop may have
\* interrupted one.
DeinitAfterRun ==
  main = "deinit" => /\ shell_thread_ => pc = "returned"
                     /\ req_pc[Main] = "idle"

\* A network change that was observed is not forgotten: until the interfaces
\* are refreshed and the broker is started again, the change waits for the
\* run loop, or its callback is at work, or a restart is pending or under
\* way.  This includes changes during a restart and while the broker's
\* startup has failed.
NetChangeKept ==
  net_stale /\ handler = "none" =>
    \/ notified
    \/ req_pc[Main] # "idle"
    \/ restart_requested_
    \/ ShellPhase \in {"restart", "start", "returned"}

\* A SIGTERM that finds the main thread waiting in its loop ends the process,
\* wherever the shell's thread and the library are.
TermInLoopCompletes ==
  main = "loop" /\ handler = "remove" /\ req_pc[Main] = "idle" ~> main = "ended"

-----------------------------------------------------------------------------
\* main.cpp: a launchd daemon must handle SIGTERM; the main loop terminates
\* because of it.  Whatever the main thread is doing when the signal arrives,
\* the process ends.
TermCompletes == handler = "remove" ~> main = "ended"
=============================================================================
