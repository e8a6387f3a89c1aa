--------------------------- MODULE RestartService ---------------------------
(***************************************************************************)
(* What BrokerShell promises the services that own it, without its lock,   *)
(* its timer and its settings.  Run, once entered, starts the broker; then *)
(* it looks, again and again, first for a shutdown and then for a request  *)
(* to restart.  It takes requests one after the other, reading broker.conf *)
(* after a request has been taken and starting the broker after that; and  *)
(* it returns only when a shutdown has been requested.  A request made at  *)
(* any time stays until it is taken, and only taking it removes it.        *)
(* BrokerShell implements this specification (Implements in BrokerShell);  *)
(* WinService takes the shell's steps from here.                           *)
(***************************************************************************)
VARIABLES
  shell,               \* "ready", "start", "up", "poll", "restart", "returned"
  restart_requested_,
  shutdown_requested_

serviceVars == <<shell, restart_requested_, shutdown_requested_>>

Init ==
  /\ shell = "ready"
  /\ restart_requested_ = FALSE
  /\ shutdown_requested_ = FALSE

Move(from, to) == shell = from /\ shell' = to

\* Run is entered, or fails (or is never called) and has nothing to undo.
EnterRun == Move("ready", "start") /\ UNCHANGED <<restart_requested_, shutdown_requested_>>

RunFails == Move("ready", "returned") /\ UNCHANGED <<restart_requested_, shutdown_requested_>>

\* The interfaces are refreshed and the broker is started, if it is enabled.
StartBroker == Move("start", "up") /\ UNCHANGED <<restart_requested_, shutdown_requested_>>

\* Run has seen no shutdown and asks whether it is time to restart.
Poll ==
  /\ Move("up", "poll")
  /\ ~shutdown_requested_
  /\ UNCHANGED <<restart_requested_, shutdown_requested_>>

\* It is not: nobody asks for a restart, or its cooldown is not over.
NotYet == Move("poll", "up") /\ UNCHANGED <<restart_requested_, shutdown_requested_>>

TakeRestart ==
  /\ Move("poll", "restart")
  /\ restart_requested_
  /\ restart_requested_' = FALSE
  /\ UNCHANGED shutdown_requested_

ReloadConfig == Move("restart", "start") /\ UNCHANGED <<restart_requested_, shutdown_requested_>>

RunReturns ==
  /\ Move("up", "returned")
  /\ shutdown_requested_
  /\ UNCHANGED <<restart_requested_, shutdown_requested_>>

\* Other threads' calls, at any time.
RequestRestart == restart_requested_' = TRUE /\ UNCHANGED <<shell, shutdown_requested_>>

AsyncShutdown == shutdown_requested_' = TRUE /\ UNCHANGED <<shell, restart_requested_>>

Next == \/ EnterRun \/ RunFails \/ StartBroker
        \/ Poll \/ NotYet \/ TakeRestart \/ ReloadConfig \/ RunReturns
        \/ RequestRestart \/ AsyncShutdown

Spec == Init /\ [][Next]_serviceVars
=============================================================================
