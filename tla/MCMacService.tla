---------------------------- MODULE MCMacService ----------------------------
(***************************************************************************)
(* A small instance of MacService for TLC.                                 *)
(***************************************************************************)
EXTENDS MacService

\* One good file: the startup of the broker can still fail.
MCConfFiles ==
  {[opens |-> TRUE, result |-> "kOk", enable_broker |-> TRUE,
    scope |-> DefaultScope, log_mask |-> DefaultMask]}
=============================================================================
