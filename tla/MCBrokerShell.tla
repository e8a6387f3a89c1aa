---------------------------- MODULE MCBrokerShell ----------------------------
(***************************************************************************)
(* Small instances of BrokerShell for TLC.                                 *)
(***************************************************************************)
EXTENDS BrokerShell

\* The outcomes of reading broker.conf that the shell tells apart: a good
\* file, one with an invalid setting (kept at its default) that disables the
\* broker, and one that does not open.
MCConfFiles ==
  {[opens |-> TRUE, result |-> "kOk", enable_broker |-> TRUE,
    scope |-> DefaultScope, log_mask |-> "debug"],
   [opens |-> TRUE, result |-> "kInvalidSetting", enable_broker |-> FALSE,
    scope |-> DefaultScope, log_mask |-> DefaultMask],
   [opens |-> FALSE, result |-> "kJsonParseErr", enable_broker |-> TRUE,
    scope |-> DefaultScope, log_mask |-> DefaultMask]}

\* A good file and one that does not open.
MCTwoConfFiles == {file \in MCConfFiles : file.result # "kInvalidSetting"}

\* One good file: startup can still fail.
MCOneConfFile ==
  {[opens |-> TRUE, result |-> "kOk", enable_broker |-> TRUE,
    scope |-> DefaultScope, log_mask |-> DefaultMask]}

=============================================================================
