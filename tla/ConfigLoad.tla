----------------------------- MODULE ConfigLoad -----------------------------
(***************************************************************************)
(* What BrokerConfig promises the shell that owns it: a load is one step.  *)
(* Whatever was loaded before, it ends with an outcome that depends on     *)
(* nothing but the file it has read; nothing can be said of the settings   *)
(* while it is under way.  BrokerShell relies on it, where a load is part  *)
(* of one step of the shell's thread, and BrokerConfig, which walks its    *)
(* validator array twice over the same object, implements it               *)
(* (ImplementsLoad in BrokerConfig).                                       *)
(***************************************************************************)
CONSTANT Outcomes   \* each file, and none, with its result and settings

VARIABLES
  loading,          \* LoadBrokerConfig has been entered
  outcome           \* that of the latest load: at most one

loadVars == <<loading, outcome>>

Init == loading = FALSE /\ outcome = {}

Begin == ~loading /\ loading' = TRUE /\ outcome' = {}

End ==
  /\ loading
  /\ loading' = FALSE
  /\ \E o \in Outcomes : outcome' = {o}

Next == Begin \/ End

Spec == Init /\ [][Next]_loadVars
=============================================================================
