------------------------------- MODULE MCBridge -------------------------------
(* An instance of Bridge for TLC. *)
EXTENDS Bridge

CONSTANTS t1, t2

\* Switched on with one of two tokens, and switched off
SmallConfigs ==
  {[enabled |-> TRUE, token |-> t1], [enabled |-> TRUE, token |-> t2],
   [enabled |-> FALSE, token |-> t1]}
=============================================================================
