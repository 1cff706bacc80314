----------------------------- MODULE MCScheduler -----------------------------
(***************************************************************************)
(* Constant values for the TLC runs of Scheduler.                          *)
(***************************************************************************)
EXTENDS SlotLoops

IdleStatus == {"paused", "completed", "failed"}
NoEdits    == CallNames \ {"edit"}
NoStop     == CallNames \ {"stopall"}
=============================================================================
