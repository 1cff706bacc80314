-------------------------------- MODULE Slots --------------------------------
(***************************************************************************)
(* Which tasks get a download slot: what the loops scheduleWaitingLocked   *)
(* and enforceMaxRunningLocked of internal/core/scheduler.go compute.      *)
(* SlotLoops has the loops, which are compared with these sets.            *)
(*                                                                         *)
(* Task identifiers are random and never reused, and Scheduler.order is    *)
(* only appended to and deleted from.  A task is therefore named by its    *)
(* arrival number, and "earlier in order" is "smaller number".             *)
(***************************************************************************)
EXTENDS Naturals, FiniteSets

CONSTANTS
  MaxTasks,      \* bound: how many tasks are ever added
  Registered     \* the tasks whose pack has a registered worker

Task == 1 .. MaxTasks

ASSUME SlotsAssumption ==
  /\ MaxTasks \in Nat
  /\ Registered \subseteq Task

\* runningSlotCountLocked counts these: cancelled workers included, removed
\* tasks not.
SlotHolders(st, us, rn) == {t \in rn : st[t] # "absent" /\ us[t]}

Earlier(S, t) == {u \in S : u < t}

\* Faulty variant of Admitted: the slot test lets one task too many pass.
AdmittedOneMore(W, us, holders, mx) ==
  {t \in W : us[t] => holders + Cardinality(Earlier({u \in W \cap Registered : us[u]}, t)) <= mx}

\* The tasks of W that pass the slot test of scheduleLocked when it is called
\* on each of them in order.  A slot goes to every earlier task that passed and
\* has a worker.
Admitted(W, us, holders, mx) ==
  {t \in W : us[t] => holders + Cardinality(Earlier({u \in W \cap Registered : us[u]}, t)) < mx}

\* The tasks enforceMaxRunningLocked pauses: the slot holders beyond the first
\* mx; there are none when the count does not exceed mx.
Overflow(st, us, rn, mx) ==
  LET holders == SlotHolders(st, us, rn)
  IN {t \in holders : Cardinality(Earlier(holders, t)) >= mx}

=============================================================================
