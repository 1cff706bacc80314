----------------------------- MODULE TokenBucket -----------------------------
(***************************************************************************)
(* What the shared speed limit promises: a bucket that holds at most the   *)
(* bytes of one second and fills steadily.  A download is granted the      *)
(* bytes of its chunk in one or more parts, and each part empties the      *)
(* bucket by as many bytes.  In no stretch of d ticks at rate r can more   *)
(* than r * (d + Second) bytes be granted, and none is lost to a download  *)
(* that is told to wait.                                                   *)
(***************************************************************************)
EXTENDS Integers

CONSTANTS
  Second,    \* ticks of the clock in a second, at least one
  Rates,     \* the rates, in bytes per tick; 0 is no limit
  Client     \* the downloads

VARIABLES
  rate,      \* the rate in force
  level,     \* the bytes in the bucket
  left,      \* per download: the bytes of its chunk that are not granted yet
  cancelled  \* the downloads that gave up waiting and have not asked since

vars == <<rate, level, left, cancelled>>

Least(a, b) == IF a <= b THEN a ELSE b
Capacity(r) == r * Second

Ask(c) ==
  /\ left[c] = 0
  /\ left'[c] \in Nat \ {0}
  /\ left' = [left EXCEPT ![c] = left'[c]]
  /\ cancelled' = cancelled \ {c}
  /\ UNCHANGED <<rate, level>>

Grant(c, n) ==
  /\ n <= left[c]
  /\ left' = [left EXCEPT ![c] = @ - n]
  /\ UNCHANGED cancelled

\* n bytes of the bucket
Take(c) ==
  \E n \in 1 .. level :
    rate > 0 /\ Grant(c, n) /\ level' = level - n /\ UNCHANGED rate

\* Without a limit nothing is counted.
Free(c) == rate = 0 /\ (\E n \in 1 .. left[c] : Grant(c, n)) /\ UNCHANGED <<rate, level>>

\* A cancelled download is granted nothing more.
Abandon(c) ==
  /\ left[c] > 0
  /\ left' = [left EXCEPT ![c] = 0]
  /\ cancelled' = cancelled \cup {c}
  /\ UNCHANGED <<rate, level>>

Fill == level' = Least(Capacity(rate), level + rate) /\ UNCHANGED <<rate, left, cancelled>>

Change(r) == rate' = r /\ level' = Least(Capacity(r), level) /\ UNCHANGED <<left, cancelled>>

Init ==
  /\ rate \in Rates /\ level = Capacity(rate)
  /\ left = [c \in Client |-> 0] /\ cancelled = {}

Next ==
  \/ \E c \in Client : Ask(c) \/ Take(c) \/ Free(c) \/ Abandon(c)
  \/ Fill
  \/ \E r \in Rates : Change(r)

Spec == Init /\ [][Next]_vars
=============================================================================
