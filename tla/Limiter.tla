------------------------------- MODULE Limiter -------------------------------
(***************************************************************************)
(* The rate limiter all HTTP and FTP downloads share                       *)
(* (internal/ratelimit/limiter.go) and how they use it: the HTTP worker    *)
(* asks for a chunk at once, waitLimited of the FTP worker in pieces of at *)
(* most one second's worth.                                                *)
(*                                                                         *)
(* Time is a clock of Second ticks a second, a rate is bytes per tick      *)
(* (limiter.go: bytes per second, as floating-point numbers).  The limiter *)
(* refills lazily: it keeps the time of the last refill and adds what      *)
(* flowed in since only when it is asked.  An idle limiter fills up in a   *)
(* second, so the elapsed time is counted up to Second.                    *)
(***************************************************************************)
EXTENDS Integers

CONSTANTS
  Second, Rates,
  Http,          \* the part downloads of the HTTP worker
  Ftp,           \* the transfers of the FTP worker
  MaxChunk       \* bound: the bytes of one read (64 KiB in http/worker.go)

ASSUME LimiterAssumption ==
  /\ Second \in Nat \ {0}
  /\ Rates \subseteq Nat
  /\ Http \cap Ftp = {}
  /\ MaxChunk \in Nat

VARIABLES
  rate, allowance,
  elapsed,       \* ticks since Limiter.last, counted up to Second
  place,         \* per download: "idle", "rate" (FTP: before Rate()), "poll", "sleep",
                 \* "cancelled" when Wait returned the error of its context
  need,          \* the argument of the Wait under way
  left,          \* bytes of the chunk not granted yet
  timer,         \* ticks until the sleep of Wait ends
  returns        \* history: parity of the number of Waits that returned

limiterVars == <<rate, allowance, elapsed, place, need, left, timer, returns>>

Client == Http \cup Ftp

Least(a, b) == IF a <= b THEN a ELSE b
Capacity(r) == r * Second
CeilDiv(a, b) == (a + b - 1) \div b

\* The allowance after refillLocked, which also sets last to now
Refilled == IF rate = 0 THEN allowance ELSE Least(Capacity(rate), allowance + elapsed * rate)

\* A chunk of n bytes has been read.
Ask(c) ==
  /\ place[c] \in {"idle", "cancelled"}
  /\ \E n \in 1 .. MaxChunk :
       /\ left' = [left EXCEPT ![c] = n]
       /\ need' = [need EXCEPT ![c] = n]
  /\ place' = [place EXCEPT ![c] = IF c \in Ftp THEN "rate" ELSE "poll"]
  /\ UNCHANGED <<rate, allowance, elapsed, timer, returns>>

\* waitLimited: the rate is read in a critical section of its own.
ReadRate(c) ==
  /\ place[c] = "rate"
  /\ IF rate = 0
     THEN /\ place' = [place EXCEPT ![c] = "idle"]
          /\ left' = [left EXCEPT ![c] = 0]
          /\ UNCHANGED need
     ELSE /\ place' = [place EXCEPT ![c] = "poll"]
          /\ need' = [need EXCEPT ![c] = Least(left[c], Capacity(rate))]
          /\ UNCHANGED left
  /\ UNCHANGED <<rate, allowance, elapsed, timer, returns>>

\* Wait returns nil; waitLimited goes on with the rest.
WaitReturns(c) ==
  /\ left' = [left EXCEPT ![c] = @ - need[c]]
  /\ place' = [place EXCEPT ![c] = IF left'[c] > 0 THEN "rate" ELSE "idle"]
  /\ returns' = 1 - returns

\* Faulty variant of Deficit: what the bucket holds is not counted.
WholeNeed(c) == need[c]

\* What is missing for c once the limiter is refilled
Deficit(c) == need[c] - Refilled

\* Faulty variant of Spend: the bytes are taken from what was there before the refill.
SpendUnfilled(c) == allowance' = allowance - need[c]

Spend(c) == allowance' = Refilled - need[c]

\* One critical section of the loop of Wait
Poll(c) ==
  /\ \/ place[c] = "poll"
     \/ place[c] = "sleep" /\ timer[c] = 0
  /\ \/ /\ rate = 0
        /\ WaitReturns(c)
        /\ UNCHANGED <<allowance, elapsed, timer>>
     \/ /\ rate > 0
        /\ elapsed' = 0
        /\ IF Deficit(c) <= 0
           THEN /\ Spend(c)
                /\ WaitReturns(c)
                /\ UNCHANGED timer
           ELSE /\ allowance' = Refilled
                /\ place' = [place EXCEPT ![c] = "sleep"]
                /\ timer' = [timer EXCEPT ![c] = CeilDiv(Deficit(c), rate)]
                /\ UNCHANGED <<left, returns>>
  /\ UNCHANGED <<rate, need>>

\* The download is cancelled; Wait sees it only while it sleeps.
CancelWait(c) ==
  /\ place[c] = "sleep"
  /\ place' = [place EXCEPT ![c] = "cancelled"]
  /\ left' = [left EXCEPT ![c] = 0]
  /\ UNCHANGED <<rate, allowance, elapsed, need, timer, returns>>

SetRate(r) ==
  /\ rate' = r
  /\ allowance' = Least(Capacity(r), Refilled)
  /\ elapsed' = 0
  /\ UNCHANGED <<place, need, left, timer, returns>>

Tick ==
  /\ elapsed' = Least(Second, elapsed + 1)
  /\ timer' = [c \in Client |-> IF timer[c] = 0 THEN 0 ELSE timer[c] - 1]
  /\ UNCHANGED <<rate, allowance, place, need, left, returns>>

LimiterInit ==
  /\ rate \in Rates
  /\ allowance = Capacity(rate)
  /\ elapsed = 0
  /\ place = [c \in Client |-> "idle"]
  /\ need = [c \in Client |-> 0]
  /\ left = [c \in Client |-> 0]
  /\ timer = [c \in Client |-> 0]
  /\ returns = 0

LimiterNext ==
  \/ \E c \in Client : Ask(c) \/ ReadRate(c) \/ Poll(c) \/ CancelWait(c)
  \/ \E r \in Rates : SetRate(r)
  \/ Tick

LimiterSpec == LimiterInit /\ [][LimiterNext]_limiterVars

\* Time passes, and a download that is to look at the limiter does so.
FairLimiter ==
  /\ LimiterSpec
  /\ WF_limiterVars(Tick)
  /\ \A c \in Client : WF_limiterVars(ReadRate(c)) /\ WF_limiterVars(Poll(c))

-----------------------------------------------------------------------------
TypeOK ==
  /\ rate \in Rates
  /\ allowance \in 0 .. Capacity(rate)
  /\ elapsed \in 0 .. Second
  /\ place \in [Client -> {"idle", "rate", "poll", "sleep", "cancelled"}]
  /\ need \in [Client -> 0 .. MaxChunk]
  /\ left \in [Client -> 0 .. MaxChunk]
  /\ timer \in [Client -> 0 .. MaxChunk]
  /\ returns \in {0, 1}

\* The lazily refilled limiter is the bucket that fills steadily: a download is
\* granted exactly the bytes by which the bucket falls, whole chunks or in the
\* pieces of waitLimited, and no time is lost, however polls, changes of the rate,
\* cancellations and polls that grant nothing interleave.
Bucket == INSTANCE TokenBucket
            WITH level <- Refilled, cancelled <- {c \in Client : place[c] = "cancelled"}
IsTokenBucket == Bucket!Spec

Waiting(c) == place[c] \in {"poll", "sleep"}

\* While some download asks for no more than the bucket can hold, a Wait
\* returns: nobody polls the limiter into granting nothing.
SomeoneServed ==
  \A b \in {0, 1} :
    (\E c \in Client : Waiting(c) /\ need[c] <= Capacity(rate)) /\ returns = b
      ~> returns # b \/ ~ \E c \in Client : Waiting(c) /\ need[c] <= Capacity(rate)
=============================================================================
