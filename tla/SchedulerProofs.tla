--------------------------- MODULE SchedulerProofs ---------------------------
(***************************************************************************)
(* Theorems about Scheduler, for every number of tasks, every set of       *)
(* limits, every set of registered and of bt tasks and every set of calls, *)
(* and about the events it emits (EventQueue).                             *)
(***************************************************************************)
EXTENDS SlotLoops, EventQueue, FiniteSetTheorems, TLAPS

-----------------------------------------------------------------------------
(* The slot operators: neither starting the admitted tasks nor pausing the   *)
(* overflow can leave more than the limit in slots                           *)

\* Every set of tasks is finite and has a natural number of elements.
LEMMA TasksFinite ==
  ASSUME NEW S \in SUBSET Task
  PROVE  IsFiniteSet(S) /\ Cardinality(S) \in Nat
<1>1. IsFiniteSet(Task)
  BY SlotsAssumption, FS_Interval DEF Task
<1>2. IsFiniteSet(S)
  BY <1>1, FS_Subset
<1> QED
  BY <1>2, FS_CardinalityType

\* A larger set of tasks has at least as many elements.
LEMMA TasksMonotone ==
  ASSUME NEW S \in SUBSET Task, NEW T \in SUBSET S
  PROVE  Cardinality(T) <= Cardinality(S)
BY TasksFinite, FS_Subset

\* A nonempty set of tasks has a latest one in arrival order.
LEMMA LatestTask ==
  ASSUME NEW S \in SUBSET Task, S # {}
  PROVE  \E x \in S : \A y \in S : y <= x
<1> DEFINE R == {ss \in Nat \X Nat : ss[1] < ss[2]}
           T == {MaxTasks - t : t \in S}
<1>1. IsWellFoundedOn(R, Nat)
  BY NatLessThanWellFounded DEF OpToRel
<1>2. T \subseteq Nat /\ T # {}
  <2>1. \A t \in S : t \in Nat /\ t <= MaxTasks /\ MaxTasks \in Nat
    BY SlotsAssumption DEF Task
  <2>2. \A t \in S : MaxTasks - t \in Nat
    BY <2>1
  <2>3. T # {}
    OBVIOUS
  <2> QED
    BY <2>2, <2>3
<1> HIDE DEF R
<1>3. PICK d \in T : \A e \in T : ~(<<e, d>> \in R)
  BY <1>1, <1>2, WFMin
<1>4. PICK x \in S : d = MaxTasks - x
  OBVIOUS
<1>5. \A y \in S : y <= x
  <2> SUFFICES ASSUME NEW y \in S PROVE y <= x
    OBVIOUS
  <2>1. ~(<<MaxTasks - y, d>> \in R)
    BY <1>3
  <2>2. MaxTasks - y \in Nat /\ d \in Nat
    BY <1>2, <1>3
  <2>3. ~(MaxTasks - y < d)
    BY <2>1, <2>2 DEF R
  <2> QED
    BY <1>4, <2>2, <2>3, SlotsAssumption DEF Task
<1> QED
  BY <1>5

\* The tasks of S with fewer than m earlier ones in S are at most m: the
\* counting argument behind both loops of the scheduler.
LEMMA PrefixBound ==
  ASSUME NEW S \in SUBSET Task, NEW m \in Nat
  PROVE  Cardinality({t \in S : Cardinality(Earlier(S, t)) < m}) <= m
<1> DEFINE P == {t \in S : Cardinality(Earlier(S, t)) < m}
<1> SUFFICES Cardinality(P) <= m
  OBVIOUS
<1>1. CASE P = {}
  BY <1>1, FS_EmptySet
<1>2. CASE P # {}
  <2>1. PICK x \in P : \A y \in P : y <= x
    BY <1>2, LatestTask
  <2>2. P \ {x} \subseteq Earlier(S, x) /\ Earlier(S, x) \subseteq Task
    <3>1. \A y \in P : y \in Nat /\ y \in S
      BY SlotsAssumption DEF Task
    <3>2. \A y \in P \ {x} : y < x
      BY <2>1, <3>1
    <3> QED
      BY <3>1, <3>2 DEF Earlier
  <2>3. Cardinality(P \ {x}) <= Cardinality(Earlier(S, x))
    BY <2>2, TasksMonotone
  <2>4. Cardinality(P \ {x}) = Cardinality(P) - 1
    BY <2>1, TasksFinite, FS_RemoveElement
  <2>5. Cardinality(P) \in Nat /\ Cardinality(Earlier(S, x)) \in Nat
    BY <2>2, TasksFinite
  <2>6. Cardinality(Earlier(S, x)) < m
    BY <2>1
  <2> HIDE DEF P
  <2> QED
    BY <2>3, <2>4, <2>5, <2>6
<1> QED
  BY <1>1, <1>2

\* The tasks scheduleWaitingLocked starts fit in the slots that were free: if it
\* starts one that needs a slot, holders and newcomers together stay within mx.
THEOREM AdmissionBound ==
  ASSUME NEW W \in SUBSET Task, NEW us, NEW holders \in Nat, NEW mx \in Nat
  PROVE  LET newcomers == {t \in Admitted(W, us, holders, mx) \cap Registered : us[t]}
         IN newcomers = {} \/ holders + Cardinality(newcomers) <= mx
<1> DEFINE S == {u \in W \cap Registered : us[u]}
           N == {t \in Admitted(W, us, holders, mx) \cap Registered : us[t]}
<1> SUFFICES ASSUME N # {}
             PROVE  holders + Cardinality(N) <= mx
  OBVIOUS
<1>1. S \in SUBSET Task
  OBVIOUS
<1>2. \A t \in S : Earlier(S, t) \in SUBSET Task
  BY <1>1 DEF Earlier
<1>3. \A t \in S : Cardinality(Earlier(S, t)) \in Nat
  BY <1>2, TasksFinite
<1>4. N = {t \in S : holders + Cardinality(Earlier(S, t)) < mx}
  BY DEF Admitted
<1>5. PICK x \in S : holders + Cardinality(Earlier(S, x)) < mx
  BY <1>4
<1>6. mx - holders \in Nat
  BY <1>3, <1>5
<1> HIDE DEF S, N
<1>7. N = {t \in S : Cardinality(Earlier(S, t)) < mx - holders}
  BY <1>3, <1>4
<1>8. Cardinality(N) <= mx - holders
  BY <1>1, <1>6, <1>7, PrefixBound
<1>9. N \in SUBSET Task
  BY <1>1, <1>7
<1> QED
  BY <1>8, <1>9, TasksFinite

\* The slot holders enforceMaxRunningLocked spares are at most mx.
THEOREM EnforceBound ==
  ASSUME NEW st, NEW us, NEW rn \in SUBSET Task, NEW mx \in Nat
  PROVE  Cardinality(SlotHolders(st, us, rn) \ Overflow(st, us, rn, mx)) <= mx
<1> DEFINE H == SlotHolders(st, us, rn)
<1>1. H \in SUBSET Task
  BY DEF SlotHolders
<1>2. \A t \in H : Earlier(H, t) \in SUBSET Task
  BY <1>1 DEF Earlier
<1>3. \A t \in H : Cardinality(Earlier(H, t)) \in Nat
  BY <1>2, TasksFinite
<1>4. Overflow(st, us, rn, mx) = {t \in H : Cardinality(Earlier(H, t)) >= mx}
  BY DEF Overflow
<1> HIDE DEF H
<1>5. H \ Overflow(st, us, rn, mx) = {t \in H : Cardinality(Earlier(H, t)) < mx}
  BY <1>3, <1>4
<1>6. Cardinality(H \ Overflow(st, us, rn, mx)) <= mx
  BY <1>1, <1>5, PrefixBound
<1> QED
  BY <1>6 DEF H

-----------------------------------------------------------------------------
(* The loops themselves, as SlotLoops has them: they are recursive functions,  *)
(* so each is compared with a closed form of its state after every iteration,  *)
(* by the first iteration at which the two would differ.                       *)

\* A nonempty set of numbers has a least one: of tasks, the first in arrival order.
LEMMA FirstTask ==
  ASSUME NEW S \in SUBSET Nat, S # {}
  PROVE  \E x \in S : \A y \in S : x <= y
<1> DEFINE R == {ss \in Nat \X Nat : ss[1] < ss[2]}
<1>1. IsWellFoundedOn(R, Nat)
  BY NatLessThanWellFounded DEF OpToRel
<1>2. S \subseteq Nat /\ S # {}
  OBVIOUS
<1> HIDE DEF R
<1>3. PICK x \in S : \A y \in S : ~(<<y, x>> \in R)
  BY <1>1, <1>2, WFMin
<1>4. ASSUME NEW y \in S PROVE x <= y
  <2>1. x \in Nat /\ y \in Nat
    BY <1>2
  <2>2. ~(y < x)
    BY <1>3, <2>1 DEF R
  <2> QED
    BY <2>1, <2>2
<1> QED
  BY <1>4

\* Where at least mx - h tasks of S come before i, those of them with fewer than
\* that before them already take all the slots: the first one that does not has
\* only such tasks before it.
LEMMA ManyBefore ==
  ASSUME NEW S \in SUBSET Task, NEW i \in Task, NEW h \in Nat, NEW mx \in Nat,
         ~(h + Cardinality(Earlier(S, i)) < mx)
  PROVE  ~(h + Cardinality({t \in Earlier(S, i) : h + Cardinality(Earlier(S, t)) < mx}) < mx)
<1> DEFINE E == Earlier(S, i)
           P == {t \in E : h + Cardinality(Earlier(S, t)) < mx}
<1>1. /\ E \in SUBSET Task /\ P \in SUBSET E
      /\ \A t \in Task : t \in Nat
      /\ \A t \in Task : Earlier(S, t) \in SUBSET Task
  <2>1. \A t \in Task : t \in Nat
    BY SlotsAssumption DEF Task
  <2>2. \A t \in Task : Earlier(S, t) \in SUBSET Task
    BY DEF Earlier
  <2> QED
    BY <2>1, <2>2
<1>2. CASE P = E
  BY <1>2
<1>3. CASE P # E
  <2>1. E \ P \in SUBSET Nat /\ E \ P # {}
    BY <1>1, <1>3
  <2> HIDE DEF P
  <2>2. PICK u \in E \ P : \A t \in E \ P : u <= t
    BY <2>1, FirstTask
  <2>3. Earlier(S, u) \in SUBSET P
    <3> SUFFICES ASSUME NEW t \in Earlier(S, u)
                 PROVE  t \in P
      OBVIOUS
    <3>1. t \in S /\ t < u /\ u < i /\ u \in Task
      BY <1>1, <2>2 DEF Earlier
    <3>2. t < i /\ ~(u <= t)
      BY <1>1, <3>1
    <3>3. t \in E
      BY <3>1, <3>2 DEF Earlier
    <3> QED
      BY <2>2, <3>2, <3>3
  <2>4. ~(h + Cardinality(Earlier(S, u)) < mx)
    BY <2>2 DEF P
  <2>5. /\ P \in SUBSET Task /\ Cardinality(P) \in Nat /\ Cardinality(Earlier(S, u)) \in Nat
        /\ Cardinality(Earlier(S, u)) <= Cardinality(P)
    BY <1>1, <2>2, <2>3, TasksFinite, TasksMonotone
  <2>6. ~(h + Cardinality(P) < mx)
    BY <2>4, <2>5
  <2> QED
    BY <2>6 DEF P
<1> QED
  BY <1>2, <1>3

\* The loop of enforceMaxRunningLocked after task i, in closed form: it has kept
\* the first m holders it has met and paused the others.
Spared(H, m, i) == {t \in H : t <= i /\ Cardinality(Earlier(H, t)) < m}
Beyond(H, m, i) == {t \in H : t <= i /\ Cardinality(Earlier(H, t)) >= m}
EnforceForm(H, m) ==
  [i \in 0 .. MaxTasks |-> <<Cardinality(Spared(H, m, i)), Beyond(H, m, i)>>]

\* One iteration keeps the closed form: the counter kept is below the limit exactly
\* when fewer than m holders come before the task.
LEMMA EnforceIteration ==
  ASSUME running \in SUBSET Task, NEW m \in Nat, NEW i \in Task
  PROVE  LET H == SlotHolders(status, usesSlot, running)
         IN EnforceForm(H, m)[i] = EnforceStep(EnforceForm(H, m)[i - 1], i, m)
<1> DEFINE H == SlotHolders(status, usesSlot, running)
           E == Earlier(H, i)
           K == Spared(H, m, i - 1)
<1>1. H \in SUBSET Task /\ (i \in H <=> i \in running /\ status[i] # "absent" /\ usesSlot[i])
  BY DEF SlotHolders
<1> HIDE DEF H
<1>2. /\ i \in Nat /\ i - 1 \in 0 .. MaxTasks /\ i \in 0 .. MaxTasks /\ ~(i <= i - 1)
      /\ \A t \in H : t <= i - 1 <=> t < i
      /\ \A t \in H : t <= i <=> t <= i - 1 \/ t = i
      /\ \A t \in H : Cardinality(Earlier(H, t)) \in Nat
  <2>1. \A t \in H : t \in Nat
    BY <1>1, SlotsAssumption DEF Task
  <2>2. \A t \in H : Earlier(H, t) \in SUBSET Task
    BY <1>1 DEF Earlier
  <2> QED
    BY <2>1, <2>2, SlotsAssumption, TasksFinite DEF Task
<1>3. /\ EnforceForm(H, m)[i] = <<Cardinality(Spared(H, m, i)), Beyond(H, m, i)>>
      /\ EnforceForm(H, m)[i - 1] = <<Cardinality(K), Beyond(H, m, i - 1)>>
  BY <1>2 DEF EnforceForm
<1>4. /\ E \in SUBSET Task /\ K \in SUBSET E
      /\ Cardinality(E) \in Nat /\ Cardinality(K) \in Nat /\ Cardinality(K) <= Cardinality(E)
  <2>1. E \in SUBSET Task
    BY <1>1 DEF Earlier
  <2>2. K \in SUBSET E
    BY <1>2 DEF Spared, Earlier
  <2> QED
    BY <2>1, <2>2, TasksFinite, TasksMonotone
<1>5. CASE i \notin H
  <2>1. Spared(H, m, i) = K /\ Beyond(H, m, i) = Beyond(H, m, i - 1)
    BY <1>2, <1>5 DEF Spared, Beyond
  <2> QED
    BY <1>1, <1>3, <1>5, <2>1 DEF EnforceStep, H
<1>6. CASE i \in H
  <2>1. EnforceStep(EnforceForm(H, m)[i - 1], i, m) =
          IF Cardinality(K) < m THEN <<Cardinality(K) + 1, Beyond(H, m, i - 1)>>
          ELSE <<Cardinality(K), Beyond(H, m, i - 1) \cup {i}>>
    BY <1>1, <1>3, <1>6 DEF EnforceStep
  <2>2. CASE Cardinality(E) < m
    <3>1. Spared(H, m, i) = K \cup {i} /\ i \notin K /\ Beyond(H, m, i) = Beyond(H, m, i - 1)
      <4>1. ~(Cardinality(E) >= m)
        BY <1>4, <2>2
      <4> QED
        BY <1>2, <1>6, <2>2, <4>1 DEF Spared, Beyond
    <3>2. Cardinality(Spared(H, m, i)) = Cardinality(K) + 1
      BY <1>4, <3>1, TasksFinite, FS_AddElement
    <3> QED
      BY <1>3, <1>4, <2>1, <2>2, <3>1, <3>2 DEF H
  <2>3. CASE ~(Cardinality(E) < m)
    <3>1. Spared(H, m, i) = K /\ Beyond(H, m, i) = Beyond(H, m, i - 1) \cup {i}
      <4>1. Cardinality(E) >= m
        BY <1>4, <2>3
      <4> QED
        BY <1>2, <1>6, <2>3, <4>1 DEF Spared, Beyond
    <3>2. ~(Cardinality(K) < m)
      <4>1. K = {t \in E : 0 + Cardinality(Earlier(H, t)) < m}
        BY <1>2 DEF Spared, Earlier
      <4>2. ~(0 + Cardinality(E) < m)
        BY <1>4, <2>3
      <4>3. ~(0 + Cardinality({t \in E : 0 + Cardinality(Earlier(H, t)) < m}) < m)
        BY <1>1, <4>2, ManyBefore
      <4> HIDE DEF K
      <4> QED
        BY <1>4, <4>1, <4>3
    <3> QED
      BY <1>3, <1>4, <2>1, <3>1, <3>2 DEF H
  <2> QED
    BY <2>2, <2>3
<1> QED
  BY <1>5, <1>6

\* The loop of enforceMaxRunningLocked pauses the slot holders beyond the first m.
LEMMA EnforcedIsOverflow ==
  ASSUME running \in SUBSET Task, NEW m \in Nat
  PROVE  Enforced(m) = Overflow(status, usesSlot, running, m)
<1> DEFINE H == SlotHolders(status, usesSlot, running)
           g == EnforceForm(H, m)
           F(l) == [i \in 0 .. MaxTasks |->
                      IF i = 0 THEN <<0, {}>> ELSE EnforceStep(l[i - 1], i, m)]
           loop == CHOOSE l : l = F(l)
<1>0. MaxTasks \in Nat /\ MaxTasks \in 0 .. MaxTasks
  BY SlotsAssumption
<1>1. H \in SUBSET Task /\ \A t \in H : t \in Nat /\ 1 <= t /\ t <= MaxTasks
  <2>1. \A t \in Task : t \in Nat /\ 1 <= t /\ t <= MaxTasks
    BY SlotsAssumption DEF Task
  <2>2. H \in SUBSET Task
    BY DEF SlotHolders
  <2> QED
    BY <2>1, <2>2
<1>2. g[0] = <<0, {}>>
  <2>1. Spared(H, m, 0) = {} /\ Beyond(H, m, 0) = {}
    BY <1>1 DEF Spared, Beyond
  <2>2. g[0] = <<Cardinality(Spared(H, m, 0)), Beyond(H, m, 0)>>
    BY <1>0 DEF EnforceForm
  <2> QED
    BY <2>1, <2>2, FS_EmptySet
<1>3. \A i \in 1 .. MaxTasks : g[i] = EnforceStep(g[i - 1], i, m)
  BY EnforceIteration DEF Task
<1>4. g = [i \in 0 .. MaxTasks |-> g[i]]
  BY DEF EnforceForm
<1>5. Enforced(m) = IF SlotCount(status, running) <= m THEN {} ELSE loop[MaxTasks][2]
  BY DEF Enforced
<1> HIDE DEF g
<1>6. g = F(g)
  <2>1. \A i \in 0 .. MaxTasks : g[i] = IF i = 0 THEN <<0, {}>> ELSE EnforceStep(g[i - 1], i, m)
    BY <1>0, <1>2, <1>3
  <2> QED
    BY <1>4, <2>1
<1>7. loop = F(loop)
  BY <1>6
<1> HIDE DEF loop
<1>8. \A i \in 0 .. MaxTasks : loop[i] = IF i = 0 THEN <<0, {}>> ELSE EnforceStep(loop[i - 1], i, m)
  BY <1>7
<1> DEFINE T == {i \in 0 .. MaxTasks : loop[i] # g[i]}
<1>9. T = {}
  <2> SUFFICES ASSUME T # {} PROVE FALSE
    OBVIOUS
  <2>1. T \in SUBSET Nat
    BY <1>0
  <2>2. PICK i \in T : \A j \in T : i <= j
    BY <2>1, FirstTask
  <2>3. i # 0
    BY <1>0, <1>2, <1>8, <2>2
  <2>4. i \in 1 .. MaxTasks /\ i - 1 \in 0 .. MaxTasks /\ ~(i <= i - 1)
    BY <1>0, <2>2, <2>3
  <2>5. loop[i - 1] = g[i - 1]
    BY <2>2, <2>4
  <2>6. loop[i] = EnforceStep(loop[i - 1], i, m)
    BY <1>8, <2>3, <2>4
  <2> QED
    BY <1>3, <2>2, <2>4, <2>5, <2>6
<1>10. loop[MaxTasks][2] = Overflow(status, usesSlot, running, m)
  <2>1. loop[MaxTasks] = g[MaxTasks]
    BY <1>0, <1>9
  <2>2. g[MaxTasks][2] = Beyond(H, m, MaxTasks)
    BY <1>0 DEF g, EnforceForm
  <2>3. Beyond(H, m, MaxTasks) = {t \in H : Cardinality(Earlier(H, t)) >= m}
    BY <1>1 DEF Beyond
  <2> QED
    BY <2>1, <2>2, <2>3 DEF Overflow
<1>11. CASE SlotCount(status, running) <= m
  <2>1. SlotCount(status, running) = Cardinality(H)
    BY DEF SlotCount, SlotHolders
  <2>2. ASSUME NEW t \in H PROVE ~(Cardinality(Earlier(H, t)) >= m)
    <3>1. Earlier(H, t) \in SUBSET H \ {t} /\ H \ {t} \in SUBSET Task
      BY <1>1 DEF Earlier
    <3>2. /\ Cardinality(H \ {t}) = Cardinality(H) - 1 /\ Cardinality(H) \in Nat
          /\ Cardinality(Earlier(H, t)) \in Nat
          /\ Cardinality(Earlier(H, t)) <= Cardinality(H \ {t})
      <4>1. Earlier(H, t) \in SUBSET (H \ {t}) /\ Earlier(H, t) \in SUBSET Task
        BY <3>1
      <4>2. Cardinality(H \ {t}) = Cardinality(H) - 1
        BY <1>1, <2>2, TasksFinite, FS_RemoveElement
      <4> HIDE DEF H
      <4> QED
        BY <1>1, <3>1, <4>1, <4>2, TasksFinite, TasksMonotone
    <3> HIDE DEF H
    <3> QED
      BY <1>11, <2>1, <3>2
  <2>3. Overflow(status, usesSlot, running, m) = {t \in H : Cardinality(Earlier(H, t)) >= m}
    BY DEF Overflow
  <2> HIDE DEF H
  <2> QED
    BY <1>5, <1>11, <2>2, <2>3
<1> QED
  BY <1>5, <1>10, <1>11

\* The loop of scheduleWaitingLocked after task i, in closed form: of the admitted
\* tasks up to i, those with a worker run and have an entry, the others have failed.
Marked(st, A, i) == [t \in Task |-> IF t \in A \cap Registered /\ t <= i THEN "running"
                                    ELSE IF t \in A /\ t <= i THEN "failed" ELSE st[t]]
Begun(A, i)      == running \cup {t \in A \cap Registered : t <= i}
ScheduleForm(st, A) == [i \in 0 .. MaxTasks |-> <<Marked(st, A, i), Begun(A, i)>>]

\* What scheduleWaitingLocked admits: nothing once StopAll has begun.
Admits(st, m) ==
  IF stopping THEN {}
  ELSE Admitted({t \in Task \ running : st[t] = "waiting"}, usesSlot,
                Cardinality(SlotHolders(st, usesSlot, running)), m)

\* One iteration keeps the closed form: the slots that scheduleLocked counts anew
\* are those of before the pass and of the admitted tasks with a worker, and they
\* reach the limit exactly when the queued tasks before i would.
LEMMA ScheduleIteration ==
  ASSUME running \in SUBSET Task, usesSlot \in [Task -> BOOLEAN], 
         NEW st, st = [t \in Task |-> st[t]], NEW m \in Nat, NEW i \in Task
  PROVE  LET A == Admits(st, m)
         IN ScheduleForm(st, A)[i] = ScheduleStep(ScheduleForm(st, A)[i - 1], i, m)
<1> DEFINE A == Admits(st, m)
           Q == {t \in Task \ running : st[t] = "waiting"}
           H == SlotHolders(st, usesSlot, running)
           h == Cardinality(H)
           S == {u \in Q \cap Registered : usesSlot[u]}
           E == Earlier(S, i)
           P == {t \in E : h + Cardinality(Earlier(S, t)) < m}
           s1 == Marked(st, A, i - 1)
           s2 == Begun(A, i - 1)
<1>1. /\ i \in Nat /\ i >= 1 /\ i - 1 \in 0 .. MaxTasks /\ i \in 0 .. MaxTasks
      /\ \A t \in Task : t \in Nat
      /\ \A t \in Task : t <= i - 1 <=> t < i
      /\ \A t \in Task : t <= i <=> t < i \/ t = i
  BY SlotsAssumption DEF Task
<1>2. /\ ScheduleForm(st, A)[i] = <<Marked(st, A, i), Begun(A, i)>>
      /\ ScheduleForm(st, A)[i - 1] = <<s1, s2>>
  BY <1>1 DEF ScheduleForm
<1>3. A = IF stopping THEN {}
          ELSE {t \in Q : usesSlot[t] => h + Cardinality(Earlier(S, t)) < m}
  BY DEF Admits, Admitted
<1>4. /\ Q \in SUBSET Task /\ S \in SUBSET Task /\ H \in SUBSET Task /\ A \in SUBSET Q
      /\ h \in Nat
      /\ E \in SUBSET Task /\ P \in SUBSET E
  <2>1. H \in SUBSET Task
    BY DEF SlotHolders
  <2>2. h \in Nat
    BY <2>1, TasksFinite
  <2>3. E \in SUBSET Task
    BY DEF Earlier
  <2> QED
    BY <1>3, <2>1, <2>2, <2>3
<1>5. s1[i] = st[i] /\ (i \in s2 <=> i \in running)
  BY <1>1 DEF Marked, Begun
<1>6. ASSUME ~stopping
      PROVE  SlotCount(s1, s2) = h + Cardinality(P)
  <2>1. \A t \in Task : t \in P <=> t \in A \cap Registered /\ usesSlot[t] /\ t <= i - 1
    BY <1>1, <1>3, <1>6 DEF Earlier
  <2>2. {t \in s2 : s1[t] # "absent" /\ usesSlot[t]} = H \cup P
    <3> DEFINE C == {t \in s2 : s1[t] # "absent" /\ usesSlot[t]}
    <3>1. C \in SUBSET Task /\ H \cup P \in SUBSET Task
      BY <1>4 DEF Begun
    <3>2. ASSUME NEW t \in Task PROVE t \in C <=> t \in H \cup P
      <4>1. CASE t \in running
        <5>1. t \notin A /\ t \in s2 /\ t \notin P
          BY <1>4, <2>1, <4>1 DEF Begun
        <5>2. s1[t] = st[t]
          BY <5>1 DEF Marked
        <5> QED
          BY <4>1, <5>1, <5>2 DEF SlotHolders
      <4>2. CASE t \notin running
        <5>1. t \in s2 <=> t \in A \cap Registered /\ t <= i - 1
          BY <4>2 DEF Begun
        <5>2. t \in s2 => s1[t] = "running"
          BY <5>1 DEF Marked
        <5>3. t \notin H
          BY <4>2 DEF SlotHolders
        <5> QED
          BY <2>1, <5>1, <5>2, <5>3
      <4> QED
        BY <4>1, <4>2
    <3> QED
      BY <3>1, <3>2
  <2>3. H \cap P = {}
    BY <1>4, <2>1 DEF SlotHolders
  <2>4. IsFiniteSet(H) /\ IsFiniteSet(P) /\ Cardinality(P) \in Nat
    BY <1>4, TasksFinite
  <2>5. Cardinality(H \cup P) = h + Cardinality(P)
    <3> HIDE DEF h, H, P
    <3>1. Cardinality(H \cup P) = Cardinality(H) + Cardinality(P) - Cardinality(H \cap P)
      BY <2>4, FS_Union
    <3>2. Cardinality(H) \in Nat
      BY <1>4, TasksFinite
    <3>3. Cardinality(H \cap P) = 0
      BY <2>3, FS_EmptySet
    <3> QED
      BY <2>4, <3>1, <3>2, <3>3 DEF h
  <2> QED
    BY <2>2, <2>5 DEF SlotCount
<1>7. ASSUME ~stopping
      PROVE  SlotCount(s1, s2) >= m <=> ~(h + Cardinality(E) < m)
  <2>1. Cardinality(P) \in Nat /\ Cardinality(E) \in Nat /\ Cardinality(P) <= Cardinality(E)
    <3> HIDE DEF E, P
    <3> QED
      BY <1>4, TasksFinite, TasksMonotone
  <2>2. ~(h + Cardinality(E) < m) => ~(h + Cardinality(P) < m)
    <3> HIDE DEF h, S
    <3> QED
      BY <1>4, ManyBefore
  <2> HIDE DEF h, E, P
  <2> QED
    BY <1>4, <1>6, <1>7, <2>1, <2>2
<1> DEFINE refused == \/ stopping \/ s1[i] # "waiting" \/ i \in s2
                      \/ usesSlot[i] /\ SlotCount(s1, s2) >= m
<1>8. refused <=> i \notin A
  <2>1. CASE stopping
    BY <1>3, <2>1
  <2>2. CASE ~stopping
    <3>1. i \in A <=> i \in Q /\ (usesSlot[i] => h + Cardinality(E) < m)
      BY <1>3, <2>2
    <3>2. i \in Q <=> s1[i] = "waiting" /\ i \notin s2
      BY <1>5
    <3> HIDE DEF Q, h, E, A, s1, s2
    <3> QED
      BY <1>7, <2>2, <3>1, <3>2
  <2> QED
    BY <2>1, <2>2
<1>9. ScheduleStep(<<s1, s2>>, i, m) =
        IF refused THEN <<s1, s2>>
        ELSE IF i \in Registered THEN <<[s1 EXCEPT ![i] = "running"], s2 \cup {i}>>
        ELSE <<[s1 EXCEPT ![i] = "failed"], s2>>
  BY DEF ScheduleStep
<1> HIDE DEF refused, A
<1>10. CASE i \notin A
  <2>1. Marked(st, A, i) = s1
    BY <1>1, <1>10 DEF Marked
  <2>2. Begun(A, i) = s2
    BY <1>1, <1>4, <1>10 DEF Begun
  <2> QED
    BY <1>2, <1>8, <1>9, <1>10, <2>1, <2>2 DEF A
<1>11. CASE i \in A /\ i \in Registered
  <2>1. Marked(st, A, i) = [s1 EXCEPT ![i] = "running"]
    BY <1>1, <1>11 DEF Marked
  <2>2. Begun(A, i) = s2 \cup {i}
    BY <1>1, <1>4, <1>11 DEF Begun
  <2> QED
    BY <1>2, <1>8, <1>9, <1>11, <2>1, <2>2 DEF A
<1>12. CASE i \in A /\ i \notin Registered
  <2>1. Marked(st, A, i) = [s1 EXCEPT ![i] = "failed"]
    BY <1>1, <1>12 DEF Marked
  <2>2. Begun(A, i) = s2
    BY <1>1, <1>4, <1>12 DEF Begun
  <2> QED
    BY <1>2, <1>8, <1>9, <1>12, <2>1, <2>2 DEF A
<1> QED
  BY <1>10, <1>11, <1>12

\* The loop of scheduleWaitingLocked starts the admitted tasks that have a worker and
\* fails the admitted ones that have none.
LEMMA ScheduledIsAdmitted ==
  ASSUME running \in SUBSET Task, usesSlot \in [Task -> BOOLEAN],
         NEW st, st = [t \in Task |-> st[t]], NEW m \in Nat
  PROVE  LET A == Admits(st, m)
         IN /\ Scheduled(st, m)[2] = running \cup (A \cap Registered)
            /\ Scheduled(st, m)[1] = [t \in Task |-> IF t \in A \cap Registered THEN "running"
                                                     ELSE IF t \in A THEN "failed" ELSE st[t]]
<1> DEFINE A == Admits(st, m)
           g == ScheduleForm(st, A)
           F(l) == [i \in 0 .. MaxTasks |->
                      IF i = 0 THEN <<st, running>> ELSE ScheduleStep(l[i - 1], i, m)]
           loop == CHOOSE l : l = F(l)
<1>0. /\ MaxTasks \in Nat /\ MaxTasks \in 0 .. MaxTasks /\ 0 \in 0 .. MaxTasks
      /\ \A t \in Task : t <= MaxTasks /\ ~(t <= 0)
      /\ A \in SUBSET Task
  BY SlotsAssumption DEF Task, Admits, Admitted
<1>1. Scheduled(st, m) = loop[MaxTasks]
  BY DEF Scheduled
<1>2. g[0] = <<st, running>>
  <2>1. Marked(st, A, 0) = st /\ Begun(A, 0) = running
    BY <1>0 DEF Marked, Begun
  <2>2. g[0] = <<Marked(st, A, 0), Begun(A, 0)>>
    BY <1>0 DEF ScheduleForm
  <2> QED
    BY <2>1, <2>2
<1>3. \A i \in 1 .. MaxTasks : g[i] = ScheduleStep(g[i - 1], i, m)
  BY ScheduleIteration DEF Task
<1>4. g = [i \in 0 .. MaxTasks |-> g[i]]
  BY DEF ScheduleForm
<1> HIDE DEF g
<1>6. g = F(g)
  <2>1. \A i \in 0 .. MaxTasks : g[i] = IF i = 0 THEN <<st, running>> ELSE ScheduleStep(g[i - 1], i, m)
    BY <1>0, <1>2, <1>3
  <2> QED
    BY <1>4, <2>1
<1>7. loop = F(loop)
  BY <1>6
<1> HIDE DEF loop
<1>8. \A i \in 0 .. MaxTasks : loop[i] = IF i = 0 THEN <<st, running>> ELSE ScheduleStep(loop[i - 1], i, m)
  BY <1>7
<1> DEFINE T == {i \in 0 .. MaxTasks : loop[i] # g[i]}
<1>9. T = {}
  <2> SUFFICES ASSUME T # {} PROVE FALSE
    OBVIOUS
  <2>1. T \in SUBSET Nat
    BY <1>0
  <2>2. PICK i \in T : \A j \in T : i <= j
    BY <2>1, FirstTask
  <2>3. i # 0
    BY <1>0, <1>2, <1>8, <2>2
  <2>4. i \in 1 .. MaxTasks /\ i - 1 \in 0 .. MaxTasks /\ ~(i <= i - 1)
    BY <1>0, <2>2, <2>3
  <2>5. loop[i - 1] = g[i - 1]
    BY <2>2, <2>4
  <2>6. loop[i] = ScheduleStep(loop[i - 1], i, m)
    BY <1>8, <2>3, <2>4
  <2> QED
    BY <1>3, <2>2, <2>4, <2>5, <2>6
<1>10. loop[MaxTasks] = <<Marked(st, A, MaxTasks), Begun(A, MaxTasks)>>
  BY <1>0, <1>9 DEF g, ScheduleForm
<1>11. Begun(A, MaxTasks) = running \cup (A \cap Registered)
  BY <1>0 DEF Begun
<1>12. Marked(st, A, MaxTasks) = [t \in Task |-> IF t \in A \cap Registered THEN "running"
                                                ELSE IF t \in A THEN "failed" ELSE st[t]]
  BY <1>0 DEF Marked
<1> QED
  BY <1>1, <1>10, <1>11, <1>12

-----------------------------------------------------------------------------
USE DEF Active

\* The types of what Launch is given
Statuses == [Task -> Status \cup {"absent"}]
Workers  == [Task -> {"none", "spawned", "active", "two"}]

-----------------------------------------------------------------------------
(* Type correctness *)

\* scheduleLocked keeps statuses statuses and only adds entries to s.running.
LEMMA LaunchType ==
  ASSUME NEW W \in SUBSET Task, NEW st \in Statuses, NEW us,
         NEW rn \in SUBSET Task, NEW wk \in Workers, NEW mx,
         Launch(W, st, us, rn, wk, mx)
  PROVE  /\ status' \in Statuses
         /\ running' \in SUBSET Task
         /\ rn \subseteq running'
         /\ worker' \in Workers
<1> DEFINE adm == IF stopping THEN {}
                  ELSE Admitted(W, us, Cardinality(SlotHolders(st, us, rn)), mx)
<1>1. adm \in SUBSET Task
  BY DEF Admitted
<1> HIDE DEF adm
<1>2. /\ status' = [t \in Task |-> IF t \in adm \cap Registered THEN "running"
                                  ELSE IF t \in adm THEN "failed" ELSE st[t]]
      /\ running' = rn \cup (adm \cap Registered)
      /\ worker' = [t \in Task |-> IF t \notin adm \cap Registered THEN wk[t]
                                  ELSE IF wk[t] = "none" THEN "spawned" ELSE "two"]
  BY DEF Launch, adm
<1> QED
  BY <1>1, <1>2 DEF Statuses, Workers, Status

\* The same of scheduleWaitingLocked.
LEMMA ScheduleWaitingType ==
  ASSUME NEW st \in Statuses, NEW us,
         NEW rn \in SUBSET Task, NEW wk \in Workers, NEW mx,
         ScheduleWaiting(st, us, rn, wk, mx)
  PROVE  /\ status' \in Statuses
         /\ running' \in SUBSET Task
         /\ rn \subseteq running'
         /\ worker' \in Workers
<1> DEFINE W == {t \in Task \ rn : st[t] = "waiting"}
<1>1. W \in SUBSET Task
  OBVIOUS
<1>2. Launch(W, st, us, rn, wk, mx)
  BY DEF ScheduleWaiting
<1> HIDE DEF W
<1> QED
  BY <1>1, <1>2, LaunchType

\* The same of scheduleLocked on one task.
LEMMA ScheduleType ==
  ASSUME NEW t \in Task, NEW st \in Statuses, NEW us,
         NEW rn \in SUBSET Task, NEW wk \in Workers, NEW mx,
         Schedule(t, st, us, rn, wk, mx)
  PROVE  /\ status' \in Statuses
         /\ running' \in SUBSET Task
         /\ rn \subseteq running'
         /\ worker' \in Workers
<1> DEFINE W == {u \in {t} \ rn : st[u] \notin Active \cup {"completed", "absent"}}
<1>1. W \in SUBSET Task
  OBVIOUS
<1>2. Launch(W, st, us, rn, wk, mx)
  BY DEF Schedule
<1> HIDE DEF W
<1> QED
  BY <1>1, <1>2, LaunchType

\* Pausing tasks leaves statuses.
LEMMA PauseType ==
  ASSUME NEW st \in Statuses, NEW S
  PROVE  Pause(st, S) \in Statuses
BY DEF Pause, Statuses, Status

\* The constants are numbers, and a limit is not 0.
LEMMA LimitsNat == Limits \subseteq Nat \ {0} /\ MaxTasks \in Nat /\ MaxEdits \in Nat
                     /\ MaxRestarts \in Nat
BY ConstantsAssumption, SlotsAssumption

\* What saveLocked writes and what Load makes of it are rows, and Load brings no
\* task back as active.
LEMMA RowTypes ==
  /\ TypeOK => Rows \in [Task -> Row]
  /\ \A d \in [Task -> Row] : Normalised(d) \in [Task -> Row]
  /\ \A d \in [Task -> Row], t \in Task : Normalised(d)[t].status \notin Active
  /\ \A d \in [Task -> Row], t \in Task : d[t].status = "absent" => Normalised(d)[t] = d[t]
<1>1. NoRow \in Row
  BY LimitsNat DEF NoRow, Row
<1>2. TypeOK => Rows \in [Task -> Row]
  BY <1>1 DEF TypeOK, Rows, Row
<1>3. \A x \in Row : [x EXCEPT !.status = "paused"] \in Row
                     /\ [x EXCEPT !.status = "paused"].status = "paused"
  BY DEF Row, Status
<1>4. ASSUME NEW d \in [Task -> Row]
      PROVE  Normalised(d) \in [Task -> Row]
  BY <1>3 DEF Normalised
<1>5. ASSUME NEW d \in [Task -> Row], NEW t \in Task
      PROVE  /\ Normalised(d)[t].status \notin Active
             /\ d[t].status = "absent" => Normalised(d)[t] = d[t]
  BY <1>3 DEF Normalised
<1> QED
  BY <1>2, <1>4, <1>5

\* The records of the calls in progress stay records of their type.
LEMMA CallTypes ==
  /\ NoRedownload \in RedownloadCall
  /\ NoEdit \in EditCall
  /\ \A t \in Task, b \in BOOLEAN :
       [NoRedownload EXCEPT !.pc = "wait", !.task = t, !.waited = b] \in RedownloadCall
  /\ \A c \in RedownloadCall, b \in BOOLEAN, n \in 0 .. MaxEdits :
       [c EXCEPT !.pc = "cleanup", !.slot = b, !.cfg = n] \in RedownloadCall
  /\ \A t \in Task, b, e \in BOOLEAN :
       [NoEdit EXCEPT !.pc = "wait", !.task = t, !.waited = b, !.resume = e] \in EditCall
  /\ \A c \in EditCall, b \in BOOLEAN, n \in 0 .. MaxEdits, s \in Status \cup {"absent"} :
       [c EXCEPT !.pc = "callback", !.status = s, !.slot = b, !.cfg = n] \in EditCall
  /\ \A c \in EditCall : [c EXCEPT !.touched = TRUE] \in EditCall
  /\ \A c \in EditCall : [c EXCEPT !.pausedAll = TRUE] \in EditCall
  /\ \A c \in EditCall : [c EXCEPT !.started = TRUE] \in EditCall
<1> USE LimitsNat DEF NoRedownload, NoEdit, RedownloadCall, EditCall
<1>1. NoRedownload \in RedownloadCall /\ NoEdit \in EditCall
  OBVIOUS
<1>2. \A t \in Task, b \in BOOLEAN :
        [NoRedownload EXCEPT !.pc = "wait", !.task = t, !.waited = b] \in RedownloadCall
  <2> SUFFICES ASSUME NEW t \in Task, NEW b \in BOOLEAN
               PROVE  [pc |-> "wait", task |-> t, waited |-> b, slot |-> FALSE, cfg |-> 0]
                        \in RedownloadCall
    OBVIOUS
  <2>1. t \in 0 .. MaxTasks /\ 0 \in 0 .. MaxEdits
    BY DEF Task
  <2> QED
    BY <2>1
<1>3. \A c \in RedownloadCall, b \in BOOLEAN, n \in 0 .. MaxEdits :
        [c EXCEPT !.pc = "cleanup", !.slot = b, !.cfg = n] \in RedownloadCall
  OBVIOUS
<1>4. \A t \in Task, b, e \in BOOLEAN :
        [NoEdit EXCEPT !.pc = "wait", !.task = t, !.waited = b, !.resume = e] \in EditCall
  <2> SUFFICES ASSUME NEW t \in Task, NEW b \in BOOLEAN, NEW e \in BOOLEAN
               PROVE  [pc |-> "wait", task |-> t, waited |-> b, resume |-> e,
                       status |-> "absent", slot |-> FALSE, cfg |-> 0,
                       pausedAll |-> FALSE, touched |-> FALSE, started |-> FALSE] \in EditCall
    OBVIOUS
  <2>1. t \in 0 .. MaxTasks /\ 0 \in 0 .. MaxEdits
    BY DEF Task
  <2> QED
    BY <2>1
<1>5. \A c \in EditCall, b \in BOOLEAN, n \in 0 .. MaxEdits, s \in Status \cup {"absent"} :
        [c EXCEPT !.pc = "callback", !.status = s, !.slot = b, !.cfg = n] \in EditCall
  OBVIOUS
<1>6. \A c \in EditCall : [c EXCEPT !.touched = TRUE] \in EditCall
  OBVIOUS
<1>7. \A c \in EditCall : [c EXCEPT !.pausedAll = TRUE] \in EditCall
  OBVIOUS
<1>8. \A c \in EditCall : [c EXCEPT !.started = TRUE] \in EditCall
  OBVIOUS
<1> QED
  BY <1>1, <1>2, <1>3, <1>4, <1>5, <1>6, <1>7, <1>8

\* What a worker may report: a status it may have, and what becomes of its slot.
LEMMA UpdateTypes ==
  ASSUME NEW t, NEW u \in Updates(t)
  PROVE  u.status \in {"", "running", "seeding"} /\ u.slot \in {"keep", "take", "free"}
<1>1. CASE u = Plain
  BY <1>1 DEF Plain
<1>2. CASE u \in [status : {"", "running"}, slot : {"take"}]
  BY <1>2
<1>3. CASE u \in [status : {"", "seeding"}, slot : {"free"}]
  BY <1>3
<1> QED
  BY <1>1, <1>2, <1>3 DEF Updates, BtUpdates

\* Every step of the scheduler keeps the state well typed.
LEMMA TypeStep == TypeOK /\ [Next]_vars => TypeOK'
<1> SUFFICES ASSUME TypeOK, [Next]_vars
             PROVE  TypeOK'
  OBVIOUS
<1> USE LimitsNat
<1>t. /\ status \in Statuses /\ worker \in Workers /\ running \in SUBSET Task
      /\ cancelled \subseteq running /\ Present \subseteq Task
      /\ \A t \in Task : \A s \in Status \cup {"absent"} : [status EXCEPT ![t] = s] \in Statuses
  BY DEF TypeOK, Statuses, Workers, Present
<1>w. {"waiting", "paused", "failed", "completed", "running", "seeding"} = Status
  BY DEF Status
<1>r. Rows \in [Task -> Row] /\ disk \in [Task -> Row]
  BY RowTypes DEF TypeOK
<1>1. CASE Add
  <2>1. added + 1 \in Task /\ added + 1 \in 0 .. MaxTasks
    BY <1>1 DEF Add, TypeOK, Task
  <2>2. status' \in Statuses /\ running' \in SUBSET Task /\ running \subseteq running'
        /\ worker' \in Workers
    BY <1>1, <1>t, <1>w, <2>1, ScheduleType DEF Add
  <2> QED
    BY <1>1, <2>1, <2>2 DEF Add, TypeOK, Statuses, Workers, ScheduleSave, lockVars, history
<1>2. ASSUME NEW m \in Limits, SetMaxRunning(m)
      PROVE  TypeOK'
  <2> DEFINE over == Overflow(status, usesSlot, running, m)
  <2>1. over \subseteq running
    BY DEF Overflow, SlotHolders
  <2>2. Pause(status, over) \in Statuses
    BY <1>t, PauseType
  <2>3. ScheduleWaiting(Pause(status, over), usesSlot, running, worker, m)
    BY <1>2 DEF SetMaxRunning
  <2> HIDE DEF over
  <2>4. status' \in Statuses /\ running' \in SUBSET Task /\ running \subseteq running'
        /\ worker' \in Workers
    BY <1>t, <2>2, <2>3, ScheduleWaitingType
  <2>5. cancelled' = cancelled \cup over
    BY <1>2 DEF SetMaxRunning, over
  <2> QED
    BY <1>2, <2>1, <2>4, <2>5
    DEF SetMaxRunning, TypeOK, Statuses, Workers, ScheduleSave, lockVars, history
<1>3. ASSUME NEW t \in Task, TogglePause(t)
      PROVE  TypeOK'
  <2>1. status' \in Statuses /\ running' \in SUBSET Task /\ running \subseteq running'
        /\ worker' \in Workers
    BY <1>3, <1>t, <1>w, ScheduleType DEF TogglePause
  <2>2. cancelled' \subseteq running' /\ held' \subseteq Task
    BY <1>3, <1>t, <2>1 DEF TogglePause, TypeOK
  <2> QED
    BY <1>3, <2>1, <2>2, CallTypes
    DEF TogglePause, TypeOK, Statuses, Workers, ScheduleSave, Touch, lockVars
<1>4. CASE StartAll
  <2> DEFINE idle == {t \in Task : status[t] \in {"paused", "waiting"}}
             st == [t \in Task |-> IF t \in idle THEN "waiting" ELSE status[t]]
  <2>1. st \in Statuses
    BY <1>t, <1>w DEF Statuses
  <2>2. ScheduleWaiting(st, usesSlot, running, worker, maxRunning)
    BY <1>4 DEF StartAll
  <2> HIDE DEF st
  <2>3. status' \in Statuses /\ running' \in SUBSET Task /\ running \subseteq running'
        /\ worker' \in Workers
    BY <1>t, <2>1, <2>2, ScheduleWaitingType
  <2> QED
    BY <1>4, <2>3 DEF StartAll, TypeOK, Statuses, Workers, ScheduleSave, lockVars
<1>5. CASE PauseAll
  <2>1. status' \in Statuses
    BY <1>5, <1>t, PauseType DEF PauseAll
  <2>2. held' \subseteq Task
    BY <1>5 DEF PauseAll, TypeOK, Present
  <2> QED
    BY <1>5, <2>1, <2>2, CallTypes DEF PauseAll, TypeOK, Statuses, ScheduleSave, lockVars
<1>6. ASSUME NEW t \in Task, Remove(t)
      PROVE  TypeOK'
  <2>1. status' \in Statuses /\ running' \in SUBSET Task /\ running \subseteq running'
        /\ worker' \in Workers
    BY <1>6, <1>t, ScheduleWaitingType DEF Remove
  <2>2. /\ usesSlot' \in [Task -> BOOLEAN]
        /\ cfg' \in [Task -> 0 .. MaxEdits] /\ edits' \in [Task -> 0 .. MaxEdits]
    BY <1>6 DEF Remove, TypeOK
  <2>3. cancelled' \subseteq running' /\ held' \subseteq Task
    BY <1>6, <1>t, <2>1 DEF Remove, TypeOK
  <2> QED
    BY <1>6, <2>1, <2>2, <2>3 DEF Remove, TypeOK, Statuses, Workers, ScheduleSave, lockVars
<1>7. ASSUME NEW t \in Task, RedownloadBegin(t)
      PROVE  TypeOK'
  <2>1. status' \in Statuses
    BY <1>7, <1>t, PauseType DEF RedownloadBegin
  <2>2. rd' \in RedownloadCall
    <3> DEFINE b == t \in running
    <3>1. b \in BOOLEAN
      OBVIOUS
    <3>2. rd' = [NoRedownload EXCEPT !.pc = "wait", !.task = t, !.waited = b]
      BY <1>7 DEF RedownloadBegin
    <3> HIDE DEF b
    <3> QED
      BY <3>1, <3>2, CallTypes, Zenon
  <2>3. cancelled' \subseteq running' /\ held' \subseteq Task
    BY <1>7, <1>t DEF RedownloadBegin, TypeOK
  <2> QED
    BY <1>7, <2>1, <2>2, <2>3 DEF RedownloadBegin, TypeOK, Statuses, saveVars
<1>8. CASE RedownloadCopy
  <2>1. rd.task \in Present => usesSlot[rd.task] \in BOOLEAN /\ cfg[rd.task] \in 0 .. MaxEdits
    BY <1>t DEF TypeOK
  <2>2. rd' \in RedownloadCall
    <3>1. CASE rd.task \in Present
      <4>1. rd' = [rd EXCEPT !.pc = "cleanup", !.slot = usesSlot[rd.task], !.cfg = cfg[rd.task]]
        BY <1>8, <3>1 DEF RedownloadCopy
      <4>2. rd \in RedownloadCall
        BY DEF TypeOK
      <4> QED
        BY <2>1, <3>1, <4>1, <4>2, CallTypes, Zenon
    <3>2. CASE rd.task \notin Present
      BY <1>8, <3>2, CallTypes DEF RedownloadCopy, RedownloadReturn
    <3> QED
      BY <3>1, <3>2
  <2>3. editMu' \in {"free", "redownload", "edit", "stopall"}
    BY <1>8 DEF RedownloadCopy, RedownloadReturn, TypeOK
  <2> QED
    BY <1>8, <2>2, <2>3 DEF RedownloadCopy, TypeOK, taskVars, workVars, saveVars, history
<1>9. CASE RedownloadAbort
  BY <1>9, CallTypes DEF RedownloadAbort, RedownloadReturn, TypeOK, taskVars, workVars,
              saveVars, history
<1>10. CASE RedownloadRequeue
  <2> DEFINE us == [usesSlot EXCEPT ![rd.task] = rd.task \in BT \cap Registered \/ rd.slot]
  <2>1. rd.task \in Task
    BY <1>10, <1>t DEF RedownloadRequeue
  <2>2. ScheduleWaiting([status EXCEPT ![rd.task] = "waiting"], us, running, worker, maxRunning)
    BY <1>10 DEF RedownloadRequeue
  <2>3. us \in [Task -> BOOLEAN]
    BY <2>1 DEF TypeOK
  <2> HIDE DEF us
  <2>4. status' \in Statuses /\ running' \in SUBSET Task /\ running \subseteq running'
        /\ worker' \in Workers
    BY <1>t, <1>w, <2>1, <2>2, ScheduleWaitingType
  <2>5. usesSlot' \in [Task -> BOOLEAN]
    BY <1>10, <2>3 DEF RedownloadRequeue, us
  <2>6. cfg' \in [Task -> 0 .. MaxEdits]
    BY <1>10, <2>1 DEF RedownloadRequeue, TypeOK, RedownloadCall
  <2>7. ed' \in EditCall
    BY <1>10, CallTypes DEF RedownloadRequeue, Touch, TypeOK
  <2> QED
    BY <1>10, <2>4, <2>5, <2>6, <2>7, CallTypes
    DEF RedownloadRequeue, RedownloadReturn, TypeOK, Statuses, Workers, ScheduleSave, history
<1>11. ASSUME NEW t \in Task, EditBegin(t)
       PROVE  TypeOK'
  <2>1. status' \in Statuses
    BY <1>11, <1>t, PauseType DEF EditBegin
  <2>2. ed' \in EditCall
    <3> DEFINE b == t \in running
               e == status[t] # "paused"
    <3>1. b \in BOOLEAN /\ e \in BOOLEAN
      OBVIOUS
    <3>2. ed' = [NoEdit EXCEPT !.pc = "wait", !.task = t, !.waited = b, !.resume = e]
      BY <1>11 DEF EditBegin
    <3> HIDE DEF b, e
    <3> QED
      BY <3>1, <3>2, CallTypes, Zenon
  <2>3. cancelled' \subseteq running'
    BY <1>11, <1>t DEF EditBegin, TypeOK
  <2> QED
    BY <1>11, <2>1, <2>2, <2>3 DEF EditBegin, TypeOK, Statuses, saveVars, history
<1>12. CASE EditCopy
  <2>1. ed.task \in Present =>
          /\ usesSlot[ed.task] \in BOOLEAN /\ cfg[ed.task] \in 0 .. MaxEdits
          /\ status[ed.task] \in Status \cup {"absent"}
    BY <1>t DEF TypeOK
  <2>2. ed' \in EditCall
    BY <1>12, <2>1, CallTypes DEF EditCopy, TypeOK
  <2> QED
    BY <1>12, <2>2 DEF EditCopy, TypeOK, taskVars, workVars, saveVars, history
<1>13. CASE EditAbort
  BY <1>13, CallTypes DEF EditAbort, TypeOK, taskVars, workVars, lockVars, saveVars, history
<1>14. ASSUME NEW f \in BOOLEAN, EditCommit(f)
       PROVE  TypeOK'
  <2>1. ed.task \in Task
    BY <1>14, <1>t DEF EditCommit
  <2>2. status' \in Statuses /\ running' \in SUBSET Task /\ running \subseteq running'
        /\ worker' \in Workers
    <3>1. CASE ed.resume
      <4>1. Schedule(ed.task, [status EXCEPT ![ed.task] = "waiting"], usesSlot, running, worker,
                     maxRunning)
        BY <1>14, <3>1 DEF EditCommit
      <4> QED
        BY <1>t, <1>w, <2>1, <4>1, ScheduleType
    <3>2. CASE ~ed.resume
      BY <1>14, <1>t, <1>w, <2>1, <3>2 DEF EditCommit
    <3> QED
      BY <3>1, <3>2
  <2>3. cfg' \in [Task -> 0 .. MaxEdits] /\ edits' \in [Task -> 0 .. MaxEdits]
        /\ overtaken' \subseteq Task
    <3>1. CASE f
      BY <1>14, <3>1 DEF EditCommit, TypeOK
    <3>2. CASE ~f
      <4>1. edits[ed.task] \in 0 .. MaxEdits /\ edits[ed.task] < MaxEdits
        BY <1>14, <2>1, <3>2 DEF EditCommit, TypeOK
      <4>2. edits[ed.task] + 1 \in 0 .. MaxEdits
        BY <4>1
      <4>3. /\ edits' = [edits EXCEPT ![ed.task] = edits[ed.task] + 1]
            /\ cfg' = [cfg EXCEPT ![ed.task] = edits[ed.task] + 1]
        BY <1>14, <3>2 DEF EditCommit
      <4>4. overtaken' \subseteq overtaken \cup {ed.task}
        BY <1>14, <3>2 DEF EditCommit
      <4> QED
        BY <2>1, <4>2, <4>3, <4>4 DEF TypeOK
    <3> QED
      BY <3>1, <3>2
  <2> QED
    BY <1>14, <2>2, <2>3, CallTypes
    DEF EditCommit, TypeOK, Statuses, Workers, ScheduleSave, lockVars
<1>15. CASE StopBegin
  <2>1. status' \in Statuses
    BY <1>15, <1>t, PauseType DEF StopBegin
  <2> QED
    BY <1>15, <2>1 DEF StopBegin, TypeOK, Statuses, history
<1>16. CASE StopEnd
  <2>1. disk' \in [Task -> Row] /\ saveFailed' \in BOOLEAN
    BY <1>16, <1>r DEF StopEnd, SaveTasks
  <2> QED
    BY <1>16, <2>1 DEF StopEnd, TypeOK, taskVars, workVars, history
<1>17. CASE SaveTimer
  <2>1. disk' \in [Task -> Row] /\ saveFailed' \in BOOLEAN /\ timer' \in BOOLEAN
    BY <1>17, <1>r DEF SaveTimer, SaveTasks
  <2> QED
    BY <1>17, <2>1 DEF SaveTimer, TypeOK, taskVars, workVars, lockVars, history
<1>18. ASSUME NEW t \in Task, WorkerBegin(t)
       PROVE  TypeOK'
  BY <1>18, CallTypes DEF WorkerBegin, TypeOK, taskVars, lockVars, saveVars, history
<1>19. ASSUME NEW t \in Task, NEW u \in Updates(t), Report(t, u)
       PROVE  TypeOK'
  <2> DEFINE st == [status EXCEPT ![t] = IF u.status # "" /\ @ \in Active THEN u.status ELSE @]
             us == [usesSlot EXCEPT ![t] = IF u.slot = "keep" THEN @ ELSE u.slot = "take"]
             over == IF ~usesSlot[t] /\ us[t] THEN Overflow(st, us, running, maxRunning) ELSE {}
  <2>1. u.status \in {"", "running", "seeding"} /\ u.slot \in {"keep", "take", "free"}
    BY <1>19, UpdateTypes
  <2>2. st \in Statuses
    BY <1>t, <1>w, <2>1 DEF Statuses
  <2>3. us \in [Task -> BOOLEAN]
    BY <2>1 DEF TypeOK
  <2>4. over \subseteq running
    BY DEF Overflow, SlotHolders
  <2>5. /\ usesSlot' = us
        /\ cancelled' = cancelled \cup over
        /\ IF usesSlot[t] /\ ~us[t]
           THEN ScheduleWaiting(st, us, running, worker, maxRunning)
           ELSE status' = Pause(st, over) /\ UNCHANGED <<running, worker>>
    BY <1>19 DEF Report
  <2> HIDE DEF st, us, over
  <2>6. status' \in Statuses /\ running' \in SUBSET Task /\ running \subseteq running'
        /\ worker' \in Workers
    BY <1>t, <2>2, <2>5, PauseType, ScheduleWaitingType
  <2>7. cfg' \in [Task -> 0 .. MaxEdits]
    BY <1>19 DEF Report, TypeOK
  <2> QED
    BY <1>19, <2>3, <2>4, <2>5, <2>6, <2>7, CallTypes
    DEF Report, TypeOK, Statuses, Workers, ScheduleSave, Touch, lockVars, history
<1>20. ASSUME NEW t \in Task, NEW r \in Results, WorkerReturn(t, r)
       PROVE  TypeOK'
  <2> DEFINE wk == [worker EXCEPT ![t] = "none"]
             rn == running \ {t}
             st == [status EXCEPT ![t] = Outcome(@, r)]
  <2>1. wk \in Workers /\ rn \in SUBSET Task /\ cancelled \ {t} \subseteq rn
    BY <1>t DEF Workers
  <2>2. st \in Statuses
    BY <1>t, <1>w DEF Statuses, Outcome, Results
  <2>3. /\ cancelled' = cancelled \ {t}
        /\ IF t \in Present
           THEN ScheduleWaiting(st, usesSlot, rn, wk, maxRunning) /\ Touch(t) /\ ScheduleSave
           ELSE running' = rn /\ worker' = wk /\ UNCHANGED <<status, ed, saveVars>>
    BY <1>20 DEF WorkerReturn
  <2> HIDE DEF wk, rn, st
  <2>4. status' \in Statuses /\ running' \in SUBSET Task /\ rn \subseteq running'
        /\ worker' \in Workers
    BY <1>t, <2>1, <2>2, <2>3, ScheduleWaitingType
  <2>5. held' \subseteq Task
    BY <1>20 DEF WorkerReturn, TypeOK
  <2>6. ed' \in EditCall /\ timer' \in BOOLEAN /\ saveFailed' \in BOOLEAN /\ disk' \in [Task -> Row]
    BY <2>3, CallTypes DEF Touch, ScheduleSave, saveVars, TypeOK
  <2>7. cancelled' \subseteq running'
    BY <2>1, <2>3, <2>4
  <2> QED
    BY <1>20, <2>4, <2>5, <2>6, <2>7
    DEF WorkerReturn, TypeOK, Statuses, Workers, lockVars
<1>21. CASE UNCHANGED vars
  BY <1>21 DEF vars, taskVars, workVars, lockVars, saveVars, history, TypeOK
<1>22. ASSUME NEW t \in Task, LateReport(t)
       PROVE  TypeOK'
  BY <1>22, CallTypes DEF LateReport, Touch, ScheduleSave, TypeOK, taskVars, workVars, lockVars, history
<1>23. CASE Reboot
  <2> DEFINE rows == Normalised(disk)
  <2>1. rows \in [Task -> Row]
    BY <1>r, RowTypes
  <2>2. /\ status' = [t \in Task |-> rows[t].status]
        /\ usesSlot' = [t \in Task |-> rows[t].slot]
        /\ cfg' = [t \in Task |-> rows[t].cfg] /\ edits' = [t \in Task |-> rows[t].cfg]
    BY <1>23 DEF Reboot
  <2> HIDE DEF rows
  <2>3. /\ status' \in [Task -> Status \cup {"absent"}] /\ usesSlot' \in [Task -> BOOLEAN]
        /\ cfg' \in [Task -> 0 .. MaxEdits] /\ edits' \in [Task -> 0 .. MaxEdits]
    BY <2>1, <2>2 DEF Row
  <2>4. restarts' \in 0 .. MaxRestarts
    BY <1>23 DEF Reboot, TypeOK
  <2>5. rd' \in RedownloadCall /\ ed' \in EditCall
    BY <1>23, CallTypes DEF Reboot
  <2>6. /\ workerCfg' \in [Task -> 0 .. MaxEdits]
        /\ worker' \in [Task -> {"none", "spawned", "active", "two"}]
    BY <1>23 DEF Reboot
  <2>7. /\ added' = added /\ disk' = disk /\ running' = {} /\ cancelled' = {} /\ held' = {} /\ overtaken' = {}
        /\ maxRunning' \in Limits /\ stopping' = FALSE /\ stopped' = FALSE
        /\ editMu' = "free" /\ timer' = FALSE /\ saveFailed' = FALSE
    BY <1>23 DEF Reboot
  <2> QED
    BY <2>3, <2>4, <2>5, <2>6, <2>7 DEF TypeOK
<1> QED
  BY <1>1, <1>2, <1>3, <1>4, <1>5, <1>6, <1>7, <1>8, <1>9, <1>10, <1>11, <1>12, <1>13, <1>14,
     <1>15, <1>16, <1>17, <1>18, <1>19, <1>20, <1>21, <1>22, <1>23
  DEF Next, UserCall, Continue, WorkerStep

\* What Load brings at the first start has its types.
LEMMA TypeInit == Init => TypeOK
<1> SUFFICES ASSUME Init PROVE TypeOK
  OBVIOUS
<1>1. /\ added \in 0 .. MaxTasks /\ timer \in BOOLEAN /\ restarts \in 0 .. MaxRestarts
      /\ status \in [Task -> StoredStatus \cup {"absent"}]
  BY ConstantsAssumption, LimitsNat DEF Init
<1>2. status \in [Task -> Status \cup {"absent"}]
  BY <1>1, ConstantsAssumption
<1>3. /\ cfg \in [Task -> 0 .. MaxEdits] /\ workerCfg \in [Task -> 0 .. MaxEdits]
      /\ edits \in [Task -> 0 .. MaxEdits]
  BY LimitsNat DEF Init
<1>4. rd \in RedownloadCall /\ ed \in EditCall
  BY CallTypes DEF Init
<1>5. disk \in [Task -> Row]
  <2>1. NoRow \in Row
    BY LimitsNat DEF NoRow, Row
  <2> QED
    BY <1>2, <1>3, <2>1 DEF Init, Rows, Row
<1> QED
  BY <1>1, <1>2, <1>3, <1>4, <1>5 DEF Init, TypeOK

\* The scheduler's state always has its declared shape.
THEOREM TypeCorrect == Spec => []TypeOK
BY TypeInit, TypeStep, PTL DEF Spec

\* The loops of the code compute the sets the model uses: in every state and for
\* every limit, enforceMaxRunningLocked pauses exactly Overflow, and
\* scheduleWaitingLocked, after it or in StartAll, starts or fails exactly Admitted,
\* although each of its iterations counts the slots anew.
THEOREM LoopsAlwaysComputeSlots == Spec => []LoopsComputeSlots
<1>1. TypeOK => LoopsComputeSlots
  <2> SUFFICES ASSUME TypeOK, NEW m \in Limits
               PROVE  /\ Enforced(m) = Overflow(status, usesSlot, running, m)
                      /\ \A idle \in {{}, {t \in Task : status[t] = "paused"}} :
                           LET paused == Pause(status, Enforced(m))
                               st == [t \in Task |-> IF t \in idle THEN "waiting" ELSE paused[t]]
                               loop == Scheduled(st, m)
                               admitted == Admits(st, m)
                           IN /\ loop[2] = running \cup (admitted \cap Registered)
                              /\ loop[1] = [t \in Task |->
                                             IF t \in admitted \cap Registered THEN "running"
                                             ELSE IF t \in admitted THEN "failed" ELSE st[t]]
    BY DEF LoopsComputeSlots, Admits
  <2>1. m \in Nat /\ running \in SUBSET Task /\ usesSlot \in [Task -> BOOLEAN]
    BY ConstantsAssumption DEF TypeOK
  <2>2. Enforced(m) = Overflow(status, usesSlot, running, m)
    BY <2>1, EnforcedIsOverflow
  <2>3. ASSUME NEW idle
        PROVE  LET paused == Pause(status, Enforced(m))
                   st == [t \in Task |-> IF t \in idle THEN "waiting" ELSE paused[t]]
                   loop == Scheduled(st, m)
                   admitted == Admits(st, m)
               IN /\ loop[2] = running \cup (admitted \cap Registered)
                  /\ loop[1] = [t \in Task |->
                                 IF t \in admitted \cap Registered THEN "running"
                                 ELSE IF t \in admitted THEN "failed" ELSE st[t]]
    <3> DEFINE st == [t \in Task |-> IF t \in idle THEN "waiting"
                                     ELSE Pause(status, Enforced(m))[t]]
    <3>1. st = [t \in Task |-> st[t]]
      OBVIOUS
    <3> HIDE DEF st
    <3>2. LET A == Admits(st, m)
          IN /\ Scheduled(st, m)[2] = running \cup (A \cap Registered)
             /\ Scheduled(st, m)[1] = [t \in Task |-> IF t \in A \cap Registered THEN "running"
                                                      ELSE IF t \in A THEN "failed" ELSE st[t]]
      BY <2>1, <3>1, ScheduledIsAdmitted
    <3> QED
      BY <3>2 DEF st
  <2> QED
    BY <2>2, <2>3
<1> QED
  BY <1>1, TypeCorrect, PTL

-----------------------------------------------------------------------------
(* The slot bound and the life of a worker *)

Slotted(st, us) == {t \in Task : st[t] \in Active /\ us[t]}

\* ActiveHasWorker, OneWorker, NoStuckEntry and SlotBound of the values a
\* handler has computed when it comes to scheduling.
Sound(st, us, rn, cn, wk, mx) ==
  /\ cn \subseteq rn
  /\ \A t \in Task : st[t] \in Active => t \in rn \ cn /\ wk[t] # "none"
  /\ \A t \in Task : wk[t] # "two" /\ (wk[t] # "none" => t \in rn)
  /\ \A t \in rn : st[t] # "absent" => wk[t] # "none"
  /\ Cardinality(Slotted(st, us)) <= mx

\* Starting the admitted tasks of a set of idle tasks keeps all of that: a
\* started task had neither entry nor goroutine, and it found a free slot.
LEMMA LaunchSound ==
  ASSUME NEW W \in SUBSET Task, NEW st \in Statuses, NEW us \in [Task -> BOOLEAN],
         NEW rn \in SUBSET Task, NEW cn, NEW wk \in Workers, NEW mx \in Nat,
         W \cap rn = {},
         \A t \in W : st[t] \notin Active,
         Sound(st, us, rn, cn, wk, mx),
         Launch(W, st, us, rn, wk, mx)
  PROVE  /\ Sound(status', us, running', cn, worker', mx)
         /\ \A t \in Task \ W : status'[t] = st[t] /\ (t \in running' => t \in rn)
<1> DEFINE holders == SlotHolders(st, us, rn)
           adm == IF stopping THEN {} ELSE Admitted(W, us, Cardinality(holders), mx)
           started == adm \cap Registered
           new == {t \in started : us[t]}
<1>1. /\ status' = [t \in Task |-> IF t \in started THEN "running"
                                  ELSE IF t \in adm THEN "failed" ELSE st[t]]
      /\ running' = rn \cup started
      /\ worker' = [t \in Task |-> IF t \notin started THEN wk[t]
                                  ELSE IF wk[t] = "none" THEN "spawned" ELSE "two"]
  BY DEF Launch
<1>2. adm \subseteq W
  BY DEF Admitted
<1>3. holders \in SUBSET Task /\ Cardinality(holders) \in Nat
  BY TasksFinite DEF SlotHolders
<1>4. new = {} \/ Cardinality(holders) + Cardinality(new) <= mx
  <2>1. CASE stopping
    BY <2>1
  <2>2. CASE ~stopping
    <3> DEFINE h == Cardinality(holders)
    <3>1. LET newcomers == {t \in Admitted(W, us, h, mx) \cap Registered : us[t]}
          IN newcomers = {} \/ h + Cardinality(newcomers) <= mx
      <4> HIDE DEF h
      <4>1. h \in Nat
        BY <1>3 DEF h
      <4> QED
        BY <4>1, AdmissionBound
    <3> QED
      BY <2>2, <3>1
  <2> QED
    BY <2>1, <2>2
<1> HIDE DEF holders, adm
<1>5. Slotted(status', us) = Slotted(st, us) \cup new
  <2>1. \A t \in Task : status'[t] \in Active <=> t \in started \/ st[t] \in Active
    BY <1>1, <1>2
  <2>2. started \subseteq Task
    BY <1>2
  <2> QED
    BY <2>1, <2>2 DEF Slotted
<1>6. Slotted(st, us) \subseteq holders
  BY DEF Slotted, Sound, SlotHolders, holders
<1>7. Cardinality(Slotted(status', us)) <= mx
  <2>1. CASE new = {}
    BY <1>5, <2>1 DEF Sound
  <2>2. CASE new # {}
    <3>1. new \in SUBSET Task /\ holders \cup new \in SUBSET Task
      BY <1>2, <1>3
    <3>2. IsFiniteSet(holders) /\ IsFiniteSet(new) /\ Cardinality(new) \in Nat
          /\ Cardinality(holders \cap new) \in Nat
      BY <1>3, <3>1, TasksFinite
    <3>3. Cardinality(holders \cup new)
            = Cardinality(holders) + Cardinality(new) - Cardinality(holders \cap new)
      BY <3>2, FS_Union
    <3>4. Slotted(status', us) \subseteq holders \cup new
      BY <1>5, <1>6
    <3>5. Cardinality(Slotted(status', us)) <= Cardinality(holders \cup new)
      BY <3>1, <3>4, TasksMonotone
    <3>6. Cardinality(Slotted(status', us)) \in Nat /\ Cardinality(holders \cup new) \in Nat
      BY <3>1, TasksFinite DEF Slotted
    <3> HIDE DEF new
    <3> QED
      BY <1>3, <1>4, <2>2, <3>2, <3>3, <3>5, <3>6
  <2> QED
    BY <2>1, <2>2
<1>8. \A t \in started : wk[t] = "none" /\ t \in Task /\ t \notin rn
  BY <1>2 DEF Sound
<1>9. \A t \in adm : st[t] \notin Active /\ t \in Task
  BY <1>2
<1>10. Sound(status', us, running', cn, worker', mx)
  <2>1. cn \subseteq running'
    BY <1>1 DEF Sound
  <2>2. \A t \in Task : status'[t] \in Active => t \in running' \ cn /\ worker'[t] # "none"
    BY <1>1, <1>8, <1>9 DEF Sound, Statuses, Workers
  <2>3. \A t \in Task : worker'[t] # "two" /\ (worker'[t] # "none" => t \in running')
    BY <1>1, <1>8 DEF Sound, Workers
  <2>4. \A t \in running' : status'[t] # "absent" => worker'[t] # "none"
    BY <1>1, <1>2, <1>8 DEF Sound, Statuses, Workers
  <2> QED
    BY <1>7, <2>1, <2>2, <2>3, <2>4 DEF Sound
<1>11. \A t \in Task \ W : status'[t] = st[t] /\ (t \in running' => t \in rn)
  BY <1>1, <1>2
<1> QED
  BY <1>10, <1>11

\* The same of scheduleWaitingLocked.
LEMMA ScheduleWaitingSound ==
  ASSUME NEW st \in Statuses, NEW us \in [Task -> BOOLEAN],
         NEW rn \in SUBSET Task, NEW cn, NEW wk \in Workers, NEW mx \in Nat,
         Sound(st, us, rn, cn, wk, mx),
         ScheduleWaiting(st, us, rn, wk, mx)
  PROVE  /\ Sound(status', us, running', cn, worker', mx)
         /\ \A t \in Task : st[t] = "absent" => status'[t] = "absent" /\ (t \in running' => t \in rn)
<1> DEFINE W == {t \in Task \ rn : st[t] = "waiting"}
<1>1. /\ W \in SUBSET Task /\ W \cap rn = {}
      /\ \A t \in W : st[t] \notin Active
      /\ \A t \in Task : st[t] = "absent" => t \notin W
  OBVIOUS
<1>2. Launch(W, st, us, rn, wk, mx)
  BY DEF ScheduleWaiting
<1> HIDE DEF W
<1> QED
  BY <1>1, <1>2, LaunchSound

\* The same of scheduleLocked on one task.
LEMMA ScheduleSound ==
  ASSUME NEW t \in Task, NEW st \in Statuses, NEW us \in [Task -> BOOLEAN],
         NEW rn \in SUBSET Task, NEW cn, NEW wk \in Workers, NEW mx \in Nat,
         Sound(st, us, rn, cn, wk, mx),
         Schedule(t, st, us, rn, wk, mx)
  PROVE  /\ Sound(status', us, running', cn, worker', mx)
         /\ \A u \in Task : st[u] = "absent" => status'[u] = "absent" /\ (u \in running' => u \in rn)
<1> DEFINE W == {u \in {t} \ rn : st[u] \notin Active \cup {"completed", "absent"}}
<1>1. /\ W \in SUBSET Task /\ W \cap rn = {}
      /\ \A u \in W : st[u] \notin Active
      /\ \A u \in Task : st[u] = "absent" => u \notin W
  OBVIOUS
<1>2. Launch(W, st, us, rn, wk, mx)
  BY DEF Schedule
<1> HIDE DEF W
<1> QED
  BY <1>1, <1>2, LaunchSound

Now == Sound(status, usesSlot, running, cancelled, worker, maxRunning)

\* SlotInv in terms of Sound
LEMMA SlotInvIsSound == SlotInv <=> TypeOK /\ Fresh /\ FreshDisk /\ Now
<1>1. Slotted(status, usesSlot) = ActiveSlots
  BY DEF Slotted, ActiveSlots
<1>2. TypeOK => cancelled \subseteq running /\ running \subseteq Task
  BY DEF TypeOK
<1>3. NoStuckEntry /\ running \subseteq Task
        <=> (\A t \in running : status[t] # "absent" => worker[t] # "none") /\ running \subseteq Task
  BY DEF NoStuckEntry, Present
<1> QED
  BY <1>1, <1>2, <1>3 DEF SlotInv, Now, Sound, ActiveHasWorker, OneWorker, SlotBound

\* Making some tasks idle, with or without cancelling their workers, and
\* changing their slot flags while they are idle, keeps Sound.
LEMMA IdleSound ==
  ASSUME TypeOK, Now,
         NEW S \in SUBSET Task,
         NEW st \in Statuses, NEW us \in [Task -> BOOLEAN], NEW cn \in SUBSET running,
         cancelled \subseteq cn, \A u \in cn : u \in cancelled \/ st[u] \notin Active,
         \A u \in Task \ S : st[u] = status[u] /\ us[u] = usesSlot[u],
         \A u \in S : st[u] \notin Active,
         \A u \in S : status[u] = "absent" /\ u \in running => st[u] = "absent"
  PROVE  Sound(st, us, running, cn, worker, maxRunning)
<1>1. Slotted(st, us) \subseteq Slotted(status, usesSlot)
  BY DEF Slotted
<1>2. Slotted(status, usesSlot) \in SUBSET Task
  BY DEF Slotted
<1>3. Cardinality(Slotted(st, us)) <= Cardinality(Slotted(status, usesSlot))
  BY <1>1, <1>2, TasksMonotone
<1>4. Cardinality(Slotted(st, us)) \in Nat /\ Cardinality(Slotted(status, usesSlot)) \in Nat
  BY <1>1, <1>2, TasksFinite
<1>5. Cardinality(Slotted(st, us)) <= maxRunning
  BY <1>3, <1>4, LimitsNat DEF Now, Sound, TypeOK
<1>6. \A u \in Task : st[u] \in Active => u \in running \ cn /\ worker[u] # "none"
  BY DEF Now, Sound
<1>7. \A u \in running : st[u] # "absent" => worker[u] # "none"
  BY DEF Now, Sound, TypeOK
<1> QED
  BY <1>5, <1>6, <1>7 DEF Now, Sound

\* A handler that makes present tasks idle and then schedules, or does not,
\* keeps the invariant.
LEMMA IdleStep ==
  ASSUME TypeOK, Fresh, Now,
         NEW S \in SUBSET Present,
         NEW st \in Statuses, NEW us \in [Task -> BOOLEAN], NEW cn \in SUBSET running,
         cancelled \subseteq cn, \A u \in cn : u \in cancelled \/ st[u] \notin Active,
         \A u \in Task \ S : st[u] = status[u] /\ us[u] = usesSlot[u],
         \A u \in S : st[u] \notin Active,
         \/ ScheduleWaiting(st, us, running, worker, maxRunning)
         \/ \E t \in Task : Schedule(t, st, us, running, worker, maxRunning)
         \/ status' = st /\ running' = running /\ worker' = worker,
         usesSlot' = us, cancelled' = cn, maxRunning' = maxRunning, added' = added
  PROVE  Fresh' /\ Now'
<1>1. /\ worker \in Workers /\ running \in SUBSET Task /\ maxRunning \in Nat
      /\ S \in SUBSET Task /\ \A u \in S : status[u] # "absent"
  BY LimitsNat DEF TypeOK, Workers, Present
<1>2. Sound(st, us, running, cn, worker, maxRunning)
  BY <1>1, IdleSound
<1>3. \A u \in Task : u > added => st[u] = "absent" /\ u \notin running
  BY <1>1 DEF Fresh
<1>4. CASE ScheduleWaiting(st, us, running, worker, maxRunning)
  <2>1. Sound(status', us, running', cn, worker', maxRunning)
        /\ \A t \in Task : st[t] = "absent" => status'[t] = "absent"
                                               /\ (t \in running' => t \in running)
    BY <1>1, <1>2, <1>4, ScheduleWaitingSound
  <2> QED
    BY <1>3, <2>1 DEF Fresh, Now
<1>5. CASE \E t \in Task : Schedule(t, st, us, running, worker, maxRunning)
  <2>1. Sound(status', us, running', cn, worker', maxRunning)
        /\ \A t \in Task : st[t] = "absent" => status'[t] = "absent"
                                               /\ (t \in running' => t \in running)
    BY <1>1, <1>2, <1>5, ScheduleSound
  <2> QED
    BY <1>3, <2>1 DEF Fresh, Now
<1>6. CASE status' = st /\ running' = running /\ worker' = worker
  BY <1>2, <1>3, <1>6 DEF Fresh, Now
<1> QED
  BY <1>4, <1>5, <1>6

\* Every step of the scheduler keeps the slot invariant.
LEMMA SlotStep ==
  ASSUME TypeOK, Fresh, FreshDisk, Now, [Next]_vars
  PROVE  Fresh' /\ Now'
<1>t. /\ status \in Statuses /\ worker \in Workers /\ running \in SUBSET Task
      /\ cancelled \in SUBSET running /\ Present \subseteq Task
      /\ usesSlot \in [Task -> BOOLEAN] /\ maxRunning \in Nat
      /\ added \in Nat /\ Task \subseteq Nat
  BY LimitsNat DEF TypeOK, Statuses, Workers, Present, Task
<1>w. \A t \in Task : \A s \in {"waiting", "paused", "failed", "absent"} :
        [status EXCEPT ![t] = s] \in Statuses
  BY <1>t DEF Statuses, Status
<1>n. Now' = Sound(status', usesSlot', running', cancelled', worker', maxRunning')
  BY DEF Now
<1>1. CASE Add
  <2> DEFINE t == added + 1
  <2>1. t \in Task /\ status[t] = "absent" /\ t \notin running
    <3>1. t \in Task
      BY <1>1, <1>t, LimitsNat DEF Add, Task
    <3> QED
      BY <3>1, <1>t DEF Fresh
  <2>2. /\ added' = t
        /\ usesSlot' = usesSlot /\ cancelled' = cancelled /\ maxRunning' = maxRunning
    BY <1>1 DEF Add
  <2>3. \/ Schedule(t, [status EXCEPT ![t] = "waiting"], usesSlot, running, worker, maxRunning)
        \/ status' = [status EXCEPT ![t] = "failed"] /\ running' = running /\ worker' = worker
    BY <1>1 DEF Add
  <2> HIDE DEF t
  <2>4. \A s \in {"waiting", "failed"} :
          Sound([status EXCEPT ![t] = s], usesSlot, running, cancelled, worker, maxRunning)
    <3> SUFFICES ASSUME NEW s \in {"waiting", "failed"}
                 PROVE  Sound([status EXCEPT ![t] = s], usesSlot, running, cancelled, worker,
                              maxRunning)
      OBVIOUS
    <3> DEFINE st == [status EXCEPT ![t] = s]
    <3>1. st \in Statuses /\ st[t] = s /\ \A u \in Task \ {t} : st[u] = status[u]
      BY <1>t, <1>w, <2>1 DEF Statuses
    <3> HIDE DEF st
    <3>2. /\ {t} \in SUBSET Task /\ \A u \in {t} : st[u] \notin Active
          /\ \A u \in {t} : status[u] = "absent" /\ u \in running => st[u] = "absent"
          /\ \A u \in cancelled : u \in cancelled \/ st[u] \notin Active
          /\ \A u \in Task \ {t} : st[u] = status[u] /\ usesSlot[u] = usesSlot[u]
      BY <2>1, <3>1
    <3>3. Sound(st, usesSlot, running, cancelled, worker, maxRunning)
      BY <1>t, <3>1, <3>2, IdleSound
    <3> QED
      BY <3>3 DEF st
  <2>5. Now'
    BY <1>n, <1>t, <1>w, <2>1, <2>2, <2>3, <2>4, ScheduleSound
  <2>6. \A u \in Task : u > t => status'[u] = "absent" /\ u \notin running'
    <3>1. \A u \in Task : u > t => [status EXCEPT ![t] = "waiting"][u] = "absent" /\ u \notin running
      BY <1>t, <2>1, <2>2 DEF Fresh, Statuses, t
    <3>2. CASE Schedule(t, [status EXCEPT ![t] = "waiting"], usesSlot, running, worker, maxRunning)
      BY <1>t, <1>w, <2>1, <2>4, <3>1, <3>2, ScheduleSound
    <3>3. CASE status' = [status EXCEPT ![t] = "failed"] /\ running' = running
      BY <1>t, <2>1, <3>1, <3>3 DEF Statuses
    <3> QED
      BY <2>3, <3>2, <3>3
  <2> QED
    BY <2>2, <2>5, <2>6 DEF Fresh
<1>2. ASSUME NEW m \in Limits, SetMaxRunning(m)
      PROVE  Fresh' /\ Now'
  <2> DEFINE over == Overflow(status, usesSlot, running, m)
             st == Pause(status, over)
  <2>1. m \in Nat
    BY LimitsNat
  <2>2. over \subseteq running /\ st \in Statuses
    BY <1>t, PauseType DEF Overflow, SlotHolders
  <2>3. \A u \in Task : st[u] = IF u \in over THEN "paused" ELSE status[u]
    BY DEF Pause
  <2>4. \A u \in over : status[u] # "absent"
    BY DEF Overflow, SlotHolders
  <2>5. Slotted(st, usesSlot) \subseteq SlotHolders(status, usesSlot, running) \ over
    BY <2>3 DEF Slotted, SlotHolders, Now, Sound
  <2>6. Cardinality(Slotted(st, usesSlot)) <= m
    <3> DEFINE H == SlotHolders(status, usesSlot, running) \ over
    <3>1. H \in SUBSET Task
      BY <1>t DEF SlotHolders
    <3>2. Cardinality(H) <= m
      BY <1>t, <2>1, EnforceBound
    <3> HIDE DEF H
    <3>3. Cardinality(Slotted(st, usesSlot)) <= Cardinality(H)
      BY <2>5, <3>1, TasksMonotone DEF H
    <3>4. Cardinality(Slotted(st, usesSlot)) \in Nat /\ Cardinality(H) \in Nat
      BY <3>1, TasksFinite DEF Slotted
    <3> QED
      BY <2>1, <3>2, <3>3, <3>4
  <2>7. /\ ScheduleWaiting(st, usesSlot, running, worker, m)
        /\ cancelled' = cancelled \cup over /\ maxRunning' = m /\ usesSlot' = usesSlot
        /\ added' = added
    BY <1>2 DEF SetMaxRunning
  <2> HIDE DEF over, st
  <2>8. Sound(st, usesSlot, running, cancelled \cup over, worker, m)
    BY <1>t, <2>2, <2>3, <2>4, <2>6 DEF Sound, Now
  <2>9. Now'
    BY <1>n, <1>t, <2>1, <2>2, <2>7, <2>8, ScheduleWaitingSound
  <2>10. \A u \in Task : u > added => st[u] = "absent" /\ u \notin running
    BY <2>3, <2>4 DEF Fresh
  <2>11. \A u \in Task : u > added => status'[u] = "absent" /\ u \notin running'
    BY <1>t, <2>1, <2>2, <2>7, <2>8, <2>10, ScheduleWaitingSound
  <2> QED
    BY <2>7, <2>9, <2>11 DEF Fresh
<1>3. ASSUME NEW t \in Task, TogglePause(t)
      PROVE  Fresh' /\ Now'
  <2> DEFINE st(s) == [status EXCEPT ![t] = s]
  <2>1. t \in Present /\ {t} \in SUBSET Present
    BY <1>3 DEF TogglePause
  <2>2. \A s \in {"paused", "waiting"} :
          st(s) \in Statuses /\ st(s)[t] = s /\ \A u \in Task \ {t} : st(s)[u] = status[u]
    BY <1>t, <1>w DEF Statuses
  <2>3. usesSlot' = usesSlot /\ maxRunning' = maxRunning /\ added' = added
    BY <1>3 DEF TogglePause
  <2>4. \/ /\ t \in running /\ status' = st("paused") /\ cancelled' = cancelled \cup {t}
           /\ running' = running /\ worker' = worker
        \/ /\ status' = st("paused") /\ cancelled' = cancelled
           /\ running' = running /\ worker' = worker
        \/ /\ Schedule(t, st("waiting"), usesSlot, running, worker, maxRunning)
           /\ cancelled' = cancelled
    BY <1>3 DEF TogglePause
  <2> HIDE DEF st
  <2>5. CASE /\ t \in running /\ status' = st("paused") /\ cancelled' = cancelled \cup {t}
             /\ running' = running /\ worker' = worker
    <3>1. /\ cancelled \cup {t} \in SUBSET running
          /\ \A u \in cancelled \cup {t} : u \in cancelled \/ st("paused")[u] \notin Active
          /\ \A u \in {t} : st("paused")[u] \notin Active
      BY <1>t, <2>2, <2>5
    <3> QED
      BY ZenonT(40), <1>t, <2>1, <2>2, <2>3, <2>5, <3>1, IdleStep
  <2>6. CASE /\ status' = st("paused") /\ cancelled' = cancelled
             /\ running' = running /\ worker' = worker
    BY <1>t, <2>1, <2>2, <2>3, <2>6, IdleStep
  <2>7. CASE /\ Schedule(t, st("waiting"), usesSlot, running, worker, maxRunning)
             /\ cancelled' = cancelled
    BY <1>t, <2>1, <2>2, <2>3, <2>7, IdleStep
  <2> QED
    BY <2>4, <2>5, <2>6, <2>7
<1>4. CASE StartAll
  <2> DEFINE idle == {t \in Task : status[t] \in {"paused", "waiting"}}
             st == [t \in Task |-> IF t \in idle THEN "waiting" ELSE status[t]]
  <2>1. st \in Statuses /\ idle \in SUBSET Present
    BY <1>t DEF Statuses, Status, Present
  <2>2. /\ \A u \in idle : st[u] \notin Active
        /\ \A u \in Task \ idle : st[u] = status[u]
        /\ \A u \in cancelled : u \in cancelled
    OBVIOUS
  <2>3. /\ ScheduleWaiting(st, usesSlot, running, worker, maxRunning)
        /\ usesSlot' = usesSlot /\ maxRunning' = maxRunning /\ added' = added
        /\ cancelled' = cancelled
    BY <1>4 DEF StartAll
  <2> HIDE DEF idle, st
  <2> QED
    BY <1>t, <2>1, <2>2, <2>3, IdleStep
<1>5. CASE PauseAll
  <2> DEFINE S == (running \cap Present) \cup {t \in Task : status[t] = "waiting"}
             st == Pause(status, S)
  <2>1. st \in Statuses /\ S \in SUBSET Present
    BY <1>t, PauseType DEF Present
  <2>2. /\ \A u \in S : st[u] \notin Active
        /\ \A u \in Task \ S : st[u] = status[u]
        /\ \A u \in running : st[u] \notin Active
    BY <1>t DEF Pause, Present
  <2>3. /\ status' = st /\ running' = running /\ worker' = worker
        /\ usesSlot' = usesSlot /\ maxRunning' = maxRunning /\ added' = added
        /\ cancelled' = cancelled \cup running
    BY <1>5 DEF PauseAll
  <2> HIDE DEF S, st
  <2>4. cancelled \cup running = running
    BY <1>t
  <2> QED
    BY <1>t, <2>1, <2>2, <2>3, <2>4, IdleStep
<1>6. ASSUME NEW t \in Task, Remove(t)
      PROVE  Fresh' /\ Now'
  <2> DEFINE st == [status EXCEPT ![t] = "absent"]
             us == [usesSlot EXCEPT ![t] = TRUE]
             cn == cancelled \cup ({t} \cap running)
  <2>1. /\ {t} \in SUBSET Present /\ st \in Statuses /\ us \in [Task -> BOOLEAN]
        /\ cn \in SUBSET running
    BY <1>6, <1>t, <1>w DEF Remove
  <2>2. /\ st[t] = "absent"
        /\ \A u \in Task \ {t} : st[u] = status[u] /\ us[u] = usesSlot[u]
        /\ \A u \in cn : u \in cancelled \/ u = t
    BY <1>t DEF Statuses
  <2>3. /\ ScheduleWaiting(st, us, running, worker, maxRunning)
        /\ usesSlot' = us /\ maxRunning' = maxRunning /\ added' = added
        /\ cancelled' = cn
    BY <1>6 DEF Remove
  <2> HIDE DEF st, us, cn
  <2>4. /\ \A u \in {t} : st[u] \notin Active
        /\ cancelled \subseteq cn /\ \A u \in cn : u \in cancelled \/ st[u] \notin Active
    BY <2>2 DEF cn
  <2> QED
    BY <2>1, <2>2, <2>3, <2>4, IdleStep
<1>7. ASSUME NEW t \in Task, RedownloadBegin(t) \/ EditBegin(t)
      PROVE  Fresh' /\ Now'
  <2> DEFINE S == {t} \cap running
             st == Pause(status, S)
             cn == cancelled \cup S
  <2>1. S \in SUBSET Present /\ st \in Statuses /\ cn \in SUBSET running /\ cancelled \subseteq cn
    BY <1>7, <1>t, PauseType DEF RedownloadBegin, EditBegin
  <2>2. /\ \A u \in S : st[u] \notin Active
        /\ \A u \in Task \ S : st[u] = status[u] /\ usesSlot[u] = usesSlot[u]
        /\ \A u \in cn : u \in cancelled \/ st[u] \notin Active
    BY <1>t DEF Pause
  <2>3. /\ status' = st /\ running' = running /\ worker' = worker
        /\ usesSlot' = usesSlot /\ maxRunning' = maxRunning /\ added' = added
        /\ cancelled' = cn
    BY <1>7 DEF RedownloadBegin, EditBegin
  <2> HIDE DEF S, st, cn
  <2> QED
    BY <1>t, <2>1, <2>2, <2>3, IdleStep
<1>8. CASE RedownloadCopy \/ RedownloadAbort \/ EditCopy \/ EditAbort \/ StopEnd \/ SaveTimer
           \/ (\E t \in Task : LateReport(t)) \/ UNCHANGED vars
  <2>1. UNCHANGED <<taskVars, workVars, maxRunning>>
    BY <1>8 DEF RedownloadCopy, RedownloadAbort, EditCopy, EditAbort, StopEnd, SaveTimer,
            LateReport, vars
  <2> QED
    BY <2>1 DEF Fresh, Now, taskVars, workVars
<1>9. CASE RedownloadRequeue
  <2> DEFINE t == rd.task
             st == [status EXCEPT ![t] = "waiting"]
             us == [usesSlot EXCEPT ![t] = t \in BT \cap Registered \/ rd.slot]
  <2>1. t \in Task /\ {t} \in SUBSET Present /\ st \in Statuses
    BY <1>9, <1>t, <1>w DEF RedownloadRequeue
  <2>2. us \in [Task -> BOOLEAN]
    BY <2>1 DEF TypeOK, RedownloadCall
  <2>3. /\ \A u \in {t} : st[u] \notin Active
        /\ \A u \in Task \ {t} : st[u] = status[u] /\ us[u] = usesSlot[u]
        /\ \A u \in cancelled : u \in cancelled \/ st[u] \notin Active
    BY <1>t, <2>1 DEF Statuses
  <2>4. /\ ScheduleWaiting(st, us, running, worker, maxRunning)
        /\ usesSlot' = us /\ maxRunning' = maxRunning /\ added' = added
        /\ cancelled' = cancelled
    BY <1>9 DEF RedownloadRequeue
  <2> HIDE DEF t, st, us
  <2> QED
    BY <1>t, <2>1, <2>2, <2>3, <2>4, IdleStep
<1>10. ASSUME NEW f \in BOOLEAN, EditCommit(f)
       PROVE  Fresh' /\ Now'
  <2> DEFINE t == ed.task
             st(s) == [status EXCEPT ![t] = s]
  <2>1. t \in Task /\ {t} \in SUBSET Present
    BY <1>10, <1>t DEF EditCommit
  <2>2. \A s \in {"waiting", "paused"} :
          /\ st(s) \in Statuses
          /\ \A u \in {t} : st(s)[u] \notin Active
          /\ \A u \in Task \ {t} : st(s)[u] = status[u] /\ usesSlot[u] = usesSlot[u]
          /\ \A u \in cancelled : u \in cancelled \/ st(s)[u] \notin Active
    BY <1>t, <1>w, <2>1 DEF Statuses
  <2>3. /\ \/ Schedule(t, st("waiting"), usesSlot, running, worker, maxRunning)
           \/ status' = st("paused") /\ running' = running /\ worker' = worker
        /\ usesSlot' = usesSlot /\ maxRunning' = maxRunning /\ added' = added
        /\ cancelled' = cancelled
    BY <1>10 DEF EditCommit
  <2> HIDE DEF t, st
  <2>4. CASE Schedule(t, st("waiting"), usesSlot, running, worker, maxRunning)
    BY <1>t, <2>1, <2>2, <2>3, <2>4, IdleStep
  <2>5. CASE status' = st("paused") /\ running' = running /\ worker' = worker
    BY <1>t, <2>1, <2>2, <2>3, <2>5, IdleStep
  <2> QED
    BY <2>3, <2>4, <2>5
<1>11. CASE StopBegin
  <2> DEFINE S == {t \in Task : status[t] \in Active \cup {"waiting"}}
             st == Pause(status, S)
  <2>1. st \in Statuses /\ S \in SUBSET Present
    BY <1>t, PauseType DEF Present
  <2>2. /\ \A u \in S : st[u] \notin Active
        /\ \A u \in Task \ S : st[u] = status[u] /\ usesSlot[u] = usesSlot[u]
        /\ \A u \in running : st[u] \notin Active
    BY <1>t DEF Pause
  <2>3. /\ status' = st /\ running' = running /\ worker' = worker
        /\ usesSlot' = usesSlot /\ maxRunning' = maxRunning /\ added' = added
        /\ cancelled' = cancelled \cup running
    BY <1>11 DEF StopBegin
  <2> HIDE DEF S, st
  <2>4. cancelled \cup running = running
    BY <1>t
  <2> QED
    BY <1>t, <2>1, <2>2, <2>3, <2>4, IdleStep
<1>12. ASSUME NEW t \in Task, WorkerBegin(t)
       PROVE  Fresh' /\ Now'
  <2>1. /\ worker' = [worker EXCEPT ![t] = IF t \in Present THEN "active" ELSE "none"]
        /\ worker[t] = "spawned"
        /\ status' = status /\ running' = running /\ cancelled' = cancelled /\ added' = added
        /\ usesSlot' = usesSlot /\ maxRunning' = maxRunning
    BY <1>12 DEF WorkerBegin, taskVars
  <2>2. /\ \A u \in Task \ {t} : worker'[u] = worker[u]
        /\ status[t] # "absent" => worker'[t] = "active"
        /\ worker'[t] \in {"active", "none"}
    BY <1>t, <2>1 DEF Workers, Present
  <2>3. Sound(status, usesSlot, running, cancelled, worker', maxRunning)
    BY <1>t, <2>1, <2>2 DEF Sound, Now
  <2> QED
    BY <1>n, <2>1, <2>3 DEF Fresh
<1>13. ASSUME NEW t \in Task, NEW v \in Updates(t), Report(t, v)
       PROVE  Fresh' /\ Now'
  <2> DEFINE st == [status EXCEPT ![t] = IF v.status # "" /\ @ \in Active THEN v.status ELSE @]
             us == [usesSlot EXCEPT ![t] = IF v.slot = "keep" THEN @ ELSE v.slot = "take"]
             over == Overflow(st, us, running, maxRunning)
  <2>1. v.status \in {"", "running", "seeding"}
    <3>1. CASE t \in BT
      <4>1. \/ v \in [status : {"", "running"}, slot : {"take"}]
            \/ v \in [status : {"", "seeding"}, slot : {"free"}]
        BY <3>1 DEF Updates, BtUpdates
      <4> QED
        BY <4>1
    <3>2. CASE t \notin BT
      <4>1. v = Plain
        BY <3>2 DEF Updates
      <4>2. Plain.status = ""
        BY DEF Plain
      <4> QED
        BY <4>1, <4>2
    <3> QED
      BY <3>1, <3>2
  <2>2. /\ st \in Statuses
        /\ \A u \in Task : (st[u] \in Active <=> status[u] \in Active)
                             /\ (st[u] = "absent" <=> status[u] = "absent")
    BY <1>t, <2>1 DEF Statuses, Status, Active
  <2>3. us \in [Task -> BOOLEAN] /\ \A u \in Task \ {t} : us[u] = usesSlot[u]
    BY <1>t
  <2>4. maxRunning' = maxRunning /\ added' = added /\ usesSlot' = us
    BY <1>13 DEF Report
  <2>5. \/ /\ usesSlot[t] /\ ~us[t] /\ cancelled' = cancelled
           /\ ScheduleWaiting(st, us, running, worker, maxRunning)
        \/ /\ ~usesSlot[t] /\ us[t] /\ cancelled' = cancelled \cup over
           /\ status' = Pause(st, over) /\ running' = running /\ worker' = worker
        \/ /\ usesSlot[t] = us[t] /\ cancelled' = cancelled
           /\ status' = Pause(st, {}) /\ running' = running /\ worker' = worker
    <3>1. usesSlot[t] \in BOOLEAN /\ us[t] \in BOOLEAN
      BY <1>t, <2>3
    <3>2. LET ov == IF ~usesSlot[t] /\ us[t] THEN over ELSE {}
          IN /\ cancelled' = cancelled \cup ov
             /\ IF usesSlot[t] /\ ~us[t]
                THEN ScheduleWaiting(st, us, running, worker, maxRunning)
                ELSE status' = Pause(st, ov) /\ running' = running /\ worker' = worker
      BY <1>13 DEF Report
    <3> HIDE DEF st, us, over
    <3>3. CASE usesSlot[t] /\ ~us[t]
      BY <3>2, <3>3
    <3>4. CASE ~usesSlot[t] /\ us[t]
      BY <3>2, <3>4
    <3>5. CASE usesSlot[t] = us[t]
      BY <3>2, <3>5
    <3> QED
      BY <3>1, <3>3, <3>4, <3>5
  <2> HIDE DEF st, us
  <2>6. \A u \in Task : u > added => st[u] = "absent" /\ u \notin running
    BY <2>2 DEF Fresh
  <2>7. Slotted(st, us) \subseteq Slotted(status, usesSlot)
          => Sound(st, us, running, cancelled, worker, maxRunning)
    <3> SUFFICES ASSUME Slotted(st, us) \subseteq Slotted(status, usesSlot)
                 PROVE  Sound(st, us, running, cancelled, worker, maxRunning)
      OBVIOUS
    <3>1. Slotted(status, usesSlot) \in SUBSET Task
      BY DEF Slotted
    <3>2. Cardinality(Slotted(st, us)) <= Cardinality(Slotted(status, usesSlot))
      BY <3>1, TasksMonotone
    <3>3. Cardinality(Slotted(st, us)) \in Nat /\ Cardinality(Slotted(status, usesSlot)) \in Nat
      BY <3>1, TasksFinite
    <3>4. Cardinality(Slotted(st, us)) <= maxRunning
      BY <1>t, <3>2, <3>3 DEF Now, Sound
    <3> QED
      BY <1>t, <2>2, <3>4 DEF Now, Sound
  <2>8. CASE /\ usesSlot[t] /\ ~us[t] /\ cancelled' = cancelled
             /\ ScheduleWaiting(st, us, running, worker, maxRunning)
    <3>1. Slotted(st, us) \subseteq Slotted(status, usesSlot)
      BY <2>2, <2>3, <2>8 DEF Slotted
    <3>2. Sound(st, us, running, cancelled, worker, maxRunning)
      BY <2>7, <3>1
    <3>3. /\ Sound(status', us, running', cancelled, worker', maxRunning)
          /\ \A u \in Task : st[u] = "absent" => status'[u] = "absent"
                                                  /\ (u \in running' => u \in running)
      BY <1>t, <2>2, <2>3, <2>8, <3>2, ScheduleWaitingSound
    <3> QED
      BY <1>n, <2>4, <2>6, <2>8, <3>3 DEF Fresh
  <2>9. CASE /\ ~usesSlot[t] /\ us[t] /\ cancelled' = cancelled \cup over
             /\ status' = Pause(st, over) /\ running' = running /\ worker' = worker
    <3> DEFINE H == SlotHolders(st, us, running) \ over
               ps == Pause(st, over)
    <3>1. /\ over \subseteq running /\ \A u \in over : st[u] # "absent"
          /\ H \in SUBSET Task
      BY <1>t DEF Overflow, SlotHolders
    <3>2. \A u \in Task : ps[u] = IF u \in over THEN "paused" ELSE st[u]
      BY DEF Pause
    <3>3. Cardinality(H) <= maxRunning
      BY <1>t, EnforceBound
    <3>4. Slotted(ps, us) \subseteq H
      BY <2>2, <3>2 DEF Slotted, SlotHolders, Now, Sound
    <3> HIDE DEF H, ps, over
    <3>5. Cardinality(Slotted(ps, us)) <= Cardinality(H)
      BY <3>1, <3>4, TasksMonotone
    <3>6. Cardinality(Slotted(ps, us)) \in Nat /\ Cardinality(H) \in Nat
      BY <3>1, TasksFinite DEF Slotted
    <3>7. Cardinality(Slotted(ps, us)) <= maxRunning
      BY <1>t, <3>3, <3>5, <3>6
    <3>8. Sound(ps, us, running, cancelled \cup over, worker, maxRunning)
      BY <1>t, <2>2, <3>1, <3>2, <3>7 DEF Sound, Now
    <3>9. \A u \in Task : u > added => ps[u] = "absent" /\ u \notin running
      BY <2>6, <3>1, <3>2
    <3> QED
      BY <1>n, <2>4, <2>9, <3>8, <3>9 DEF Fresh, ps
  <2>10. CASE /\ usesSlot[t] = us[t] /\ cancelled' = cancelled
              /\ status' = Pause(st, {}) /\ running' = running /\ worker' = worker
    <3>1. status' = st
      BY <2>2, <2>10 DEF Pause, Statuses
    <3>2. Slotted(st, us) \subseteq Slotted(status, usesSlot)
      BY <2>2, <2>3, <2>10 DEF Slotted
    <3>3. Sound(st, us, running, cancelled, worker, maxRunning)
      BY <2>7, <3>2
    <3> QED
      BY <1>n, <2>4, <2>6, <2>10, <3>1, <3>3 DEF Fresh
  <2> QED
    BY <2>5, <2>8, <2>9, <2>10
<1>14. ASSUME NEW t \in Task, NEW r \in Results, WorkerReturn(t, r)
       PROVE  Fresh' /\ Now'
  <2> DEFINE st == [status EXCEPT ![t] = Outcome(@, r)]
             wk == [worker EXCEPT ![t] = "none"]
             rn == running \ {t}
             cn == cancelled \ {t}
  <2>1. /\ usesSlot' = usesSlot /\ maxRunning' = maxRunning /\ added' = added
        /\ cancelled' = cn
        /\ IF t \in Present THEN ScheduleWaiting(st, usesSlot, rn, wk, maxRunning)
           ELSE running' = rn /\ worker' = wk /\ status' = status
    BY <1>14 DEF WorkerReturn
  <2>2. /\ rn \in SUBSET Task /\ wk \in Workers /\ cn \subseteq rn
        /\ wk[t] = "none" /\ \A u \in Task \ {t} : wk[u] = worker[u]
    BY <1>t DEF Workers
  <2>3. t \in Present => Outcome(status[t], r) \in Status \ Active
    BY <1>t DEF Outcome, Results, Statuses, Status, Active, Present
  <2>4. t \in Present => /\ st \in Statuses /\ st[t] \notin Active /\ st[t] # "absent"
                         /\ \A u \in Task \ {t} : st[u] = status[u]
    BY <1>t, <2>3 DEF Statuses, Status
  <2>5. \A x \in Statuses : x[t] \notin Active /\ (\A u \in Task \ {t} : x[u] = status[u])
          => Sound(x, usesSlot, rn, cn, wk, maxRunning)
    <3> SUFFICES ASSUME NEW x \in Statuses, x[t] \notin Active,
                        \A u \in Task \ {t} : x[u] = status[u]
                 PROVE  Sound(x, usesSlot, rn, cn, wk, maxRunning)
      OBVIOUS
    <3>1. /\ Slotted(x, usesSlot) \subseteq Slotted(status, usesSlot)
          /\ Slotted(status, usesSlot) \in SUBSET Task
      BY DEF Slotted
    <3>2. Cardinality(Slotted(x, usesSlot)) <= Cardinality(Slotted(status, usesSlot))
      BY <3>1, TasksMonotone
    <3>3. Cardinality(Slotted(x, usesSlot)) \in Nat
          /\ Cardinality(Slotted(status, usesSlot)) \in Nat
      BY <3>1, TasksFinite
    <3>4. Cardinality(Slotted(x, usesSlot)) <= maxRunning
      BY <1>t, <3>2, <3>3 DEF Now, Sound
    <3>5. /\ \A u \in Task : x[u] \in Active => u \in rn \ cn /\ wk[u] # "none"
          /\ \A u \in Task : wk[u] # "two" /\ (wk[u] # "none" => u \in rn)
          /\ \A u \in rn : x[u] # "absent" => wk[u] # "none"
      BY <1>t, <2>2 DEF Now, Sound
    <3> QED
      BY <2>2, <3>4, <3>5 DEF Sound
  <2> HIDE DEF st, wk, rn, cn
  <2>6. CASE t \in Present
    <3>1. Sound(st, usesSlot, rn, cn, wk, maxRunning)
      BY <2>4, <2>5, <2>6
    <3>2. /\ Sound(status', usesSlot, running', cn, worker', maxRunning)
          /\ \A u \in Task : st[u] = "absent" => status'[u] = "absent"
                                                  /\ (u \in running' => u \in rn)
      BY <1>t, <2>1, <2>2, <2>4, <2>6, <3>1, ScheduleWaitingSound
    <3>3. \A u \in Task : u > added => st[u] = "absent" /\ u \notin rn
      BY <2>4, <2>6 DEF Fresh, Present, rn
    <3> QED
      BY <1>n, <2>1, <3>2, <3>3 DEF Fresh
  <2>7. CASE t \notin Present
    <3>1. status[t] = "absent"
      BY <2>7 DEF Present
    <3>2. Sound(status, usesSlot, rn, cn, wk, maxRunning)
      BY <1>t, <2>5, <3>1 DEF Active
    <3> QED
      BY <1>n, <2>1, <2>7, <3>2 DEF Fresh, rn
  <2> QED
    BY <2>6, <2>7
<1>15. CASE Reboot
  <2> DEFINE rows == Normalised(disk)
  <2>1. /\ \A t \in Task : rows[t].status \notin Active
        /\ \A t \in Task : t > added => rows[t].status = "absent"
    <3>1. disk \in [Task -> Row]
      BY DEF TypeOK
    <3>2. \A t \in Task : rows[t].status \notin Active
      BY <3>1, RowTypes
    <3>3. \A t \in Task : disk[t].status = "absent" => rows[t] = disk[t]
      BY <3>1, RowTypes
    <3> HIDE DEF rows
    <3> QED
      BY <3>2, <3>3 DEF FreshDisk
  <2>2. /\ status' = [t \in Task |-> rows[t].status] /\ added' = added
        /\ running' = {} /\ cancelled' = {} /\ worker' = [t \in Task |-> "none"]
        /\ maxRunning' \in Nat
    BY <1>15, LimitsNat DEF Reboot
  <2> HIDE DEF rows
  <2>3. Slotted(status', usesSlot') = {}
    BY <2>1, <2>2 DEF Slotted
  <2>4. Cardinality(Slotted(status', usesSlot')) = 0
    BY <2>3, FS_EmptySet
  <2> QED
    BY <1>n, <2>1, <2>2, <2>4 DEF Fresh, Sound
<1> QED
  BY <1>1, <1>2, <1>3, <1>4, <1>5, <1>6, <1>7, <1>8, <1>9, <1>10, <1>11, <1>12, <1>13, <1>14, <1>15
     DEF Next, UserCall, Continue, WorkerStep

\* The store names no identifier that was not handed out: a save writes the
\* tasks there are, everything else leaves the rows alone.
LEMMA DiskStep ==
  ASSUME TypeOK, Fresh, FreshDisk, [Next]_vars
  PROVE  FreshDisk'
<1>t. added \in Nat /\ Task \subseteq Nat
  BY LimitsNat DEF TypeOK, Task
<1>1. CASE SaveTimer \/ StopEnd
  <2>1. disk' \in {disk, Rows} /\ added' = added
    BY <1>1 DEF SaveTimer, StopEnd, SaveTasks, taskVars
  <2>2. \A t \in Task : status[t] = "absent" => Rows[t].status = "absent"
    BY DEF Rows, Present, NoRow
  <2> QED
    BY <2>1, <2>2 DEF Fresh, FreshDisk
<1>2. CASE disk' = disk /\ added' \in {added, added + 1}
  BY <1>t, <1>2 DEF FreshDisk
<1>3. CASE \/ Add \/ StartAll \/ PauseAll \/ \E m \in Limits : SetMaxRunning(m)
           \/ \E t \in Task : TogglePause(t) \/ Remove(t)
  BY <1>2, <1>3 DEF Add, StartAll, PauseAll, SetMaxRunning, TogglePause, Remove, ScheduleSave
<1>4. CASE StopBegin \/ \E t \in Task : RedownloadBegin(t) \/ EditBegin(t)
  BY <1>2, <1>4 DEF StopBegin, RedownloadBegin, EditBegin, saveVars
<1>5. CASE \/ RedownloadCopy \/ RedownloadAbort \/ RedownloadRequeue
           \/ EditCopy \/ EditAbort \/ EditCommit(TRUE) \/ EditCommit(FALSE)
  BY <1>2, <1>5
  DEF RedownloadCopy, RedownloadAbort, RedownloadRequeue, EditCopy, EditAbort, EditCommit,
      ScheduleSave, taskVars, saveVars
<1>6. ASSUME NEW t \in Task, WorkerBegin(t) \/ (\E u \in Updates(t) : Report(t, u)) \/ LateReport(t)
      PROVE  FreshDisk'
  BY <1>2, <1>6 DEF WorkerBegin, Report, LateReport, ScheduleSave, taskVars, saveVars
<1>7. ASSUME NEW t \in Task, NEW r \in Results, WorkerReturn(t, r)
      PROVE  FreshDisk'
  BY <1>2, <1>7 DEF WorkerReturn, ScheduleSave, saveVars
<1>8. CASE Reboot \/ UNCHANGED vars
  BY <1>2, <1>8 DEF Reboot, vars, taskVars, saveVars
<1> QED
  BY <1>1, <1>3, <1>4, <1>5, <1>6, <1>7, <1>8 DEF Next, UserCall, Continue, WorkerStep

\* No worker runs at the first start.
LEMMA SlotInit == Init => Fresh /\ FreshDisk /\ Now
<1> SUFFICES ASSUME Init PROVE Fresh /\ FreshDisk /\ Now
  OBVIOUS
<1>1. /\ running = {} /\ cancelled = {} /\ worker = [t \in Task |-> "none"]
      /\ maxRunning \in Nat
  BY LimitsNat DEF Init
<1>2. \A t \in Task : status[t] \notin Active
  BY ConstantsAssumption DEF Init, Active
<1>3. \A t \in Task : t > added => status[t] = "absent"
  BY DEF Init
<1>4. Slotted(status, usesSlot) = {}
  BY <1>2 DEF Slotted
<1>5. Cardinality(Slotted(status, usesSlot)) = 0
  BY <1>4, FS_EmptySet
<1>6. FreshDisk
  BY <1>3 DEF Init, FreshDisk, Rows, Present, NoRow
<1> QED
  BY <1>1, <1>2, <1>3, <1>5, <1>6 DEF Fresh, Now, Sound

\* The slot invariant holds in every reachable state: together with the type,
\* no identifier is in use before Add hands it out, an active task has a worker
\* nobody cancelled, a task never has two workers, no entry of s.running is left
\* without its goroutine, and the slots in use never exceed maxRunning.
THEOREM SlotSafety == Spec => []SlotInv
<1>1. Init => TypeOK /\ Fresh /\ FreshDisk /\ Now
  BY TypeInit, SlotInit
<1>2. (TypeOK /\ Fresh /\ FreshDisk /\ Now) /\ [Next]_vars => (TypeOK /\ Fresh /\ FreshDisk /\ Now)'
  BY TypeStep, SlotStep, DiskStep
<1>3. TypeOK /\ Fresh /\ FreshDisk /\ Now => SlotInv
  BY SlotInvIsSound
<1> QED
  BY <1>1, <1>2, <1>3, PTL DEF Spec

\* At most maxRunning tasks download at a time, whatever the calls, the reports
\* and the returns of workers, for any number of tasks and any limits.
THEOREM SlotBoundHolds == Spec => []SlotBound
<1>1. SlotInv => SlotBound
  BY DEF SlotInv
<1> QED
  BY <1>1, SlotSafety, PTL

\* A task never has two workers at once: scheduleLocked starts one only when
\* runTask of the previous one has deleted its entry.
THEOREM OneWorkerHolds == Spec => []OneWorker
<1>1. SlotInv => OneWorker
  BY DEF SlotInv
<1> QED
  BY <1>1, SlotSafety, PTL

\* A task shown as running or seeding has a worker nobody has cancelled.
THEOREM ActiveHasWorkerHolds == Spec => []ActiveHasWorker
<1>1. SlotInv => ActiveHasWorker
  BY DEF SlotInv
<1> QED
  BY <1>1, SlotSafety, PTL

\* A present task's entry of s.running never outlives its goroutine, so the
\* task can be started again.
THEOREM NoStuckEntryHolds == Spec => []NoStuckEntry
<1>1. SlotInv => NoStuckEntry
  BY DEF SlotInv
<1> QED
  BY <1>1, SlotSafety, PTL
-----------------------------------------------------------------------------
(* The end: StopAll *)

\* Scheduling leaves every task alone that it was not asked to start, and all of
\* them once stopping is set.
LEMMA LaunchEffect ==
  ASSUME NEW W \in SUBSET Task, NEW st, NEW us, NEW rn, NEW wk, NEW mx,
         Launch(W, st, us, rn, wk, mx)
  PROVE  /\ \A t \in Task \ W : status'[t] = st[t] /\ worker'[t] = wk[t]
                                /\ (t \in running' <=> t \in rn)
         /\ stopping => \A t \in Task : status'[t] = st[t] /\ worker'[t] = wk[t]
                                        /\ (t \in running' <=> t \in rn)
<1> DEFINE adm == IF stopping THEN {}
                  ELSE Admitted(W, us, Cardinality(SlotHolders(st, us, rn)), mx)
<1>1. adm \subseteq W /\ (stopping => adm = {})
  BY DEF Admitted
<1> HIDE DEF adm
<1>2. /\ status' = [t \in Task |-> IF t \in adm \cap Registered THEN "running"
                                  ELSE IF t \in adm THEN "failed" ELSE st[t]]
      /\ running' = rn \cup (adm \cap Registered)
      /\ worker' = [t \in Task |-> IF t \notin adm \cap Registered THEN wk[t]
                                  ELSE IF wk[t] = "none" THEN "spawned" ELSE "two"]
  BY DEF Launch, adm
<1> QED
  BY <1>1, <1>2

\* scheduleWaitingLocked touches only tasks that wait.
LEMMA ScheduleWaitingEffect ==
  ASSUME NEW st, NEW us, NEW rn, NEW wk, NEW mx, ScheduleWaiting(st, us, rn, wk, mx)
  PROVE  /\ \A t \in Task : st[t] # "waiting" => status'[t] = st[t] /\ worker'[t] = wk[t]
         /\ \A t \in rn \cap Task : status'[t] = st[t] /\ worker'[t] = wk[t]
         /\ stopping => \A t \in Task : status'[t] = st[t] /\ worker'[t] = wk[t]
<1> DEFINE W == {t \in Task \ rn : st[t] = "waiting"}
<1>1. W \in SUBSET Task /\ \A t \in Task : st[t] # "waiting" \/ t \in rn => t \notin W
  OBVIOUS
<1>2. Launch(W, st, us, rn, wk, mx)
  BY DEF ScheduleWaiting
<1> HIDE DEF W
<1> QED
  BY <1>1, <1>2, LaunchEffect

\* scheduleLocked touches only its task.
LEMMA ScheduleEffect ==
  ASSUME NEW t \in Task, NEW st, NEW us, NEW rn, NEW wk, NEW mx, Schedule(t, st, us, rn, wk, mx)
  PROVE  /\ \A u \in Task \ {t} : status'[u] = st[u] /\ worker'[u] = wk[u]
         /\ stopping => \A u \in Task : status'[u] = st[u] /\ worker'[u] = wk[u]
<1> DEFINE W == {u \in {t} \ rn : st[u] \notin Active \cup {"completed", "absent"}}
<1>1. W \in SUBSET Task /\ \A u \in Task \ {t} : u \notin W
  OBVIOUS
<1>2. Launch(W, st, us, rn, wk, mx)
  BY DEF Schedule
<1> HIDE DEF W
<1>3. /\ \A u \in Task \ W : status'[u] = st[u] /\ worker'[u] = wk[u]
      /\ stopping => \A u \in Task : status'[u] = st[u] /\ worker'[u] = wk[u]
  BY <1>1, <1>2, LaunchEffect
<1> QED
  BY <1>1, <1>3

\* Once stopping is set nothing becomes active and no timer is armed; when
\* StopAll has returned no goroutine is left.
StopInv ==
  /\ editMu = "stopall" => stopping
  /\ stopped => stopping
  /\ stopping => ~timer /\ \A t \in Task : status[t] \notin Active
  /\ stopped => \A t \in Task : worker[t] = "none"

\* What a step after StopBegin keeps
Quiet ==
  /\ stopping' /\ ~timer'
  /\ \A t \in Task : status'[t] \notin Active
  /\ \A t \in Task : worker[t] = "none" => worker'[t] = "none"

\* After StopBegin every step but a restart keeps the scheduler quiet.
LEMMA QuietStep ==
  ASSUME TypeOK, stopping, ~timer, \A t \in Task : status[t] \notin Active,
         [Next]_vars, ~Reboot
  PROVE  Quiet
<1>t. /\ status \in Statuses /\ worker \in Workers /\ added \in Nat /\ stopping \in BOOLEAN
      /\ running \in SUBSET Task
  BY LimitsNat DEF TypeOK, Statuses, Workers
<1>b. stopping = TRUE /\ timer = FALSE
  BY DEF TypeOK
<1>s. ScheduleSave => ~timer'
  BY DEF ScheduleSave
<1>l. lockVars' = lockVars => stopping'
  BY DEF lockVars
<1>1. CASE Add
  <2>1. added + 1 \in Task /\ stopping' /\ ~timer'
    BY <1>1, <1>s, <1>l, <1>t, SlotsAssumption DEF Add, Task
  <2>2. \/ Schedule(added + 1, [status EXCEPT ![added + 1] = "waiting"], usesSlot, running, worker,
                    maxRunning)
        \/ status' = [status EXCEPT ![added + 1] = "failed"] /\ worker' = worker
    BY <1>1 DEF Add
  <2>3. CASE status' = [status EXCEPT ![added + 1] = "failed"] /\ worker' = worker
    BY <1>t, <2>1, <2>3 DEF Quiet, Statuses
  <2> DEFINE st == [status EXCEPT ![added + 1] = "waiting"]
  <2>4. CASE Schedule(added + 1, st, usesSlot, running, worker, maxRunning)
    <3>1. \A t \in Task : st[t] \notin Active
      BY <1>t, <2>1 DEF Statuses
    <3> HIDE DEF st
    <3>2. \A t \in Task : status'[t] = st[t] /\ worker'[t] = worker[t]
      BY <2>1, <2>4, ScheduleEffect
    <3> QED
      BY <2>1, <3>1, <3>2 DEF Quiet
  <2> QED
    BY <2>2, <2>3, <2>4
<1>2. ASSUME NEW m \in Limits, SetMaxRunning(m)
      PROVE  Quiet
  <2> DEFINE st == Pause(status, Overflow(status, usesSlot, running, m))
  <2>1. stopping' /\ ~timer' /\ ScheduleWaiting(st, usesSlot, running, worker, m)
    BY <1>2, <1>s, <1>l DEF SetMaxRunning
  <2>2. \A t \in Task : st[t] \notin Active
    BY DEF Pause
  <2> HIDE DEF st
  <2>3. \A t \in Task : status'[t] = st[t] /\ worker'[t] = worker[t]
    BY <2>1, ScheduleWaitingEffect
  <2> QED
    BY <2>1, <2>2, <2>3 DEF Quiet
<1>3. ASSUME NEW t \in Task, TogglePause(t)
      PROVE  Quiet
  <2>1. stopping' /\ ~timer'
    BY <1>3, <1>s, <1>l DEF TogglePause
  <2> DEFINE st == [status EXCEPT ![t] = "waiting"]
  <2>2. \/ status' = [status EXCEPT ![t] = "paused"] /\ worker' = worker
        \/ Schedule(t, st, usesSlot, running, worker, maxRunning)
    BY <1>3 DEF TogglePause
  <2>3. CASE status' = [status EXCEPT ![t] = "paused"] /\ worker' = worker
    BY <1>t, <2>1, <2>3 DEF Quiet, Statuses
  <2>4. CASE Schedule(t, st, usesSlot, running, worker, maxRunning)
    <3>1. \A u \in Task : st[u] \notin Active
      BY <1>t DEF Statuses
    <3> HIDE DEF st
    <3>2. \A u \in Task : status'[u] = st[u] /\ worker'[u] = worker[u]
      BY <2>4, ScheduleEffect
    <3> QED
      BY <2>1, <3>1, <3>2 DEF Quiet
  <2> QED
    BY <2>2, <2>3, <2>4
<1>4. CASE StartAll
  <2> DEFINE idle == {t \in Task : status[t] \in {"paused", "waiting"}}
             st == [t \in Task |-> IF t \in idle THEN "waiting" ELSE status[t]]
  <2>1. stopping' /\ ~timer' /\ ScheduleWaiting(st, usesSlot, running, worker, maxRunning)
    BY <1>4, <1>s, <1>l DEF StartAll
  <2>2. \A t \in Task : st[t] \notin Active
    OBVIOUS
  <2> HIDE DEF st
  <2>3. \A t \in Task : status'[t] = st[t] /\ worker'[t] = worker[t]
    BY <2>1, ScheduleWaitingEffect
  <2> QED
    BY <2>1, <2>2, <2>3 DEF Quiet
<1>5. CASE PauseAll
  BY <1>5, <1>s, <1>l DEF PauseAll, Pause, Quiet
<1>6. ASSUME NEW t \in Task, Remove(t)
      PROVE  Quiet
  <2> DEFINE st == [status EXCEPT ![t] = "absent"]
  <2>1. stopping' /\ ~timer' /\ ScheduleWaiting(st, usesSlot', running, worker, maxRunning)
    BY <1>6, <1>s, <1>l DEF Remove
  <2>2. \A u \in Task : st[u] \notin Active
    BY <1>t DEF Statuses
  <2> HIDE DEF st
  <2>3. \A u \in Task : status'[u] = st[u] /\ worker'[u] = worker[u]
    BY <2>1, ScheduleWaitingEffect
  <2> QED
    BY <2>1, <2>2, <2>3 DEF Quiet
<1>7. ASSUME NEW t \in Task, RedownloadBegin(t) \/ EditBegin(t)
      PROVE  Quiet
  BY <1>7, <1>b DEF RedownloadBegin, EditBegin, Pause, Quiet, saveVars
<1>8. CASE RedownloadCopy \/ RedownloadAbort \/ EditCopy \/ EditAbort \/ StopEnd \/ UNCHANGED vars
  BY <1>8, <1>b DEF RedownloadCopy, RedownloadAbort, EditCopy, EditAbort, StopEnd, Quiet,
              vars, taskVars, workVars, lockVars, saveVars
<1>9. CASE RedownloadRequeue
  BY <1>9 DEF RedownloadRequeue
<1>10. CASE EditCommit(TRUE) \/ EditCommit(FALSE) \/ SaveTimer
  BY <1>10 DEF EditCommit, SaveTimer
<1>11. CASE StopBegin
  BY <1>11 DEF StopBegin, Pause, Quiet
<1>12. ASSUME NEW t \in Task, WorkerBegin(t) \/ LateReport(t)
       PROVE  Quiet
  BY <1>12, <1>b, <1>t, <1>s DEF WorkerBegin, LateReport, Quiet, Workers,
                           taskVars, workVars, lockVars, saveVars
<1>13. ASSUME NEW t \in Task, NEW u \in Updates(t), Report(t, u)
       PROVE  Quiet
  <2> DEFINE st == [status EXCEPT ![t] = IF u.status # "" /\ @ \in Active THEN u.status ELSE @]
             us == [usesSlot EXCEPT ![t] = IF u.slot = "keep" THEN @ ELSE u.slot = "take"]
             over == IF ~usesSlot[t] /\ us[t] THEN Overflow(st, us, running, maxRunning) ELSE {}
  <2>1. /\ stopping' /\ ~timer'
        /\ \/ ScheduleWaiting(st, us, running, worker, maxRunning)
           \/ status' = Pause(st, over) /\ worker' = worker
    BY <1>13, <1>s, <1>l DEF Report
  <2>2. \A v \in Task : st[v] \notin Active
    BY <1>t DEF Statuses
  <2> HIDE DEF st
  <2>3. CASE status' = Pause(st, over) /\ worker' = worker
    BY <2>1, <2>2, <2>3 DEF Pause, Quiet
  <2>4. CASE ScheduleWaiting(st, us, running, worker, maxRunning)
    <3>1. \A v \in Task : status'[v] = st[v] /\ worker'[v] = worker[v]
      BY <2>4, ScheduleWaitingEffect
    <3> QED
      BY <2>1, <2>2, <3>1 DEF Quiet
  <2> QED
    BY <2>1, <2>3, <2>4
<1>14. ASSUME NEW t \in Task, NEW r \in Results, WorkerReturn(t, r)
       PROVE  Quiet
  <2> DEFINE st == [status EXCEPT ![t] = Outcome(@, r)]
             wk == [worker EXCEPT ![t] = "none"]
             rn == running \ {t}
  <2>1. /\ stopping' /\ ~timer'
        /\ \/ ScheduleWaiting(st, usesSlot, rn, wk, maxRunning)
           \/ status' = status /\ worker' = wk
    BY <1>14, <1>s, <1>l DEF WorkerReturn, saveVars
  <2>2. \A v \in Task : st[v] \notin Active
    BY <1>t DEF Statuses, Outcome, Results
  <2>3. \A v \in Task : worker[v] = "none" => wk[v] = "none"
    BY <1>t DEF Workers
  <2> HIDE DEF st, wk, rn
  <2>4. CASE status' = status /\ worker' = wk
    BY <2>1, <2>3, <2>4 DEF Quiet
  <2>5. CASE ScheduleWaiting(st, usesSlot, rn, wk, maxRunning)
    <3>1. \A v \in Task : status'[v] = st[v] /\ worker'[v] = wk[v]
      BY <2>5, ScheduleWaitingEffect
    <3> QED
      BY <2>1, <2>2, <2>3, <3>1 DEF Quiet
  <2> QED
    BY <2>1, <2>4, <2>5
<1> QED
  BY <1>1, <1>2, <1>3, <1>4, <1>5, <1>6, <1>7, <1>8, <1>9, <1>10, <1>11, <1>12, <1>13, <1>14
     DEF Next, UserCall, Continue, WorkerStep

\* Only StopAll and a restart touch stopping and eventsClosed, and only StopAll
\* keeps editMu for itself.
LEMMA StopFrame ==
  ASSUME [Next]_vars, ~StopBegin, ~StopEnd, ~Reboot
  PROVE  UNCHANGED <<stopping, stopped>> /\ (editMu' = "stopall" => editMu = "stopall")
<1>1. CASE UserCall
  BY Zenon, <1>1 DEF UserCall, Add, SetMaxRunning, StartAll, PauseAll, TogglePause, Remove,
              RedownloadBegin, EditBegin, lockVars
<1>2. CASE Continue
  BY <1>2 DEF Continue, RedownloadCopy, RedownloadAbort, RedownloadRequeue, RedownloadReturn,
              EditCopy, EditAbort, EditCommit, lockVars
<1>3. CASE SaveTimer \/ UNCHANGED vars
  BY <1>3 DEF SaveTimer, vars, lockVars
<1>4. ASSUME NEW t \in Task, WorkerStep(t)
      PROVE  UNCHANGED lockVars
  BY <1>4 DEF WorkerStep, WorkerBegin, Report, LateReport, WorkerReturn
<1> QED
  BY Zenon, <1>1, <1>2, <1>3, <1>4 DEF Next, lockVars

\* After Stop no worker is launched and no save is due.
LEMMA StopStep ==
  ASSUME TypeOK, OneWorker, StopInv, [Next]_vars
  PROVE  StopInv'
<1>1. CASE Reboot
  BY <1>1 DEF Reboot, StopInv
<1>2. CASE StopBegin
  <2>1. /\ stopping' = TRUE /\ timer' = FALSE /\ stopped' = stopped /\ worker' = worker
        /\ status' = Pause(status, {t \in Task : status[t] \in Active \cup {"waiting"}})
    BY <1>2 DEF StopBegin
  <2> QED
    BY <2>1 DEF StopInv, Pause
<1>3. CASE StopEnd
  <2>1. /\ stopping = TRUE /\ stopping' = stopping /\ timer' = FALSE
        /\ status' = status /\ worker' = worker
        /\ \A t \in running : worker[t] = "none"
    BY <1>3 DEF StopEnd, StopInv, TypeOK, WorkerGone, taskVars, workVars
  <2>2. \A t \in Task : worker[t] = "none"
    BY <2>1 DEF OneWorker
  <2> QED
    BY <2>1, <2>2 DEF StopInv
<1>4. CASE ~Reboot /\ ~StopBegin /\ ~StopEnd
  <2>1. UNCHANGED <<stopping, stopped>> /\ (editMu' = "stopall" => editMu = "stopall")
    BY <1>4, StopFrame
  <2>2. CASE ~stopping
    BY <2>1, <2>2 DEF StopInv
  <2>3. CASE stopping
    <3>1. Quiet
      BY <1>4, <2>3, QuietStep DEF StopInv
    <3> QED
      BY <2>1, <3>1 DEF StopInv, Quiet
  <2> QED
    BY <2>2, <2>3
<1> QED
  BY <1>1, <1>2, <1>3, <1>4

\* When StopAll has returned no Worker.Run is left, nothing is active and no late
\* report or call arms the save timer, for any number of tasks and any calls.
THEOREM StopQuiescesHolds == Spec => []StopQuiesces
<1>1. Init => StopInv
  BY DEF Init, StopInv
<1>2. SlotInv /\ StopInv /\ [Next]_vars => StopInv'
  BY StopStep DEF SlotInv
<1>3. StopInv => StopQuiesces
  BY DEF StopInv, StopQuiesces
<1> QED
  BY <1>1, <1>2, <1>3, SlotSafety, PTL DEF Spec

-----------------------------------------------------------------------------
(* Redownload *)

\* While editMu is held, a task that neither is active nor waits is not started:
\* only the holder itself may put it back into the queue.
LEMMA IdleKept ==
  ASSUME TypeOK, [Next]_vars, ~Reboot, ~RedownloadRequeue, editMu # "free",
         NEW t \in Task, t <= added, status[t] \notin Active \cup {"waiting"}
  PROVE  /\ status'[t] \notin Active \cup {"waiting"}
         /\ worker[t] = "none" => worker'[t] = "none"
<1> DEFINE G == /\ status'[t] \notin Active \cup {"waiting"}
                /\ worker[t] = "none" => worker'[t] = "none"
<1> SUFFICES G
  OBVIOUS
<1>t. /\ status \in Statuses /\ worker \in Workers /\ added \in Nat /\ running \in SUBSET Task
      /\ Task \subseteq Nat
  BY LimitsNat DEF TypeOK, Statuses, Workers, Task
<1>1. CASE Add
  <2> DEFINE n == added + 1
             st == [status EXCEPT ![n] = "waiting"]
  <2>1. n \in Task /\ n # t
    BY <1>1, <1>t, SlotsAssumption DEF Add, Task
  <2>2. \/ Schedule(n, st, usesSlot, running, worker, maxRunning)
        \/ status' = [status EXCEPT ![n] = "failed"] /\ worker' = worker
    BY <1>1 DEF Add
  <2>3. st[t] = status[t]
    BY <1>t, <2>1 DEF Statuses
  <2> HIDE DEF st, n
  <2>4. CASE Schedule(n, st, usesSlot, running, worker, maxRunning)
    BY <2>1, <2>3, <2>4, ScheduleEffect
  <2>5. CASE status' = [status EXCEPT ![n] = "failed"] /\ worker' = worker
    BY <1>t, <2>1, <2>5 DEF Statuses
  <2> QED
    BY <2>2, <2>4, <2>5
<1>2. ASSUME NEW m \in Limits, SetMaxRunning(m)
      PROVE  G
  <2> DEFINE st == Pause(status, Overflow(status, usesSlot, running, m))
  <2>1. ScheduleWaiting(st, usesSlot, running, worker, m)
    BY <1>2 DEF SetMaxRunning
  <2>2. st[t] \notin Active \cup {"waiting"}
    BY DEF Pause
  <2> HIDE DEF st
  <2> QED
    BY <2>1, <2>2, ScheduleWaitingEffect
<1>3. ASSUME NEW u \in Task, Remove(u)
      PROVE  G
  <2> DEFINE st == [status EXCEPT ![u] = "absent"]
  <2>1. ScheduleWaiting(st, usesSlot', running, worker, maxRunning)
    BY <1>3 DEF Remove
  <2>2. st[t] \notin Active \cup {"waiting"}
    BY <1>t DEF Statuses
  <2> HIDE DEF st
  <2> QED
    BY <2>1, <2>2, ScheduleWaitingEffect
<1>4. CASE RedownloadCopy \/ RedownloadAbort \/ EditCopy \/ StopEnd \/ SaveTimer \/ UNCHANGED vars
  BY Zenon, <1>4 DEF RedownloadCopy, RedownloadAbort, EditCopy, StopEnd, SaveTimer,
              vars, taskVars, workVars
<1>5. CASE \/ StartAll \/ PauseAll \/ StopBegin \/ EditAbort \/ EditCommit(TRUE) \/ EditCommit(FALSE)
           \/ \E u \in Task : TogglePause(u) \/ RedownloadBegin(u) \/ EditBegin(u)
  BY Zenon, <1>5 DEF StartAll, PauseAll, StopBegin, EditAbort, EditCommit, TogglePause,
              RedownloadBegin, EditBegin
<1>6. ASSUME NEW u \in Task, WorkerBegin(u) \/ LateReport(u)
      PROVE  G
  BY <1>6, <1>t DEF WorkerBegin, LateReport, Workers, taskVars, workVars
<1>7. ASSUME NEW u \in Task, NEW x \in Updates(u), Report(u, x)
      PROVE  G
  <2> DEFINE st == [status EXCEPT ![u] = IF x.status # "" /\ @ \in Active THEN x.status ELSE @]
             us == [usesSlot EXCEPT ![u] = IF x.slot = "keep" THEN @ ELSE x.slot = "take"]
             over == IF ~usesSlot[u] /\ us[u] THEN Overflow(st, us, running, maxRunning) ELSE {}
  <2>1. \/ ScheduleWaiting(st, us, running, worker, maxRunning)
        \/ status' = Pause(st, over) /\ worker' = worker
    BY <1>7 DEF Report
  <2>2. st[t] \notin Active \cup {"waiting"}
    BY <1>t DEF Statuses
  <2> HIDE DEF st, over
  <2>3. CASE status' = Pause(st, over) /\ worker' = worker
    BY <2>2, <2>3 DEF Pause
  <2>4. CASE ScheduleWaiting(st, us, running, worker, maxRunning)
    BY <2>2, <2>4, ScheduleWaitingEffect
  <2> QED
    BY <2>1, <2>3, <2>4
<1>8. ASSUME NEW u \in Task, NEW r \in Results, WorkerReturn(u, r)
      PROVE  G
  <2> DEFINE st == [status EXCEPT ![u] = Outcome(@, r)]
             wk == [worker EXCEPT ![u] = "none"]
             rn == running \ {u}
  <2>1. \/ ScheduleWaiting(st, usesSlot, rn, wk, maxRunning)
        \/ status' = status /\ worker' = wk
    BY <1>8 DEF WorkerReturn
  <2>2. st[t] \notin Active \cup {"waiting"}
    BY <1>t DEF Statuses, Outcome, Results
  <2>3. worker[t] = "none" => wk[t] = "none"
    BY <1>t DEF Workers
  <2> HIDE DEF st, wk, rn
  <2>4. CASE status' = status /\ worker' = wk
    BY <2>3, <2>4
  <2>5. CASE ScheduleWaiting(st, usesSlot, rn, wk, maxRunning)
    BY <2>2, <2>3, <2>5, ScheduleWaitingEffect
  <2> QED
    BY <2>1, <2>4, <2>5
<1> QED
  BY <1>1, <1>2, <1>3, <1>4, <1>5, <1>6, <1>7, <1>8 DEF Next, UserCall, Continue, WorkerStep

\* Redownload holds editMu from its first critical section to its last, EditTask
\* while it waits; the task whose worker Redownload waited for stays out of the
\* queue meanwhile.
RedownloadInv ==
  /\ editMu = "redownload" <=> rd.pc # "idle"
  /\ editMu = "edit" <=> ed.pc = "wait"
  /\ rd.pc # "idle" => rd.task \in Task /\ rd.task <= added
  /\ rd.pc # "idle" /\ rd.waited => status[rd.task] \notin Active \cup {"waiting"}
  /\ rd.pc = "cleanup" /\ rd.waited => worker[rd.task] = "none"

\* What Touch and PauseAll do to the call of EditTask
LEMMA TouchEffect ==
  ASSUME TypeOK
  PROVE  /\ \A t : Touch(t) => /\ ed'.pc = ed.pc /\ ed'.task = ed.task /\ ed'.resume = ed.resume
                               /\ ed'.pausedAll = ed.pausedAll /\ ed'.status = ed.status
                               /\ ed'.waited = ed.waited /\ ed'.started = ed.started
         /\ LET x == [ed EXCEPT !.pausedAll = TRUE]
            IN /\ x.pc = ed.pc /\ x.task = ed.task /\ x.resume = ed.resume
               /\ x.pausedAll = TRUE /\ x.status = ed.status /\ x.waited = ed.waited
               /\ x.started = ed.started
BY DEF Touch, TypeOK, EditCall

\* What a worker that copies its task does to it: nothing but a mark
LEMMA BeginEffect ==
  ASSUME TypeOK, NEW t, WorkerBegin(t)
  PROVE  /\ ed'.pc = ed.pc /\ ed'.task = ed.task /\ ed'.resume = ed.resume
         /\ ed'.pausedAll = ed.pausedAll /\ ed'.status = ed.status /\ ed'.waited = ed.waited
         /\ ed.started => ed'.started
BY DEF WorkerBegin, TypeOK, EditCall

\* The steps that are neither of Redownload nor of EditTask leave the two calls
\* and their lock alone, but for the marks an edit in its callback is given.
LEMMA CallsFrame ==
  ASSUME TypeOK, [Next]_vars, ~Reboot, ~RedownloadCopy, ~RedownloadAbort, ~RedownloadRequeue,
         ~EditCopy, ~EditAbort, ~EditCommit(TRUE), ~EditCommit(FALSE),
         \A t \in Task : ~RedownloadBegin(t) /\ ~EditBegin(t)
  PROVE  /\ rd' = rd /\ added' \in {added, added + 1}
         /\ ed'.pc = ed.pc /\ ed'.task = ed.task /\ ed'.status = ed.status
         /\ ed'.waited = ed.waited /\ (ed.pausedAll => ed'.pausedAll)
         /\ ed.started => ed'.started
         /\ editMu' = editMu \/ {editMu, editMu'} \subseteq {"free", "stopall"}
<1> DEFINE Kept == /\ ed'.pc = ed.pc /\ ed'.task = ed.task /\ ed'.status = ed.status
                   /\ ed'.waited = ed.waited /\ (ed.pausedAll => ed'.pausedAll)
                   /\ ed.started => ed'.started
<1>e. (\A t \in Task : Touch(t) => Kept) /\ (ed' = ed => Kept)
  BY TouchEffect
<1>p. PauseAll => Kept
  <2>1. PauseAll => ed' = ed \/ ed' = [ed EXCEPT !.pausedAll = TRUE]
    BY DEF PauseAll
  <2> QED
    BY <2>1, TouchEffect
<1>1. CASE Add \/ StartAll \/ \E m \in Limits : SetMaxRunning(m)
  BY <1>1 DEF Add, SetMaxRunning, StartAll, lockVars
<1>2. CASE PauseAll
  BY <1>2, <1>p DEF PauseAll, lockVars
<1>3. ASSUME NEW t \in Task, TogglePause(t) \/ Remove(t)
      PROVE  rd' = rd /\ added' = added /\ editMu' = editMu /\ Kept
  BY <1>3, <1>e DEF TogglePause, Remove, lockVars
<1>4. CASE StopBegin \/ StopEnd
  BY <1>4 DEF StopBegin, StopEnd, taskVars
<1>5. CASE SaveTimer \/ UNCHANGED vars
  BY <1>5 DEF SaveTimer, vars, lockVars, taskVars
<1>6. ASSUME NEW t \in Task, WorkerStep(t)
      PROVE  rd' = rd /\ added' = added /\ editMu' = editMu /\ Kept
  <2>1. CASE WorkerBegin(t)
    BY <2>1, BeginEffect DEF WorkerBegin, taskVars, lockVars
  <2>2. CASE ~WorkerBegin(t)
    BY <1>6, <1>e, <2>2 DEF WorkerStep, Report, LateReport, WorkerReturn, taskVars, lockVars
  <2> QED
    BY <2>1, <2>2
<1> QED
  BY <1>1, <1>2, <1>3, <1>4, <1>5, <1>6 DEF Next, UserCall, Continue

\* editMu says which call is under way, and nothing queues the task whose
\* worker Redownload waits for.
LEMMA RedownloadStep ==
  ASSUME TypeOK, Fresh, RedownloadInv, [Next]_vars
  PROVE  RedownloadInv'
<1>t. /\ rd \in RedownloadCall /\ ed \in EditCall /\ added \in Nat /\ Task \subseteq Nat
      /\ status \in Statuses
  BY LimitsNat DEF TypeOK, Statuses, Task
<1>1. CASE Reboot
  BY <1>1 DEF Reboot, RedownloadInv, NoRedownload, NoEdit
<1>2. ASSUME NEW t \in Task, RedownloadBegin(t)
      PROVE  RedownloadInv'
  <2>1. /\ rd'.pc = "wait" /\ rd'.task = t /\ rd'.waited = (t \in running)
        /\ editMu = "free" /\ editMu' = "redownload" /\ ed' = ed /\ added' = added
        /\ status' = Pause(status, {t} \cap running)
        /\ t \in Present
    BY <1>2 DEF RedownloadBegin, NoRedownload
  <2>2. t <= added
    BY <1>t, <2>1 DEF Fresh, Present
  <2> QED
    BY <2>1, <2>2 DEF RedownloadInv, Pause
<1>3. CASE RedownloadCopy
  <2>1. /\ UNCHANGED <<status, worker, ed, added>> /\ rd.pc = "wait"
        /\ rd.waited => worker[rd.task] = "none"
        /\ \/ rd' = NoRedownload /\ editMu' = "free"
           \/ /\ editMu' = editMu /\ rd'.pc = "cleanup" /\ rd'.task = rd.task
              /\ rd'.waited = rd.waited
    BY <1>3, <1>t DEF RedownloadCopy, RedownloadReturn, WorkerGone, RedownloadCall,
                      taskVars, workVars
  <2> QED
    BY <2>1 DEF RedownloadInv, NoRedownload
<1>4. CASE RedownloadAbort \/ RedownloadRequeue
  <2>1. /\ rd' = NoRedownload /\ editMu' = "free" /\ rd.pc = "cleanup"
        /\ ed' = ed \/ Touch(rd.task)
    BY <1>4 DEF RedownloadAbort, RedownloadRequeue, RedownloadReturn
  <2>2. ed'.pc = ed.pc
    BY <1>t, <2>1 DEF Touch, EditCall
  <2> QED
    BY <2>1, <2>2 DEF RedownloadInv, NoRedownload
<1>5. ASSUME NEW t \in Task, EditBegin(t)
      PROVE  RedownloadInv'
  BY <1>5 DEF EditBegin, RedownloadInv, NoEdit
<1>6. CASE EditCopy
  <2>1. /\ ed.pc = "wait" /\ editMu' = "free" /\ rd' = rd /\ ed'.pc # "wait"
    BY <1>6, <1>t DEF EditCopy, NoEdit, EditCall
  <2> QED
    BY <2>1 DEF RedownloadInv
<1>7. CASE EditAbort \/ EditCommit(TRUE) \/ EditCommit(FALSE)
  <2>1. /\ ed.pc = "callback" /\ editMu = "free" /\ editMu' = editMu /\ rd' = rd /\ ed'.pc = "idle"
    BY <1>7 DEF EditAbort, EditCommit, NoEdit, lockVars
  <2> QED
    BY <2>1 DEF RedownloadInv
<1>8. CASE /\ ~Reboot /\ ~RedownloadCopy /\ ~RedownloadAbort /\ ~RedownloadRequeue
           /\ ~EditCopy /\ ~EditAbort /\ ~EditCommit(TRUE) /\ ~EditCommit(FALSE)
           /\ \A t \in Task : ~RedownloadBegin(t) /\ ~EditBegin(t)
  <2>1. /\ rd' = rd /\ added' \in {added, added + 1}
        /\ ed'.pc = ed.pc /\ ed'.task = ed.task
        /\ editMu' = editMu \/ {editMu, editMu'} \subseteq {"free", "stopall"}
    BY <1>8, CallsFrame
  <2>2. /\ editMu' = "redownload" <=> editMu = "redownload"
        /\ editMu' = "edit" <=> editMu = "edit"
    BY <2>1
  <2>3. ASSUME rd.pc # "idle", rd.waited
        PROVE  /\ status'[rd.task] \notin Active \cup {"waiting"}
               /\ worker[rd.task] = "none" => worker'[rd.task] = "none"
    BY <1>8, <2>3, IdleKept DEF RedownloadInv
  <2>4. ASSUME rd.pc # "idle"
        PROVE  rd.task \in Task /\ rd.task <= added'
    <3>1. rd.task \in Task /\ rd.task <= added
      BY <2>4 DEF RedownloadInv
    <3>2. rd.task \in Nat /\ added \in Nat
      BY <1>t, <3>1
    <3> QED
      BY <2>1, <3>1, <3>2
  <2> QED
    BY <2>1, <2>2, <2>3, <2>4 DEF RedownloadInv
<1> QED
  BY <1>1, <1>2, <1>3, <1>4, <1>5, <1>6, <1>7, <1>8

\* Redownload deletes files only when the worker it found has returned, and the
\* task is not started again before Redownload puts it back into the queue.
THEOREM RedownloadAfterExitHolds == Spec => []RedownloadAfterExit
<1>1. Init => RedownloadInv
  BY DEF Init, RedownloadInv, NoRedownload, NoEdit
<1>2. SlotInv /\ RedownloadInv /\ [Next]_vars => RedownloadInv'
  BY RedownloadStep DEF SlotInv
<1>3. RedownloadInv => RedownloadAfterExit
  BY DEF RedownloadInv, RedownloadAfterExit
<1> QED
  BY <1>1, <1>2, <1>3, SlotSafety, PTL DEF Spec
-----------------------------------------------------------------------------
(* What a restart gives back *)

\* A task the store does not have, has no row at all.
AbsentRows == \A t \in Task : disk[t].status = "absent" => disk[t] = NoRow

\* Unless a save is due, the row of a task is up to date; the worker of a task
\* that Redownload or EditTask cancelled without a save arms the timer itself
\* when it returns.
RowsSaved ==
  ~timer /\ ~saveFailed /\ ~stopping =>
    \A t \in Task : \/ t \in Present \cap cancelled /\ worker[t] # "none"
                    \/ Normalised(disk)[t] = Normalised(Rows)[t]

\* A step that changes a task arms the timer, or StopAll will save.  The others
\* change neither the rows nor the store, but for the two calls that cancel a
\* worker and the save itself.
LEMMA SaveFrame ==
  ASSUME TypeOK, StopInv, [Next]_vars
  PROVE  \/ timer' \/ stopping'
         \/ SaveTimer \/ Reboot
         \/ \E t \in Task : RedownloadBegin(t) \/ EditBegin(t)
         \/ /\ UNCHANGED <<status, usesSlot, cfg, disk, timer, saveFailed, stopping>>
            /\ \A t \in Present : t \in cancelled /\ worker[t] # "none"
                                    => t \in cancelled' /\ worker'[t] # "none"
<1>b. stopping \in BOOLEAN /\ timer \in BOOLEAN /\ worker \in Workers
  BY DEF TypeOK, Workers
<1>s. ScheduleSave /\ stopping' = stopping => timer' \/ stopping'
  <2>1. CASE stopping = TRUE
    BY <2>1
  <2>2. CASE stopping = FALSE
    BY <2>2 DEF ScheduleSave
  <2> QED
    BY <1>b, <2>1, <2>2
<1>1. CASE \/ Add \/ StartAll \/ PauseAll \/ \E m \in Limits : SetMaxRunning(m)
           \/ \E t \in Task : TogglePause(t) \/ Remove(t)
  BY <1>1, <1>s DEF Add, StartAll, PauseAll, SetMaxRunning, TogglePause, Remove, lockVars
<1>2. CASE StopBegin \/ StopEnd
  <2>1. CASE StopEnd
    <3>1. stopping' = stopping /\ editMu = "stopall"
      BY <2>1 DEF StopEnd
    <3> QED
      BY <1>b, <3>1 DEF StopInv
  <2> QED
    BY <1>2, <2>1 DEF StopBegin
<1>3. CASE RedownloadRequeue \/ EditCommit(TRUE) \/ EditCommit(FALSE)
  BY <1>3, <1>s DEF RedownloadRequeue, EditCommit, lockVars
<1>4. CASE RedownloadCopy \/ RedownloadAbort \/ EditCopy \/ EditAbort \/ UNCHANGED vars
  BY <1>4 DEF RedownloadCopy, RedownloadAbort, EditCopy, EditAbort,
              vars, taskVars, workVars, saveVars, lockVars
<1>5. ASSUME NEW t \in Task, WorkerBegin(t)
      PROVE  /\ UNCHANGED <<status, usesSlot, cfg, disk, timer, saveFailed, stopping, cancelled>>
             /\ \A u \in Present : worker[u] # "none" => worker'[u] # "none"
  BY <1>5, <1>b DEF WorkerBegin, Workers, Present, taskVars, saveVars, lockVars
<1>6. ASSUME NEW t \in Task, LateReport(t) \/ \E u \in Updates(t) : Report(t, u)
      PROVE  timer' \/ stopping'
  BY <1>6, <1>s DEF LateReport, Report, lockVars
<1>7. ASSUME NEW t \in Task, NEW r \in Results, WorkerReturn(t, r)
      PROVE  \/ timer' \/ stopping'
             \/ /\ UNCHANGED <<status, usesSlot, cfg, disk, timer, saveFailed, stopping>>
                /\ \A u \in Present : u \in cancelled /\ worker[u] # "none"
                                        => u \in cancelled' /\ worker'[u] # "none"
  <2>1. CASE t \in Present
    BY <1>7, <1>s, <2>1 DEF WorkerReturn, lockVars
  <2>2. CASE t \notin Present
    BY <1>7, <1>b, <2>2 DEF WorkerReturn, Workers, Present, saveVars, lockVars
  <2> QED
    BY <2>1, <2>2
<1> QED
  BY <1>1, <1>2, <1>3, <1>4, <1>5, <1>6, <1>7 DEF Next, UserCall, Continue, WorkerStep

\* A row of a task that does not exist is empty.
LEMMA AbsentRowsStep ==
  ASSUME TypeOK, AbsentRows, [Next]_vars
  PROVE  AbsentRows'
<1>1. \A t \in Task : Rows[t].status = "absent" => Rows[t] = NoRow
  BY DEF Rows, Present, NoRow
<1>2. disk' \in {disk, Rows}
  <2>1. CASE SaveTimer \/ StopEnd
    BY <2>1 DEF SaveTimer, StopEnd, SaveTasks
  <2>2. CASE UserCall
    BY Zenon, <2>2 DEF UserCall, Add, SetMaxRunning, StartAll, PauseAll, StopBegin, TogglePause,
                Remove, RedownloadBegin, EditBegin, ScheduleSave, saveVars
  <2>3. CASE \/ RedownloadCopy \/ RedownloadAbort \/ RedownloadRequeue
             \/ EditCopy \/ EditAbort \/ EditCommit(TRUE) \/ EditCommit(FALSE)
    BY <2>3 DEF RedownloadCopy, RedownloadAbort, RedownloadRequeue, EditCopy, EditAbort,
                EditCommit, ScheduleSave, saveVars
  <2>4. ASSUME NEW t \in Task, WorkerStep(t)
        PROVE  disk' = disk
    BY <2>4 DEF WorkerStep, WorkerBegin, Report, LateReport, WorkerReturn, ScheduleSave, saveVars
  <2>5. CASE Reboot \/ UNCHANGED vars
    BY <2>5 DEF Reboot, vars, saveVars
  <2> QED
    BY Zenon, <2>1, <2>2, <2>3, <2>4, <2>5 DEF Next, Continue
<1> QED
  BY <1>1, <1>2 DEF AbsentRows

\* A row is out of date only while a save is due, or while the worker that
\* will arm the timer is on its way out.
LEMMA RowsSavedStep ==
  ASSUME TypeOK, NoStuckEntry, StopInv, AbsentRows, RowsSaved, [Next]_vars
  PROVE  RowsSaved'
<1>1. CASE timer' \/ stopping'
  BY <1>1 DEF RowsSaved
<1>2. CASE SaveTimer
  <2>1. /\ Rows' = Rows
        /\ \/ saveFailed'
           \/ disk' = Rows
    BY <1>2 DEF SaveTimer, SaveTasks, Rows, Present, taskVars
  <2>2. CASE saveFailed'
    BY <2>2 DEF RowsSaved
  <2>3. CASE disk' = Rows
    <3>1. Normalised(disk') = Normalised(Rows')
      BY <2>1, <2>3
    <3>2. Normalised(disk)' = Normalised(disk')  /\ Normalised(Rows)' = Normalised(Rows')
      BY DEF Normalised
    <3> QED
      BY <3>1, <3>2 DEF RowsSaved
  <2> QED
    BY <2>1, <2>2, <2>3
<1>3. CASE Reboot
  <2> DEFINE rows == Normalised(disk)
  <2>1. /\ status' = [t \in Task |-> rows[t].status]
        /\ usesSlot' = [t \in Task |-> rows[t].slot]
        /\ cfg' = [t \in Task |-> rows[t].cfg]
        /\ disk' = disk /\ MaxRestarts > 0
    BY <1>3, LimitsNat DEF Reboot, TypeOK
  <2>2. rows \in [Task -> Row] /\ disk \in [Task -> Row]
    BY RowTypes DEF TypeOK
  <2>3. \A t \in Task : /\ rows[t].status = "absent" => rows[t] = NoRow
                        /\ rows[t].status \notin Active
    <3>1. \A t \in Task : rows[t].status = "absent" => disk[t].status = "absent"
      BY <2>2 DEF Normalised, Row
    <3>2. \A t \in Task : disk[t].status = "absent" => rows[t] = disk[t]
      BY <2>2, RowTypes
    <3>3. \A t \in Task : rows[t].status \notin Active
      BY <2>2, RowTypes
    <3> QED
      BY <3>1, <3>2, <3>3 DEF AbsentRows
  <2>4. Rows' = rows
    <3>1. ASSUME NEW t \in Task
          PROVE  Rows'[t] = rows[t]
      <4>1. rows[t] \in Row
        BY <2>2
      <4>2. rows[t] = [status |-> rows[t].status, slot |-> rows[t].slot, cfg |-> rows[t].cfg]
        BY <4>1 DEF Row
      <4> HIDE DEF rows
      <4>3. CASE rows[t].status = "absent"
        BY <2>1, <2>3, <4>3 DEF Rows, Present
      <4>4. CASE rows[t].status # "absent"
        BY <2>1, <4>2, <4>4 DEF Rows, Present
      <4> QED
        BY <4>3, <4>4
    <3>2. Rows' = [t \in Task |-> Rows'[t]]
      BY DEF Rows
    <3> HIDE DEF rows
    <3>3. rows = [t \in Task |-> rows[t]]
      BY <2>2
    <3> QED
      BY <3>1, <3>2, <3>3
  <2>5. ASSUME NEW t \in Task
        PROVE  Normalised(rows)[t] = rows[t]
    <3> HIDE DEF rows
    <3> QED
      BY <2>3 DEF Normalised
  <2>6. \A t \in Task : Normalised(disk)'[t] = Normalised(Rows)'[t]
    <3>1. Normalised(disk)' = rows
      BY <2>1 DEF Normalised
    <3>2. Normalised(Rows)' = Normalised(rows)
      BY <2>4 DEF Normalised
    <3> HIDE DEF rows
    <3> QED
      BY <2>5, <3>1, <3>2
  <2> QED
    BY <2>6 DEF RowsSaved
<1>4. ASSUME NEW t \in Task, RedownloadBegin(t) \/ EditBegin(t)
      PROVE  RowsSaved'
  <2>1. /\ UNCHANGED <<usesSlot, cfg, disk, timer, saveFailed, stopping, worker>>
        /\ status' = Pause(status, {t} \cap running)
        /\ cancelled' = cancelled \cup ({t} \cap running)
        /\ t \in Present
    BY <1>4 DEF RedownloadBegin, EditBegin, saveVars
  <2>2. CASE timer \/ saveFailed \/ stopping
    BY <2>1, <2>2 DEF RowsSaved
  <2>3. CASE ~timer /\ ~saveFailed /\ ~stopping
    <3>1. ASSUME NEW u \in Task, u # t \/ t \notin running
          PROVE  status'[u] = status[u] /\ Rows'[u] = Rows[u]
      BY <2>1, <3>1 DEF Pause, Rows, Present
    <3>2. Normalised(disk)' = Normalised(disk)
      BY <2>1 DEF Normalised
    <3>3. ASSUME NEW u \in Task, Rows'[u] = Rows[u]
          PROVE  Normalised(Rows)'[u] = Normalised(Rows)[u]
      BY <3>3 DEF Normalised
    <3>4. t \in running => t \in Present' \cap cancelled' /\ worker'[t] # "none"
      BY <2>1 DEF NoStuckEntry, Present, Pause
    <3>5. ASSUME NEW u \in Task, u # t \/ t \notin running
          PROVE  \/ u \in Present' \cap cancelled' /\ worker'[u] # "none"
                 \/ Normalised(disk)'[u] = Normalised(Rows)'[u]
      <4>1. \/ u \in Present \cap cancelled /\ worker[u] # "none"
            \/ Normalised(disk)[u] = Normalised(Rows)[u]
        BY <2>3 DEF RowsSaved
      <4>2. status'[u] = status[u] /\ Rows'[u] = Rows[u]
        BY <3>1, <3>5
      <4>3. u \in Present => u \in Present'
        BY <4>2 DEF Present
      <4>4. Normalised(Rows)'[u] = Normalised(Rows)[u]
        BY <3>3, <4>2
      <4> QED
        BY <2>1, <3>2, <4>1, <4>3, <4>4
    <3> QED
      BY <3>4, <3>5 DEF RowsSaved
  <2> QED
    BY <2>2, <2>3
<1>5. CASE /\ UNCHANGED <<status, usesSlot, cfg, disk, timer, saveFailed, stopping>>
           /\ \A t \in Present : t \in cancelled /\ worker[t] # "none"
                                   => t \in cancelled' /\ worker'[t] # "none"
  <2>1. Present' = Present /\ Rows' = Rows
    BY <1>5 DEF Present, Rows
  <2>2. Normalised(disk)' = Normalised(disk) /\ Normalised(Rows)' = Normalised(Rows)
    BY <1>5, <2>1 DEF Normalised
  <2> QED
    BY <1>5, <2>1, <2>2 DEF RowsSaved
<1> QED
  BY <1>1, <1>2, <1>3, <1>4, <1>5, SaveFrame

\* When no save is under way the store holds what the user sees, up to the pause
\* of active tasks: no handler changes a task without arming the timer, and a
\* restart starts from the rows it would write.
THEOREM RestartGivesBackHolds == Spec => []RestartGivesBack
<1>1. Init => StopInv /\ AbsentRows /\ RowsSaved
  <2> SUFFICES ASSUME Init PROVE StopInv /\ AbsentRows /\ RowsSaved
    OBVIOUS
  <2>1. StopInv
    BY DEF Init, StopInv
  <2>2. disk = Rows
    BY DEF Init
  <2>3. AbsentRows
    BY <2>2 DEF AbsentRows, Rows, Present, NoRow
  <2> QED
    BY <2>1, <2>2, <2>3 DEF RowsSaved
<1>2. SlotInv /\ (StopInv /\ AbsentRows /\ RowsSaved) /\ [Next]_vars
        => (StopInv /\ AbsentRows /\ RowsSaved)'
  BY StopStep, AbsentRowsStep, RowsSavedStep DEF SlotInv
<1>3. RowsSaved => RestartGivesBack
  <2> SUFFICES ASSUME RowsSaved, ~timer, ~saveFailed, ~stopping,
                      \A t \in Present \cap cancelled : worker[t] = "none"
               PROVE  Normalised(disk) = Normalised(Rows)
    BY DEF RestartGivesBack
  <2>1. \A t \in Task : Normalised(disk)[t] = Normalised(Rows)[t]
    BY DEF RowsSaved
  <2>2. \A d : Normalised(d) = [t \in Task |-> Normalised(d)[t]]
    BY DEF Normalised
  <2> QED
    BY <2>1, <2>2
<1> QED
  BY <1>1, <1>2, <1>3, SlotSafety, PTL DEF Spec
-----------------------------------------------------------------------------
(* The queue *)

\* A nonempty set of tasks has an earliest one in arrival order.
LEMMA EarliestTask ==
  ASSUME NEW S \in SUBSET Task, S # {}
  PROVE  \E x \in S : \A y \in S : x <= y
<1> DEFINE R == {ss \in Nat \X Nat : ss[1] < ss[2]}
<1>1. IsWellFoundedOn(R, Nat)
  BY NatLessThanWellFounded DEF OpToRel
<1>2. S \subseteq Nat
  BY SlotsAssumption DEF Task
<1> HIDE DEF R
<1>3. PICK x \in S : \A y \in S : ~(<<y, x>> \in R)
  BY <1>1, <1>2, WFMin
<1>4. ASSUME NEW y \in S
      PROVE  x <= y
  <2>1. ~(<<y, x>> \in R) /\ y \in Nat /\ x \in Nat
    BY <1>2, <1>3
  <2>2. ~(y < x)
    BY <2>1 DEF R
  <2> QED
    BY <2>1, <2>2
<1> QED
  BY <1>4

\* The converse of PrefixBound: where some task has k earlier ones in S, those
\* with fewer than k earlier ones are at least k.
LEMMA PrefixFull ==
  ASSUME NEW S \in SUBSET Task, NEW k \in Nat, NEW t \in Task, Cardinality(Earlier(S, t)) >= k
  PROVE  Cardinality({u \in S : Cardinality(Earlier(S, u)) < k}) >= k
<1> DEFINE N == {u \in S : Cardinality(Earlier(S, u)) < k}
<1>1. Task \subseteq Nat
  BY SlotsAssumption DEF Task
<1>2. \A u \in Task : Earlier(S, u) \in SUBSET Task /\ Cardinality(Earlier(S, u)) \in Nat
  <2>1. \A u \in Task : Earlier(S, u) \in SUBSET Task
    BY DEF Earlier
  <2> QED
    BY <2>1, TasksFinite
<1>3. N \in SUBSET Task /\ Cardinality(N) \in Nat
  BY TasksFinite
<1>4. ASSUME NEW u \in Task, Earlier(S, u) \subseteq N, Cardinality(Earlier(S, u)) >= k
      PROVE  Cardinality(N) >= k
  <2> HIDE DEF N
  <2>1. Cardinality(Earlier(S, u)) <= Cardinality(N)
    BY <1>3, <1>4, TasksMonotone
  <2> QED
    BY <1>2, <1>3, <1>4, <2>1
<1>5. CASE Earlier(S, t) \subseteq N
  BY <1>4, <1>5
<1>6. CASE ~(Earlier(S, t) \subseteq N)
  <2> DEFINE M == Earlier(S, t) \ N
  <2>1. M \in SUBSET Task /\ M # {}
    BY <1>2, <1>6
  <2> HIDE DEF M
  <2>2. PICK u \in M : \A v \in M : u <= v
    BY <2>1, EarliestTask
  <2>3. u \in S /\ u \in Task /\ u < t /\ ~(Cardinality(Earlier(S, u)) < k)
    BY <2>2 DEF M, Earlier
  <2>4. Earlier(S, u) \subseteq N
    <3> SUFFICES ASSUME NEW v \in Earlier(S, u), v \notin N PROVE FALSE
      OBVIOUS
    <3>1. v \in S /\ v < u /\ v \in Nat /\ u \in Nat /\ t \in Nat
      BY <1>1, <2>3 DEF Earlier
    <3>2. v \in M
      BY <2>3, <3>1 DEF M, Earlier
    <3>3. u <= v
      BY <2>2, <3>2
    <3> QED
      BY <3>1, <3>3
  <2>5. Cardinality(Earlier(S, u)) >= k
    BY <1>2, <2>3
  <2> QED
    BY <1>4, <2>3, <2>4, <2>5
<1> QED
  BY <1>5, <1>6

\* No task waits that could run: WaitsOnlyForSlot of the values a handler has
\* computed.
Served(st, us, rn, mx, S) ==
  \A t \in S \ rn : st[t] = "waiting" => us[t] /\ Cardinality(SlotHolders(st, us, rn)) >= mx

\* scheduleLocked leaves a task of W waiting only when the slots are full; tasks
\* outside of W go on waiting for the slots they waited for.
LEMMA LaunchServes ==
  ASSUME ~stopping,
         NEW W \in SUBSET Task, NEW st \in Statuses, NEW us \in [Task -> BOOLEAN],
         NEW rn \in SUBSET Task, NEW wk, NEW mx \in Nat,
         W \cap rn = {}, \A t \in W : st[t] # "absent",
         Served(st, us, rn, mx, Task \ W),
         Launch(W, st, us, rn, wk, mx)
  PROVE  Served(status', us, running', mx, Task)
<1> DEFINE H == SlotHolders(st, us, rn)
           h == Cardinality(H)
           S == {u \in W \cap Registered : us[u]}
           adm == Admitted(W, us, h, mx)
           N == {u \in S : h + Cardinality(Earlier(S, u)) < mx}
           H2 == SlotHolders(status', us, running')
<1>1. /\ status' = [t \in Task |-> IF t \in adm \cap Registered THEN "running"
                                  ELSE IF t \in adm THEN "failed" ELSE st[t]]
      /\ running' = rn \cup (adm \cap Registered)
  BY DEF Launch
<1>2. adm \subseteq W /\ adm = {t \in W : us[t] => h + Cardinality(Earlier(S, t)) < mx}
  BY DEF Admitted
<1>3. H \in SUBSET Task /\ H \cap W = {} /\ H \subseteq rn
  BY DEF SlotHolders
<1>4. h \in Nat
  BY <1>3, TasksFinite
<1>5. S \in SUBSET Task /\ S \subseteq W
  OBVIOUS
<1>6. \A t \in Task : Cardinality(Earlier(S, t)) \in Nat
  <2>1. \A t \in Task : Earlier(S, t) \in SUBSET Task
    BY <1>5 DEF Earlier
  <2> QED
    BY <2>1, TasksFinite
<1>7. N = {t \in adm \cap Registered : us[t]}
  BY <1>2
<1> HIDE DEF h, S, adm, H
<1>8. H \cup N \subseteq H2 /\ H2 \in SUBSET Task
  <2>1. running' \in SUBSET Task
    BY <1>1, <1>2
  <2>2. \A u \in H : u \in running' /\ status'[u] # "absent" /\ us[u]
    BY <1>1, <1>2, <1>3 DEF H, SlotHolders
  <2>3. \A u \in N : u \in running' /\ status'[u] # "absent" /\ us[u]
    BY <1>1, <1>2, <1>7
  <2> HIDE DEF N
  <2> QED
    BY <2>1, <2>2, <2>3 DEF SlotHolders
<1>9. N \in SUBSET Task /\ N \cap H = {}
  BY <1>3, <1>5
<1> HIDE DEF N, H2
<1>10. /\ Cardinality(N) \in Nat /\ Cardinality(H2) \in Nat
       /\ h + Cardinality(N) <= Cardinality(H2)
  <2>1. IsFiniteSet(H) /\ IsFiniteSet(N)
    BY <1>3, <1>9, TasksFinite
  <2>2. Cardinality(H \cup N) = h + Cardinality(N)
    <3>1. Cardinality(H \cup N) = Cardinality(H) + Cardinality(N) - Cardinality(H \cap N)
      BY <2>1, FS_Union
    <3>2. Cardinality(H \cap N) = 0
      BY <1>9, FS_EmptySet
    <3>3. Cardinality(N) \in Nat
      BY <1>9, TasksFinite
    <3> QED
      BY <1>4, <3>1, <3>2, <3>3 DEF h
  <2>3. Cardinality(H \cup N) <= Cardinality(H2)
    BY <1>8, TasksMonotone
  <2> QED
    BY <1>8, <1>9, <2>2, <2>3, TasksFinite
<1>11. ASSUME NEW t \in Task \ running', status'[t] = "waiting"
       PROVE  us[t] /\ Cardinality(H2) >= mx
  <2>1. t \notin adm /\ st[t] = "waiting" /\ t \notin rn
    BY <1>1, <1>11
  <2>2. CASE t \notin W
    <3>1. us[t] /\ h >= mx
      BY <2>1, <2>2 DEF Served, h, H
    <3> QED
      BY <1>4, <1>10, <3>1
  <2>3. CASE t \in W
    <3>1. us[t] /\ ~(h + Cardinality(Earlier(S, t)) < mx)
      BY <1>2, <2>1, <2>3
    <3>2. CASE h >= mx
      BY <1>4, <1>10, <3>1, <3>2
    <3>3. CASE h < mx
      <4> DEFINE k == mx - h
      <4>1. k \in Nat /\ Cardinality(Earlier(S, t)) >= k
        BY <1>4, <1>6, <3>1, <3>3
      <4>2. N = {u \in S : Cardinality(Earlier(S, u)) < k}
        BY <1>4, <1>5, <1>6 DEF N
      <4>3. Cardinality(N) >= k
        <5> HIDE DEF k
        <5> QED
          BY <1>5, <4>1, <4>2, PrefixFull
      <4> QED
        BY <1>4, <1>10, <3>1, <4>3
    <3> QED
      BY <1>4, <3>2, <3>3
  <2> QED
    BY <2>2, <2>3
<1> QED
  BY <1>11 DEF Served, H2

\* scheduleWaitingLocked leaves a task waiting only when all slots are taken.
LEMMA ScheduleWaitingServes ==
  ASSUME ~stopping,
         NEW st \in Statuses, NEW us \in [Task -> BOOLEAN], NEW rn \in SUBSET Task, NEW wk,
         NEW mx \in Nat, ScheduleWaiting(st, us, rn, wk, mx)
  PROVE  Served(status', us, running', mx, Task)
<1> DEFINE W == {t \in Task \ rn : st[t] = "waiting"}
<1>1. /\ W \in SUBSET Task /\ W \cap rn = {} /\ \A t \in W : st[t] # "absent"
  OBVIOUS
<1>2. Served(st, us, rn, mx, Task \ W)
  BY DEF Served
<1>3. Launch(W, st, us, rn, wk, mx)
  BY DEF ScheduleWaiting
<1> HIDE DEF W
<1> QED
  BY <1>1, <1>2, <1>3, LaunchServes

\* scheduleLocked leaves its task waiting only when all slots are taken.
LEMMA ScheduleServes ==
  ASSUME ~stopping, NEW t \in Task,
         NEW st \in Statuses, NEW us \in [Task -> BOOLEAN], NEW rn \in SUBSET Task, NEW wk,
         NEW mx \in Nat, Schedule(t, st, us, rn, wk, mx), st[t] = "waiting",
         Served(st, us, rn, mx, Task \ {t})
  PROVE  Served(status', us, running', mx, Task)
<1> DEFINE W == {u \in {t} \ rn : st[u] \notin Active \cup {"completed", "absent"}}
<1>1. /\ W \in SUBSET Task /\ W \cap rn = {} /\ \A u \in W : st[u] # "absent"
      /\ t \in W \/ t \in rn
  OBVIOUS
<1>2. Served(st, us, rn, mx, Task \ W)
  BY <1>1 DEF Served
<1>3. Launch(W, st, us, rn, wk, mx)
  BY DEF Schedule
<1> HIDE DEF W
<1> QED
  BY <1>1, <1>2, <1>3, LaunchServes

\* A handler that starts nobody, frees no slot and puts nobody into the queue
\* leaves no task waiting that could run.
LEMMA StillServed ==
  ASSUME TypeOK, NEW S \in SUBSET Task, NEW st, NEW us, NEW rn \in SUBSET Task,
         Served(status, usesSlot, running, maxRunning, Task),
         \A t \in SlotHolders(status, usesSlot, running) : t \in rn /\ st[t] # "absent" /\ us[t],
         \A t \in S \ rn : st[t] = "waiting" =>
           status[t] = "waiting" /\ t \notin running /\ us[t] = usesSlot[t]
  PROVE  Served(st, us, rn, maxRunning, S)
<1> DEFINE H == SlotHolders(status, usesSlot, running)
           H2 == SlotHolders(st, us, rn)
<1>1. H \subseteq H2 /\ H2 \in SUBSET Task /\ H \in SUBSET Task
  BY DEF SlotHolders
<1>2. Cardinality(H) <= Cardinality(H2) /\ Cardinality(H) \in Nat /\ Cardinality(H2) \in Nat
  BY <1>1, TasksMonotone, TasksFinite
<1>3. maxRunning \in Nat
  BY LimitsNat DEF TypeOK
<1> HIDE DEF H, H2
<1>4. ASSUME NEW t \in S \ rn, st[t] = "waiting"
      PROVE  us[t] /\ Cardinality(H2) >= maxRunning
  <2>1. usesSlot[t] /\ us[t] = usesSlot[t] /\ Cardinality(H) >= maxRunning
    BY <1>4 DEF Served, H
  <2> QED
    BY <1>2, <1>3, <2>1
<1> QED
  BY <1>4 DEF Served, H2
\* The calls that go through the whole queue
Sweep == StartAll \/ (\E m \in Limits : SetMaxRunning(m)) \/ (\E t \in Task : Remove(t))

\* Every step but a restart leaves no task waiting that could run, if there was
\* none before or it goes through the queue.
LEMMA QueueStep ==
  ASSUME TypeOK, Fresh, OneWorker, [Next]_vars, ~Reboot, WaitsOnlyForSlot \/ Sweep
  PROVE  WaitsOnlyForSlot'
<1> DEFINE G == Served(status', usesSlot', running', maxRunning', Task)
           F == Served(status, usesSlot, running, maxRunning, Task)
<1>t. /\ status \in Statuses /\ usesSlot \in [Task -> BOOLEAN] /\ running \in SUBSET Task
      /\ worker \in Workers /\ maxRunning \in Nat /\ added \in Nat /\ Task \subseteq Nat
      /\ stopping \in BOOLEAN
  BY LimitsNat DEF TypeOK, Statuses, Workers, Task
<1>h. \A t \in SlotHolders(status, usesSlot, running) :
        t \in running /\ status[t] # "absent" /\ usesSlot[t]
  BY DEF SlotHolders
<1>w. WaitsOnlyForSlot /\ ~stopping => F
  <2> SUFFICES ASSUME WaitsOnlyForSlot, ~stopping,
                      NEW t \in Task \ running, status[t] = "waiting"
               PROVE  usesSlot[t]
                      /\ Cardinality(SlotHolders(status, usesSlot, running)) >= maxRunning
    BY DEF Served
  <2>1. usesSlot[t] /\ ~(Cardinality(SlotHolders(status, usesSlot, running)) < maxRunning)
    BY DEF WaitsOnlyForSlot, CanStart
  <2>2. SlotHolders(status, usesSlot, running) \in SUBSET Task
    BY <1>t DEF SlotHolders
  <2>3. Cardinality(SlotHolders(status, usesSlot, running)) \in Nat
    BY <2>2, TasksFinite
  <2> QED
    BY <1>t, <2>1, <2>3
<1>g. G => WaitsOnlyForSlot'
  <2> SUFFICES ASSUME G, NEW t \in Task, CanStart(t)' PROVE FALSE
    BY DEF WaitsOnlyForSlot
  <2> DEFINE c == Cardinality(SlotHolders(status', usesSlot', running'))
  <2>1. usesSlot'[t] /\ c >= maxRunning' /\ c < maxRunning'
    BY DEF Served, CanStart
  <2>2. TypeOK'
    BY TypeStep
  <2>3. SlotHolders(status', usesSlot', running') \in SUBSET Task /\ maxRunning' \in Nat
    BY <2>2, LimitsNat DEF TypeOK, SlotHolders
  <2>4. c \in Nat
    BY <2>3, TasksFinite
  <2> HIDE DEF c
  <2> QED
    BY <2>1, <2>3, <2>4
<1> SUFFICES ASSUME ~stopping' PROVE G
  BY <1>g DEF WaitsOnlyForSlot
<1>s. ~stopping
  <2>1. ~StopBegin
    BY DEF StopBegin
  <2>2. stopping' = stopping
    BY <2>1, StopFrame DEF StopEnd
  <2> QED
    BY <2>2
<1>1. CASE StartAll
  <2> DEFINE idle == {t \in Task : status[t] \in {"paused", "waiting"}}
             st == [t \in Task |-> IF t \in idle THEN "waiting" ELSE status[t]]
  <2>1. /\ ScheduleWaiting(st, usesSlot, running, worker, maxRunning)
        /\ usesSlot' = usesSlot /\ maxRunning' = maxRunning
    BY <1>1 DEF StartAll
  <2>2. st \in Statuses
    BY <1>t DEF Statuses, Status
  <2> HIDE DEF st
  <2> QED
    BY <1>s, <1>t, <2>1, <2>2, ScheduleWaitingServes
<1>2. ASSUME NEW m \in Limits, SetMaxRunning(m)
      PROVE  G
  <2> DEFINE st == Pause(status, Overflow(status, usesSlot, running, m))
  <2>1. /\ ScheduleWaiting(st, usesSlot, running, worker, m)
        /\ usesSlot' = usesSlot /\ maxRunning' = m
    BY <1>2 DEF SetMaxRunning
  <2>2. st \in Statuses /\ m \in Nat
    BY <1>t, PauseType, LimitsNat
  <2> HIDE DEF st
  <2> QED
    BY <1>s, <1>t, <2>1, <2>2, ScheduleWaitingServes
<1>3. ASSUME NEW t \in Task, Remove(t)
      PROVE  G
  <2> DEFINE st == [status EXCEPT ![t] = "absent"]
             us == [usesSlot EXCEPT ![t] = TRUE]
  <2>1. /\ ScheduleWaiting(st, us, running, worker, maxRunning)
        /\ usesSlot' = us /\ maxRunning' = maxRunning
    BY <1>3 DEF Remove
  <2>2. st \in Statuses /\ us \in [Task -> BOOLEAN]
    BY <1>t DEF Statuses
  <2> HIDE DEF st, us
  <2> QED
    BY <1>s, <1>t, <2>1, <2>2, ScheduleWaitingServes
<1> SUFFICES ASSUME F, ~Sweep PROVE G
  BY <1>s, <1>w, <1>1, <1>2, <1>3 DEF Sweep
<1>4. CASE Add
  <2> DEFINE n == added + 1
             st == [status EXCEPT ![n] = "waiting"]
  <2>1. n \in Task /\ n \notin running /\ n > added
    BY <1>4, <1>t, SlotsAssumption DEF Add, Task, Fresh
  <2>2. /\ \/ Schedule(n, st, usesSlot, running, worker, maxRunning)
           \/ status' = [status EXCEPT ![n] = "failed"] /\ running' = running
        /\ usesSlot' = usesSlot /\ maxRunning' = maxRunning
    BY <1>4 DEF Add
  <2>3. /\ st \in Statuses /\ st[n] = "waiting" /\ \A t \in Task \ {n} : st[t] = status[t]
    BY <1>t, <2>1 DEF Statuses, Status
  <2>4. CASE status' = [status EXCEPT ![n] = "failed"] /\ running' = running
    <3>1. \A t \in Task \ {n} : status'[t] = status[t]
      BY <1>t, <2>4 DEF Statuses
    <3>2. status'[n] = "failed"
      BY <1>t, <2>1, <2>4 DEF Statuses
    <3> HIDE DEF n
    <3> QED
      BY <1>t, <1>h, <2>1, <2>2, <2>4, <3>1, <3>2, StillServed
  <2> HIDE DEF st, n
  <2>5. CASE Schedule(n, st, usesSlot, running, worker, maxRunning)
    <3>1. Served(st, usesSlot, running, maxRunning, Task \ {n})
      BY <1>t, <1>h, <2>1, <2>3, StillServed
    <3> QED
      BY <1>s, <1>t, <2>1, <2>2, <2>3, <2>5, <3>1, ScheduleServes
  <2> QED
    BY <2>2, <2>4, <2>5
<1>5. ASSUME NEW t \in Task, TogglePause(t)
      PROVE  G
  <2> DEFINE st == [status EXCEPT ![t] = "waiting"]
  <2>1. /\ \/ Schedule(t, st, usesSlot, running, worker, maxRunning)
           \/ status' = [status EXCEPT ![t] = "paused"] /\ running' = running
        /\ usesSlot' = usesSlot /\ maxRunning' = maxRunning
    BY <1>5 DEF TogglePause
  <2>2. st \in Statuses /\ st[t] = "waiting" /\ \A u \in Task \ {t} : st[u] = status[u]
    BY <1>t DEF Statuses, Status
  <2>3. CASE status' = [status EXCEPT ![t] = "paused"] /\ running' = running
    <3>1. status'[t] = "paused" /\ \A u \in Task \ {t} : status'[u] = status[u]
      BY <1>t, <2>3 DEF Statuses
    <3> QED
      BY <1>t, <1>h, <2>1, <2>3, <3>1, StillServed
  <2> HIDE DEF st
  <2>4. CASE Schedule(t, st, usesSlot, running, worker, maxRunning)
    <3>1. Served(st, usesSlot, running, maxRunning, Task \ {t})
      BY <1>t, <1>h, <2>2, StillServed
    <3> QED
      BY <1>s, <1>t, <2>1, <2>2, <2>4, <3>1, ScheduleServes
  <2> QED
    BY <2>1, <2>3, <2>4
<1>6. CASE PauseAll
  <2>1. /\ status' = Pause(status, (running \cap Present) \cup {t \in Task : status[t] = "waiting"})
    BY <1>6 DEF PauseAll
  <2>2. \A t \in Task : status'[t] # "waiting"
    BY <2>1 DEF Pause
  <2> QED
    BY <2>2 DEF Served
<1>7. ASSUME NEW t \in Task, RedownloadBegin(t) \/ EditBegin(t)
      PROVE  G
  <2>1. /\ UNCHANGED <<usesSlot, running, maxRunning>>
        /\ status' = Pause(status, {t} \cap running)
    BY <1>7 DEF RedownloadBegin, EditBegin
  <2>2. /\ \A u \in Task : status'[u] \in {status[u], "paused"}
    BY <2>1 DEF Pause
  <2> QED
    BY <1>t, <1>h, <2>1, <2>2, StillServed
<1>8. CASE UNCHANGED <<status, usesSlot, running, maxRunning>>
  BY <1>8
<1>9. CASE \/ RedownloadCopy \/ RedownloadAbort \/ EditCopy \/ EditAbort \/ StopEnd \/ SaveTimer
           \/ UNCHANGED vars \/ \E t \in Task : WorkerBegin(t) \/ LateReport(t)
  BY <1>8, <1>9 DEF RedownloadCopy, RedownloadAbort, EditCopy, EditAbort, StopEnd, SaveTimer,
                    WorkerBegin, LateReport, vars, taskVars, workVars
<1>10. CASE RedownloadRequeue
  <2> DEFINE t == rd.task
             st == [status EXCEPT ![t] = "waiting"]
             us == [usesSlot EXCEPT ![t] = t \in BT \cap Registered \/ rd.slot]
  <2>1. /\ ScheduleWaiting(st, us, running, worker, maxRunning)
        /\ usesSlot' = us /\ maxRunning' = maxRunning
    BY <1>10 DEF RedownloadRequeue
  <2>2. st \in Statuses /\ us \in [Task -> BOOLEAN]
    BY <1>t DEF Statuses, Status, TypeOK, RedownloadCall
  <2> HIDE DEF st, us
  <2> QED
    BY <1>s, <1>t, <2>1, <2>2, ScheduleWaitingServes
<1>11. CASE EditCommit(TRUE) \/ EditCommit(FALSE)
  <2> DEFINE t == ed.task
             st == [status EXCEPT ![t] = "waiting"]
  <2>1. /\ \/ Schedule(t, st, usesSlot, running, worker, maxRunning)
           \/ status' = [status EXCEPT ![t] = "paused"] /\ running' = running
        /\ usesSlot' = usesSlot /\ maxRunning' = maxRunning /\ t \in Task
    BY <1>11 DEF EditCommit, Present
  <2>2. st \in Statuses /\ st[t] = "waiting" /\ \A u \in Task \ {t} : st[u] = status[u]
    BY <1>t, <2>1 DEF Statuses, Status
  <2>3. CASE status' = [status EXCEPT ![t] = "paused"] /\ running' = running
    <3>1. status'[t] = "paused" /\ \A u \in Task \ {t} : status'[u] = status[u]
      BY <1>t, <2>1, <2>3 DEF Statuses
    <3> HIDE DEF t
    <3> QED
      BY <1>t, <1>h, <2>1, <2>3, <3>1, StillServed
  <2> HIDE DEF st, t
  <2>4. CASE Schedule(t, st, usesSlot, running, worker, maxRunning)
    <3>1. Served(st, usesSlot, running, maxRunning, Task \ {t})
      BY <1>t, <1>h, <2>1, <2>2, StillServed
    <3> QED
      BY <1>s, <1>t, <2>1, <2>2, <2>4, <3>1, ScheduleServes
  <2> QED
    BY <2>1, <2>3, <2>4
<1>12. ASSUME NEW t \in Task, NEW u \in Updates(t), Report(t, u)
       PROVE  G
  <2> DEFINE st == [status EXCEPT ![t] = IF u.status # "" /\ @ \in Active THEN u.status ELSE @]
             us == [usesSlot EXCEPT ![t] = IF u.slot = "keep" THEN @ ELSE u.slot = "take"]
             over == IF ~usesSlot[t] /\ us[t] THEN Overflow(st, us, running, maxRunning) ELSE {}
  <2>1. /\ usesSlot' = us /\ maxRunning' = maxRunning
        /\ \/ usesSlot[t] /\ ~us[t] /\ ScheduleWaiting(st, us, running, worker, maxRunning)
           \/ ~(usesSlot[t] /\ ~us[t]) /\ status' = Pause(st, over) /\ running' = running
        /\ worker[t] = "active"
    BY <1>12 DEF Report
  <2>2. t \in running
    BY <2>1 DEF OneWorker
  <2>3. /\ us \in [Task -> BOOLEAN] /\ \A v \in Task \ {t} : us[v] = usesSlot[v]
    BY <1>t
  <2>4. /\ st \in Statuses /\ \A v \in Task \ {t} : st[v] = status[v]
        /\ status[t] # "absent" => st[t] # "absent"
    <3>1. u.status \in {"", "running", "seeding"}
      BY <1>12, UpdateTypes
    <3> QED
      BY <1>t, <3>1 DEF Statuses, Status
  <2>5. over \subseteq running
    BY DEF Overflow, SlotHolders
  <2> HIDE DEF st, us, over
  <2>6. CASE ScheduleWaiting(st, us, running, worker, maxRunning)
    BY <1>s, <1>t, <2>1, <2>3, <2>4, <2>6, ScheduleWaitingServes
  <2>7. CASE ~(usesSlot[t] /\ ~us[t]) /\ status' = Pause(st, over) /\ running' = running
    <3>1. /\ \A v \in Task \ {t} : status'[v] \in {status[v], "paused"}
          /\ status'[t] \in {st[t], "paused"}
      BY <2>4, <2>7 DEF Pause
    <3>2. \A v \in SlotHolders(status, usesSlot, running) :
            v \in running /\ status'[v] # "absent" /\ us[v]
      BY <1>t, <1>h, <2>3, <2>4, <2>7, <3>1
    <3>3. \A v \in Task \ running : status'[v] = "waiting" =>
            status[v] = "waiting" /\ v \notin running /\ us[v] = usesSlot[v]
      BY <2>2, <2>3, <3>1
    <3>4. Served(status', us, running, maxRunning, Task)
      BY <1>t, <3>2, <3>3, StillServed
    <3> QED
      BY <2>1, <2>7, <3>4
  <2> QED
    BY <2>1, <2>6, <2>7
<1>13. ASSUME NEW t \in Task, NEW r \in Results, WorkerReturn(t, r)
       PROVE  G
  <2> DEFINE st == [status EXCEPT ![t] = Outcome(@, r)]
             wk == [worker EXCEPT ![t] = "none"]
             rn == running \ {t}
  <2>1. /\ usesSlot' = usesSlot /\ maxRunning' = maxRunning
        /\ IF t \in Present THEN ScheduleWaiting(st, usesSlot, rn, wk, maxRunning)
           ELSE running' = rn /\ status' = status
    BY <1>13 DEF WorkerReturn
  <2>2. st \in Statuses /\ rn \in SUBSET Task
    BY <1>t DEF Statuses, Status, Outcome, Results
  <2> HIDE DEF st, wk
  <2>3. CASE t \in Present
    BY <1>s, <1>t, <2>1, <2>2, <2>3, ScheduleWaitingServes
  <2>4. CASE t \notin Present
    <3>1. status[t] = "absent"
      BY <2>4 DEF Present
    <3>2. \A v \in SlotHolders(status, usesSlot, running) :
            v \in rn /\ status[v] # "absent" /\ usesSlot[v]
      BY <1>h, <3>1
    <3>3. \A v \in Task \ rn : status[v] = "waiting" =>
            status[v] = "waiting" /\ v \notin running /\ usesSlot[v] = usesSlot[v]
      BY <3>1
    <3> HIDE DEF rn
    <3>4. Served(status, usesSlot, rn, maxRunning, Task)
      BY <1>t, <2>2, <3>2, <3>3, StillServed
    <3> QED
      BY <2>1, <2>4, <3>4
  <2> QED
    BY <2>3, <2>4
<1>14. ~StopBegin
  BY DEF StopBegin
<1> HIDE DEF G
<1> QED
  BY <1>4, <1>5, <1>6, <1>7, <1>9, <1>10, <1>11, <1>12, <1>13, <1>14
     DEF Next, UserCall, Continue, WorkerStep, Sweep

\* No step of the scheduler but a restart leaves a task waiting that could run,
\* if there was none before; StartAll, SetMaxRunning and Remove see to the whole
\* queue, also after a restart that found waiting tasks in the store.
THEOREM QueueIsServed ==
  Spec => [][~Reboot /\ (WaitsOnlyForSlot \/ Sweep) => WaitsOnlyForSlot']_vars
<1>1. SlotInv /\ [Next]_vars => [~Reboot /\ (WaitsOnlyForSlot \/ Sweep) => WaitsOnlyForSlot']_vars
  BY QueueStep DEF SlotInv
<1> QED
  BY <1>1, SlotSafety, PTL DEF Spec

\* Only a restart counts as one.
LEMMA RestartsFrame ==
  ASSUME [Next]_vars, ~Reboot
  PROVE  restarts' = restarts
<1>1. CASE UserCall
  BY Zenon, <1>1 DEF UserCall, Add, SetMaxRunning, StartAll, PauseAll, StopBegin, TogglePause,
              Remove, RedownloadBegin, EditBegin, history
<1>2. CASE Continue
  BY <1>2 DEF Continue, RedownloadCopy, RedownloadAbort, RedownloadRequeue, EditCopy,
              EditAbort, EditCommit, StopEnd, history
<1>3. CASE SaveTimer \/ UNCHANGED vars
  BY <1>3 DEF SaveTimer, vars, history
<1>4. ASSUME NEW t \in Task, WorkerStep(t)
      PROVE  restarts' = restarts
  BY <1>4 DEF WorkerStep, WorkerBegin, Report, LateReport, WorkerReturn, history
<1> QED
  BY Zenon, <1>1, <1>2, <1>3, <1>4 DEF Next

\* When no task was stored as waiting, a task waits only for its old worker or
\* for a slot, as long as the program runs.  (Load leaves a stored waiting task
\* as it is and schedules nothing, so a restart may break it.)
THEOREM WaitsOnlyForSlotHolds ==
  ASSUME "waiting" \notin StoredStatus
  PROVE  Spec => [](restarts = 0 => WaitsOnlyForSlot)
<1> DEFINE Q == restarts = 0 => WaitsOnlyForSlot
<1>1. Init => Q
  BY DEF Init, WaitsOnlyForSlot, CanStart
<1>2. SlotInv /\ Q /\ [Next]_vars => Q'
  <2> SUFFICES ASSUME SlotInv, Q, [Next]_vars, restarts' = 0
               PROVE  WaitsOnlyForSlot'
    OBVIOUS
  <2>1. ~Reboot
    BY LimitsNat DEF Reboot, SlotInv, TypeOK
  <2>2. restarts' = restarts
    BY <2>1, RestartsFrame
  <2> QED
    BY <2>1, <2>2, QueueStep DEF SlotInv
<1> QED
  BY <1>1, <1>2, SlotSafety, PTL DEF Spec
-----------------------------------------------------------------------------
(* Pauses *)

\* What the user paused is paused and its worker is cancelled; a Redownload is
\* under way only for a task the user wants again, and an edit that will resume
\* its task knows of a pause in between (pauseEpoch, or the status has changed).
HeldInv ==
  /\ \A t \in held : status[t] = "paused" /\ (worker[t] # "none" => t \in cancelled)
  /\ rd.pc # "idle" => rd.task \notin held
  /\ /\ ed.pc = "wait" \/ (ed.pc = "callback" /\ ed.status = "paused")
     /\ ed.resume /\ ~ed.pausedAll
     => ed.task \notin held

\* A step keeps HeldInv when it leaves the held tasks paused and cancelled, does
\* not extend held, and leaves the two calls as they are.
LEMMA HeldKept ==
  ASSUME HeldInv, held' \subseteq held, rd'.pc # "idle" => rd' = rd,
         /\ ed'.pc = ed.pc /\ ed'.task = ed.task /\ ed'.resume = ed.resume
         /\ ed'.pausedAll = ed.pausedAll /\ ed'.status = ed.status,
         \A t \in held' : status'[t] = "paused" /\ (worker'[t] # "none" => t \in cancelled')
  PROVE  HeldInv'
BY DEF HeldInv

\* A task held back by the user stays paused, and a worker it still has is
\* cancelled.
LEMMA HeldStep ==
  ASSUME TypeOK, Fresh, OneWorker, RedownloadInv, HeldInv, [Next]_vars
  PROVE  HeldInv'
<1>t. /\ status \in Statuses /\ worker \in Workers /\ running \in SUBSET Task
      /\ held \in SUBSET Task /\ cancelled \subseteq running /\ added \in Nat /\ Task \subseteq Nat
  BY LimitsNat DEF TypeOK, Statuses, Workers, Task
<1>h. \A t \in held : status[t] = "paused" /\ (worker[t] # "none" => t \in cancelled)
  BY DEF HeldInv
<1>1. CASE Add
  <2> DEFINE n == added + 1
             st == [status EXCEPT ![n] = "waiting"]
  <2>1. n \in Task /\ n \notin held
    BY <1>1, <1>t, <1>h, SlotsAssumption DEF Add, Task, Fresh
  <2>2. /\ \/ Schedule(n, st, usesSlot, running, worker, maxRunning)
           \/ status' = [status EXCEPT ![n] = "failed"] /\ worker' = worker
        /\ held' = held /\ rd' = rd /\ ed' = ed /\ cancelled' = cancelled
    BY <1>1 DEF Add, history
  <2>3. \A t \in Task \ {n} : st[t] = status[t]
    BY <1>t DEF Statuses
  <2>4. CASE status' = [status EXCEPT ![n] = "failed"] /\ worker' = worker
    <3>1. \A t \in held : status'[t] = status[t]
      BY <1>t, <2>1, <2>4 DEF Statuses
    <3> QED
      BY <1>h, <2>2, <2>4, <3>1, HeldKept
  <2> HIDE DEF n, st
  <2>5. CASE Schedule(n, st, usesSlot, running, worker, maxRunning)
    <3>1. \A t \in Task \ {n} : status'[t] = st[t] /\ worker'[t] = worker[t]
      BY <2>1, <2>5, ScheduleEffect
    <3> QED
      BY <1>t, <1>h, <2>1, <2>2, <2>3, <3>1, HeldKept
  <2> QED
    BY <2>2, <2>4, <2>5
<1>2. ASSUME NEW m \in Limits, SetMaxRunning(m)
      PROVE  HeldInv'
  <2> DEFINE over == Overflow(status, usesSlot, running, m)
             st == Pause(status, over)
  <2>1. /\ ScheduleWaiting(st, usesSlot, running, worker, m)
        /\ held' = held /\ rd' = rd /\ ed' = ed /\ cancelled' = cancelled \cup over
    BY <1>2 DEF SetMaxRunning, history
  <2>2. \A t \in held : st[t] = "paused"
    BY <1>t, <1>h DEF Pause
  <2> HIDE DEF st, over
  <2>3. \A t \in held : status'[t] = "paused" /\ worker'[t] = worker[t]
    BY <1>t, <2>1, <2>2, ScheduleWaitingEffect
  <2> QED
    BY <1>h, <2>1, <2>3, HeldKept
<1>3. CASE StartAll
  <2> DEFINE idle == {t \in Task : status[t] \in {"paused", "waiting"}}
  <2>1. held' = held \ idle /\ rd' = rd /\ ed' = ed
    BY <1>3 DEF StartAll
  <2>2. held' = {}
    BY <1>t, <1>h, <2>1
  <2> QED
    BY <2>1, <2>2, HeldKept
<1>4. CASE PauseAll
  <2>1. /\ LET paused == (running \cap Present) \cup {t \in Task : status[t] = "waiting"}
           IN status' = Pause(status, paused) /\ held' = held \cup paused
        /\ cancelled' = cancelled \cup running /\ worker' = worker /\ rd' = rd
        /\ ed' = IF ed.pc = "callback" THEN [ed EXCEPT !.pausedAll = TRUE] ELSE ed
        /\ editMu = "free"
    BY <1>4 DEF PauseAll
  <2>2. \A t \in held' : status'[t] = "paused"
    BY <1>t, <1>h, <2>1 DEF Pause
  <2>3. ed.pc \in {"idle", "callback"} /\ rd.pc = "idle"
    BY <2>1 DEF RedownloadInv, TypeOK, EditCall, RedownloadCall
  <2>4. ed'.pc = "idle" \/ ed'.pausedAll
    BY <2>1, <2>3, TouchEffect
  <2>5. \A t \in held' : worker'[t] # "none" => t \in cancelled'
    <3>1. \A t \in held' : t \in held \/ t \in running \/ status[t] = "waiting"
      BY <2>1
    <3>2. \A t \in Task : worker[t] # "none" => t \in running
      BY DEF OneWorker
    <3> QED
      BY <1>t, <1>h, <2>1, <3>1, <3>2
  <2> QED
    BY <2>1, <2>2, <2>3, <2>4, <2>5 DEF HeldInv
<1>5. ASSUME NEW t \in Task, Remove(t)
      PROVE  HeldInv'
  <2> DEFINE st == [status EXCEPT ![t] = "absent"]
  <2>1. /\ ScheduleWaiting(st, usesSlot', running, worker, maxRunning)
        /\ held' = held \ {t} /\ rd' = rd /\ ed' = ed
        /\ cancelled' = cancelled \cup ({t} \cap running)
    BY <1>5 DEF Remove
  <2>2. \A u \in held' : st[u] = "paused"
    BY <1>t, <1>h, <2>1 DEF Statuses
  <2> HIDE DEF st
  <2>3. \A u \in held' : status'[u] = "paused" /\ worker'[u] = worker[u]
    <3>1. \A u \in Task : st[u] # "waiting" => status'[u] = st[u] /\ worker'[u] = worker[u]
      BY <2>1, ScheduleWaitingEffect
    <3>2. held' \subseteq Task /\ \A u \in held' : st[u] # "waiting"
      BY <1>t, <2>1, <2>2
    <3> QED
      BY <2>2, <3>1, <3>2
  <2> QED
    BY <1>h, <2>1, <2>3, HeldKept
<1>6. ASSUME NEW t \in Task, RedownloadBegin(t)
      PROVE  HeldInv'
  <2>1. /\ status' = Pause(status, {t} \cap running)
        /\ cancelled' = cancelled \cup ({t} \cap running)
        /\ held' = held \ {t} /\ worker' = worker /\ ed' = ed
        /\ rd'.pc = "wait" /\ rd'.task = t
    BY <1>6 DEF RedownloadBegin, NoRedownload
  <2> QED
    BY <1>t, <2>1 DEF HeldInv, Pause
<1>7. ASSUME NEW t \in Task, EditBegin(t)
      PROVE  HeldInv'
  <2>1. /\ status' = Pause(status, {t} \cap running)
        /\ cancelled' = cancelled \cup ({t} \cap running)
        /\ held' = held /\ worker' = worker /\ rd' = rd
        /\ ed'.task = t /\ ed'.resume = (status[t] # "paused")
    BY <1>7 DEF EditBegin, NoEdit, history
  <2> QED
    BY <1>t, <2>1 DEF HeldInv, Pause
<1>8. CASE RedownloadCopy \/ RedownloadAbort
  <2>1. /\ UNCHANGED <<status, worker, cancelled, held, ed>>
        /\ rd'.pc = "idle" \/ rd'.task = rd.task
        /\ rd.pc # "idle"
    <3>1. rd \in RedownloadCall
      BY DEF TypeOK
    <3>2. CASE RedownloadAbort
      BY <3>2 DEF RedownloadAbort, RedownloadReturn, NoRedownload, taskVars, workVars, history
    <3>3. CASE RedownloadCopy /\ rd.task \in Present
      BY <3>1, <3>3 DEF RedownloadCopy, RedownloadCall, taskVars, workVars, history
    <3>4. CASE RedownloadCopy /\ rd.task \notin Present
      BY <3>4 DEF RedownloadCopy, RedownloadReturn, NoRedownload, taskVars, workVars, history
    <3> QED
      BY <1>8, <3>2, <3>3, <3>4
  <2> QED
    BY <2>1 DEF HeldInv
<1>9. CASE RedownloadRequeue
  <2> DEFINE t == rd.task
             st == [status EXCEPT ![t] = "waiting"]
             us == [usesSlot EXCEPT ![t] = t \in BT \cap Registered \/ rd.slot]
  <2>1. /\ ScheduleWaiting(st, us, running, worker, maxRunning)
        /\ held' = held /\ rd'.pc = "idle" /\ Touch(t) /\ cancelled' = cancelled
        /\ rd.pc = "cleanup"
    BY <1>9 DEF RedownloadRequeue, RedownloadReturn, NoRedownload, history
  <2>2. \A u \in held : st[u] = "paused"
    <3>1. t \notin held
      BY <2>1 DEF HeldInv
    <3> QED
      BY <1>t, <1>h, <3>1 DEF Statuses
  <2> HIDE DEF st, us
  <2>3. \A u \in held' : status'[u] = "paused" /\ worker'[u] = worker[u]
    BY <1>t, <2>1, <2>2, ScheduleWaitingEffect
  <2> QED
    BY <1>h, <2>1, <2>3, HeldKept, TouchEffect
<1>10. CASE EditCopy \/ EditAbort
  <2>1. /\ UNCHANGED <<status, worker, cancelled, held, rd>>
        /\ \/ ed' = NoEdit
           \/ /\ ed'.task = ed.task /\ ed'.resume = ed.resume /\ ed'.pausedAll = ed.pausedAll
              /\ ed.pc = "wait"
    <3>1. CASE EditAbort
      BY Zenon, <1>10, <3>1 DEF EditAbort, taskVars, workVars, history
    <3>2. CASE EditCopy
      <4>1. UNCHANGED <<status, worker, cancelled, held, rd>> /\ ed.pc = "wait"
        BY <3>2 DEF EditCopy, taskVars, workVars, history
      <4> QED
        BY <3>2, <4>1 DEF EditCopy, TypeOK, EditCall
    <3> QED
      BY <1>10, <3>1, <3>2
  <2> QED
    BY <2>1 DEF HeldInv, NoEdit
<1>11. ASSUME NEW b \in BOOLEAN, EditCommit(b)
       PROVE  HeldInv'
  <2> DEFINE t == ed.task
             st == [status EXCEPT ![t] = "waiting"]
  <2>1. /\ IF ed.resume THEN Schedule(t, st, usesSlot, running, worker, maxRunning)
           ELSE status' = [status EXCEPT ![t] = "paused"] /\ worker' = worker
        /\ held' = held /\ rd' = rd /\ ed' = NoEdit /\ cancelled' = cancelled
        /\ ed.pc = "callback" /\ ~ed.pausedAll /\ t \in Task /\ status[t] = ed.status
    BY <1>11 DEF EditCommit, Present, TaskDiffers
  <2>2. \A u \in held' : status'[u] = "paused" /\ worker'[u] = worker[u]
    <3>1. CASE ~ed.resume
      BY <1>t, <1>h, <2>1, <3>1 DEF Statuses
    <3>2. CASE ed.resume
      <4>1. t \notin held
        BY <2>1, <3>2 DEF HeldInv
      <4>2. \A u \in held : st[u] = status[u]
        BY <1>t, <4>1 DEF Statuses
      <4>3. Schedule(t, st, usesSlot, running, worker, maxRunning)
        BY <2>1, <3>2
      <4> HIDE DEF t, st
      <4>4. \A u \in Task \ {t} : status'[u] = st[u] /\ worker'[u] = worker[u]
        BY <2>1, <4>3, ScheduleEffect
      <4> QED
        BY <1>t, <1>h, <2>1, <4>1, <4>2, <4>4
    <3> QED
      BY <3>1, <3>2
  <2> QED
    BY <1>h, <2>1, <2>2 DEF HeldInv, NoEdit
<1>12. CASE StopBegin
  <2>1. /\ status' = Pause(status, {t \in Task : status[t] \in Active \cup {"waiting"}})
        /\ cancelled' = cancelled \cup running /\ worker' = worker
        /\ held' = held /\ rd' = rd /\ ed' = ed
    BY <1>12 DEF StopBegin, history
  <2>2. \A t \in held' : status'[t] = "paused"
    BY <1>t, <1>h, <2>1 DEF Pause
  <2> QED
    BY <1>h, <2>1, <2>2, HeldKept
<1>13. CASE StopEnd \/ SaveTimer \/ UNCHANGED vars
  BY <1>13 DEF StopEnd, SaveTimer, vars, HeldInv, taskVars, workVars, history
<1>14. ASSUME NEW t \in Task, WorkerBegin(t)
       PROVE  HeldInv'
  <2>1. /\ UNCHANGED <<status, cancelled, held, rd>>
        /\ \A u \in Task : worker'[u] # "none" => worker[u] # "none"
    BY <1>14, <1>t DEF WorkerBegin, Workers, taskVars, history
  <2> QED
    BY <1>14, <1>t, <1>h, <2>1, HeldKept, BeginEffect
<1>15. ASSUME NEW t \in Task, LateReport(t)
       PROVE  HeldInv'
  BY <1>15, <1>h, HeldKept, TouchEffect DEF LateReport, taskVars, workVars, history
<1>16. ASSUME NEW t \in Task, NEW u \in Updates(t), Report(t, u)
       PROVE  HeldInv'
  <2> DEFINE st == [status EXCEPT ![t] = IF u.status # "" /\ @ \in Active THEN u.status ELSE @]
             us == [usesSlot EXCEPT ![t] = IF u.slot = "keep" THEN @ ELSE u.slot = "take"]
             over == IF ~usesSlot[t] /\ us[t] THEN Overflow(st, us, running, maxRunning) ELSE {}
  <2>1. /\ \/ ScheduleWaiting(st, us, running, worker, maxRunning)
           \/ status' = Pause(st, over) /\ worker' = worker
        /\ cancelled' = cancelled \cup over
        /\ held' = held /\ rd' = rd /\ Touch(t)
    BY <1>16 DEF Report, history
  <2>2. \A v \in held : st[v] = "paused"
    BY <1>t, <1>h DEF Statuses
  <2> HIDE DEF st, us, over
  <2>3. \A v \in held : status'[v] = "paused" /\ worker'[v] = worker[v]
    BY <1>t, <2>1, <2>2, ScheduleWaitingEffect DEF Pause
  <2> QED
    BY <1>h, <2>1, <2>3, HeldKept, TouchEffect
<1>17. ASSUME NEW t \in Task, NEW r \in Results, WorkerReturn(t, r)
       PROVE  HeldInv'
  <2> DEFINE st == [status EXCEPT ![t] = Outcome(@, r)]
             wk == [worker EXCEPT ![t] = "none"]
             rn == running \ {t}
  <2>1. /\ \/ ScheduleWaiting(st, usesSlot, rn, wk, maxRunning) /\ Touch(t)
           \/ status' = status /\ worker' = wk /\ ed' = ed
        /\ cancelled' = cancelled \ {t} /\ rd' = rd
        /\ held' = IF r = "canceled" THEN held ELSE held \ {t}
    BY <1>17 DEF WorkerReturn
  <2>2. \A v \in held' : st[v] = "paused"
    BY <1>t, <1>h, <2>1 DEF Statuses, Outcome
  <2>3. wk[t] = "none" /\ \A v \in Task \ {t} : wk[v] = worker[v]
    BY <1>t DEF Workers
  <2>4. held' \subseteq held
    BY <2>1
  <2> HIDE DEF st, wk, rn
  <2>5. \A v \in held' : status'[v] = "paused" /\ worker'[v] = wk[v]
    <3>1. CASE ScheduleWaiting(st, usesSlot, rn, wk, maxRunning)
      <4>1. \A v \in Task : st[v] # "waiting" => status'[v] = st[v] /\ worker'[v] = wk[v]
        BY <3>1, ScheduleWaitingEffect
      <4>2. held' \subseteq Task
        BY <1>t, <2>4
      <4> QED
        BY <2>2, <2>4, <4>1, <4>2
    <3>2. CASE status' = status /\ worker' = wk
      BY <1>h, <2>4, <3>2
    <3> QED
      BY <2>1, <3>1, <3>2
  <2>6. \A v \in held' : worker'[v] # "none" => v \in cancelled'
    BY <1>t, <1>h, <2>1, <2>3, <2>4, <2>5
  <2> QED
    BY <2>1, <2>4, <2>5, <2>6, HeldKept, TouchEffect
<1>18. CASE Reboot
  BY <1>18 DEF Reboot, HeldInv, NoRedownload, NoEdit
<1>19. ASSUME NEW t \in Task, TogglePause(t)
       PROVE  HeldInv'
  <2> DEFINE st == [status EXCEPT ![t] = "waiting"]
  <2>1. rd' = rd /\ Touch(t) /\ editMu = "free"
    BY <1>19 DEF TogglePause
  <2>2. ed.pc \in {"idle", "callback"} /\ rd.pc = "idle"
    BY <2>1 DEF RedownloadInv, TypeOK, EditCall, RedownloadCall
  <2>3. CASE /\ status' = [status EXCEPT ![t] = "paused"] /\ worker' = worker
             /\ held' = IF Unheard(t) THEN held ELSE held \cup {t}
             /\ \/ cancelled' = cancelled \cup {t}
                \/ cancelled' = cancelled /\ status[t] = "waiting"
    <3>1. \A u \in held' : status'[u] = "paused"
      BY <1>t, <1>h, <2>3 DEF Statuses
    <3>2. \A u \in held' : worker'[u] # "none" => u \in cancelled'
      <4>1. t \in held' /\ worker[t] # "none" => t \in cancelled'
        BY <1>h, <2>3 DEF Unheard, OneWorker
      <4> QED
        BY <1>h, <2>3, <4>1
    <3>3. ed'.pc # "idle" /\ ed'.status = "paused" /\ ed'.resume /\ ~ed'.pausedAll
            => ed'.task \notin held'
      BY <2>1, <2>2, <2>3, TouchEffect DEF HeldInv, Unheard
    <3> QED
      BY <2>1, <2>2, <3>1, <3>2, <3>3, TouchEffect DEF HeldInv
  <2>4. CASE /\ Schedule(t, st, usesSlot, running, worker, maxRunning)
             /\ held' = held \ {t} /\ cancelled' = cancelled
    <3>1. \A u \in held' : st[u] = "paused"
      BY <1>t, <1>h, <2>4 DEF Statuses
    <3> HIDE DEF st
    <3>2. \A u \in Task \ {t} : status'[u] = st[u] /\ worker'[u] = worker[u]
      BY <2>4, ScheduleEffect
    <3> QED
      BY <1>t, <1>h, <2>1, <2>2, <2>4, <3>1, <3>2, HeldKept, TouchEffect
  <2> HIDE DEF st
  <2> QED
    BY <1>19, <2>3, <2>4 DEF TogglePause, st
<1> QED
  BY <1>1, <1>2, <1>3, <1>4, <1>5, <1>6, <1>7, <1>8, <1>9, <1>10, <1>11, <1>12, <1>13, <1>14,
     <1>15, <1>16, <1>17, <1>18, <1>19
     DEF Next, UserCall, Continue, WorkerStep

\* Whatever runs, is reported, edited or limited in between, a task that TogglePause
\* or PauseAll paused stays paused and its worker cancelled until the user starts
\* it again, for any number of tasks and slots: an Unheard TogglePause is the only
\* pause that is lost.
THEOREM HeldStaysPausedHolds == Spec => []HeldStaysPaused
<1>1. Init => RedownloadInv /\ HeldInv
  BY DEF Init, RedownloadInv, HeldInv, NoRedownload, NoEdit
<1>2. SlotInv /\ (RedownloadInv /\ HeldInv) /\ [Next]_vars => (RedownloadInv /\ HeldInv)'
  BY RedownloadStep, HeldStep DEF SlotInv
<1>3. HeldInv => HeldStaysPaused
  BY DEF HeldInv, HeldStaysPaused
<1> QED
  BY <1>1, <1>2, <1>3, SlotSafety, PTL DEF Spec
-----------------------------------------------------------------------------
(* Edits *)

\* Starting tasks brings no goroutine past its start and no task back.
LEMMA LaunchFrame ==
  ASSUME NEW st, NEW us, NEW rn, NEW wk, NEW mx, NEW t \in Task,
         ScheduleWaiting(st, us, rn, wk, mx) \/ \E u \in Task : Schedule(u, st, us, rn, wk, mx)
  PROVE  /\ worker'[t] = "active" => wk[t] = "active"
         /\ st[t] = "absent" => status'[t] = "absent"
<1>1. PICK W \in SUBSET Task : Launch(W, st, us, rn, wk, mx) /\ (t \in W => st[t] # "absent")
  <2>1. CASE ScheduleWaiting(st, us, rn, wk, mx)
    BY <2>1 DEF ScheduleWaiting
  <2>2. ASSUME NEW u \in Task, Schedule(u, st, us, rn, wk, mx)
        PROVE  \E W \in SUBSET Task : Launch(W, st, us, rn, wk, mx) /\ (t \in W => st[t] # "absent")
    <3> DEFINE W == {v \in {u} \ rn : st[v] \notin Active \cup {"completed", "absent"}}
    <3>1. W \in SUBSET Task /\ (t \in W => st[t] # "absent") /\ Launch(W, st, us, rn, wk, mx)
      BY <2>2 DEF Schedule
    <3> QED
      BY <3>1
  <2> QED
    BY <2>1, <2>2
<1>2. worker'[t] \in {wk[t], "spawned", "two"}
  BY <1>1 DEF Launch
<1>3. t \notin W => status'[t] = st[t]
  BY <1>1, LaunchEffect
<1> QED
  BY <1>1, <1>2, <1>3

\* A goroutine is at work only after its WorkerBegin, and a task that was removed
\* does not come back.
LEMMA WorkFrame ==
  ASSUME TypeOK, [Next]_vars, ~Reboot, NEW t \in Task
  PROVE  /\ worker'[t] = "active" => worker[t] = "active" \/ WorkerBegin(t)
         /\ t <= added /\ status[t] = "absent" => status'[t] = "absent"
<1> DEFINE G == /\ worker'[t] = "active" => worker[t] = "active" \/ WorkerBegin(t)
                /\ t <= added /\ status[t] = "absent" => status'[t] = "absent"
<1> SUFFICES G
  OBVIOUS
<1>t. /\ status \in Statuses /\ worker \in Workers /\ added \in Nat /\ Task \subseteq Nat
  BY LimitsNat DEF TypeOK, Statuses, Workers, Task
<1>1. CASE Add
  <2> DEFINE n == added + 1
             st == [status EXCEPT ![n] = "waiting"]
  <2>1. n \in Task /\ (t <= added => n # t)
    BY <1>1, <1>t, SlotsAssumption DEF Add, Task
  <2>2. \/ Schedule(n, st, usesSlot, running, worker, maxRunning)
        \/ status' = [status EXCEPT ![n] = "failed"] /\ worker' = worker
    BY <1>1 DEF Add
  <2>3. t <= added => st[t] = status[t]
    BY <1>t, <2>1 DEF Statuses
  <2> HIDE DEF st, n
  <2>4. CASE Schedule(n, st, usesSlot, running, worker, maxRunning)
    BY ZenonT(40), <2>1, <2>3, <2>4, LaunchFrame
  <2>5. CASE status' = [status EXCEPT ![n] = "failed"] /\ worker' = worker
    BY <1>t, <2>1, <2>5 DEF Statuses
  <2> QED
    BY <2>2, <2>4, <2>5
<1>2. ASSUME NEW m \in Limits, SetMaxRunning(m)
      PROVE  G
  <2> DEFINE over == Overflow(status, usesSlot, running, m)
             st == Pause(status, over)
  <2>1. ScheduleWaiting(st, usesSlot, running, worker, m)
    BY <1>2 DEF SetMaxRunning
  <2>2. status[t] = "absent" => st[t] = "absent"
    BY DEF Pause, Overflow, SlotHolders
  <2> HIDE DEF st, over
  <2> QED
    BY <2>1, <2>2, LaunchFrame
<1>3. CASE StartAll
  <2> DEFINE idle == {u \in Task : status[u] \in {"paused", "waiting"}}
             st == [u \in Task |-> IF u \in idle THEN "waiting" ELSE status[u]]
  <2>1. ScheduleWaiting(st, usesSlot, running, worker, maxRunning)
    BY <1>3 DEF StartAll
  <2>2. status[t] = "absent" => st[t] = "absent"
    OBVIOUS
  <2> HIDE DEF st, idle
  <2> QED
    BY <2>1, <2>2, LaunchFrame
<1>4. ASSUME NEW u \in Task, Remove(u)
      PROVE  G
  <2> DEFINE st == [status EXCEPT ![u] = "absent"]
  <2>1. ScheduleWaiting(st, usesSlot', running, worker, maxRunning)
    BY <1>4 DEF Remove
  <2>2. status[t] = "absent" => st[t] = "absent"
    BY <1>t DEF Statuses
  <2> HIDE DEF st
  <2> QED
    BY <2>1, <2>2, LaunchFrame
<1>5. CASE \/ PauseAll \/ StopBegin \/ \E u \in Task : RedownloadBegin(u) \/ EditBegin(u)
  <2>1. worker' = worker
    BY <1>5 DEF PauseAll, StopBegin, RedownloadBegin, EditBegin
  <2>2. PICK S \in SUBSET Present : status' = Pause(status, S)
    <3>1. CASE PauseAll \/ StopBegin
      BY <3>1 DEF PauseAll, StopBegin, Present, Active
    <3>2. ASSUME NEW u \in Task, RedownloadBegin(u) \/ EditBegin(u)
          PROVE  \E S \in SUBSET Present : status' = Pause(status, S)
      BY <3>2 DEF RedownloadBegin, EditBegin
    <3> QED
      BY <1>5, <3>1, <3>2
  <2> QED
    BY SMTT(30), <2>1, <2>2 DEF Pause, Present
<1>6. CASE \/ RedownloadCopy \/ RedownloadAbort \/ EditCopy \/ EditAbort
           \/ StopEnd \/ SaveTimer \/ UNCHANGED vars
  BY <1>6 DEF RedownloadCopy, RedownloadAbort, EditCopy, EditAbort, StopEnd, SaveTimer,
              vars, taskVars, workVars
<1>7. CASE RedownloadRequeue
  <2> DEFINE st == [status EXCEPT ![rd.task] = "waiting"]
             us == [usesSlot EXCEPT ![rd.task] = rd.task \in BT \cap Registered \/ rd.slot]
  <2>1. ScheduleWaiting(st, us, running, worker, maxRunning) /\ status[rd.task] # "absent"
    BY <1>7 DEF RedownloadRequeue, Present
  <2>2. status[t] = "absent" => st[t] = "absent"
    BY <1>t, <2>1 DEF Statuses
  <2> HIDE DEF st, us
  <2>3. /\ worker'[t] = "active" => worker[t] = "active"
        /\ st[t] = "absent" => status'[t] = "absent"
    BY <2>1, LaunchFrame
  <2> QED
    BY <2>2, <2>3
<1>8. ASSUME NEW b \in BOOLEAN, EditCommit(b)
      PROVE  G
  <2> DEFINE st == [status EXCEPT ![ed.task] = "waiting"]
  <2>1. /\ \/ Schedule(ed.task, st, usesSlot, running, worker, maxRunning)
           \/ status' = [status EXCEPT ![ed.task] = "paused"] /\ worker' = worker
        /\ ed.task \in Task /\ status[ed.task] # "absent"
    BY <1>8 DEF EditCommit, Present
  <2>2. status[t] = "absent" => st[t] = "absent"
    BY <1>t, <2>1 DEF Statuses
  <2>3. CASE status' = [status EXCEPT ![ed.task] = "paused"] /\ worker' = worker
    BY <1>t, <2>1, <2>3 DEF Statuses
  <2> HIDE DEF st
  <2>4. CASE Schedule(ed.task, st, usesSlot, running, worker, maxRunning)
    <3>1. \E u \in Task : Schedule(u, st, usesSlot, running, worker, maxRunning)
      BY <2>1, <2>4
    <3> HIDE DEF G
    <3>2. /\ worker'[t] = "active" => worker[t] = "active"
          /\ st[t] = "absent" => status'[t] = "absent"
      BY <3>1, LaunchFrame
    <3> QED
      BY <2>2, <3>2 DEF G
  <2> QED
    BY <2>1, <2>3, <2>4
<1>9. ASSUME NEW u \in Task, WorkerBegin(u) \/ LateReport(u)
      PROVE  G
  BY <1>9, <1>t DEF WorkerBegin, LateReport, Workers, taskVars, workVars
<1>10. ASSUME NEW u \in Task, NEW x \in Updates(u), Report(u, x)
       PROVE  G
  <2> DEFINE st == [status EXCEPT ![u] = IF x.status # "" /\ @ \in Active THEN x.status ELSE @]
             us == [usesSlot EXCEPT ![u] = IF x.slot = "keep" THEN @ ELSE x.slot = "take"]
             over == IF ~usesSlot[u] /\ us[u] THEN Overflow(st, us, running, maxRunning) ELSE {}
  <2>1. \/ ScheduleWaiting(st, us, running, worker, maxRunning)
        \/ status' = Pause(st, over) /\ worker' = worker
    BY <1>10 DEF Report
  <2>2. status[t] = "absent" => st[t] = "absent"
    BY <1>t DEF Statuses, Active
  <2>3. \A v \in over : st[v] # "absent"
    <3> HIDE DEF st, us
    <3>1. \A v \in Overflow(st, us, running, maxRunning) : st[v] # "absent"
      BY DEF Overflow, SlotHolders
    <3> QED
      BY <3>1
  <2> HIDE DEF st, us, over
  <2>4. CASE status' = Pause(st, over) /\ worker' = worker
    BY <2>2, <2>3, <2>4 DEF Pause
  <2>5. CASE ScheduleWaiting(st, us, running, worker, maxRunning)
    BY <2>2, <2>5, LaunchFrame
  <2> QED
    BY <2>1, <2>4, <2>5
<1>11. ASSUME NEW u \in Task, NEW r \in Results, WorkerReturn(u, r)
       PROVE  G
  <2> DEFINE st == [status EXCEPT ![u] = Outcome(@, r)]
             wk == [worker EXCEPT ![u] = "none"]
             rn == running \ {u}
  <2>1. \/ ScheduleWaiting(st, usesSlot, rn, wk, maxRunning) /\ status[u] # "absent"
        \/ status' = status /\ worker' = wk
    BY <1>11 DEF WorkerReturn, Present
  <2>2. /\ u # t => st[t] = status[t]
        /\ wk[t] = "active" => worker[t] = "active"
    BY <1>t DEF Statuses, Workers
  <2> HIDE DEF st, wk, rn
  <2>3. CASE status' = status /\ worker' = wk
    BY <2>2, <2>3
  <2>4. CASE ScheduleWaiting(st, usesSlot, rn, wk, maxRunning) /\ status[u] # "absent"
    <3>1. /\ worker'[t] = "active" => wk[t] = "active"
          /\ st[t] = "absent" => status'[t] = "absent"
      BY <2>4, LaunchFrame
    <3> QED
      BY <2>2, <2>4, <3>1
  <2> QED
    BY <2>1, <2>3, <2>4
<1>12. ASSUME NEW u \in Task, TogglePause(u)
       PROVE  G
  <2> DEFINE st == [status EXCEPT ![u] = "waiting"]
  <2>1. /\ \/ Schedule(u, st, usesSlot, running, worker, maxRunning)
           \/ status' = [status EXCEPT ![u] = "paused"] /\ worker' = worker
        /\ status[u] # "absent"
    BY <1>12 DEF TogglePause, Present
  <2>2. status[t] = "absent" => st[t] = "absent"
    BY <1>t, <2>1 DEF Statuses
  <2>3. CASE status' = [status EXCEPT ![u] = "paused"] /\ worker' = worker
    BY <1>t, <2>1, <2>3 DEF Statuses
  <2> HIDE DEF st
  <2>4. CASE Schedule(u, st, usesSlot, running, worker, maxRunning)
    BY <2>2, <2>4, LaunchFrame
  <2> QED
    BY <2>1, <2>3, <2>4
<1> QED
  BY <1>1, <1>2, <1>3, <1>4, <1>5, <1>6, <1>7, <1>8, <1>9, <1>10, <1>11, <1>12
     DEF Next, UserCall, Continue, WorkerStep

\* EditTask, once it has waited for the worker it found, knows of every goroutine
\* that begins to work on its task.
StartInv ==
  /\ ed.pc # "idle" => ed.task \in Task /\ ed.task <= added
  /\ ed.pc = "callback" \/ (ed.pc = "wait" /\ ~ed.waited) =>
       (ed.task \in Present /\ worker[ed.task] = "active" => ed.started)

LEMMA StartStep ==
  ASSUME TypeOK, Fresh, OneWorker, StartInv, [Next]_vars
  PROVE  StartInv'
<1>t. ed \in EditCall /\ added \in Nat /\ Task \subseteq Nat
  BY LimitsNat DEF TypeOK, Task
<1>1. CASE Reboot \/ EditAbort \/ EditCommit(TRUE) \/ EditCommit(FALSE)
  <2>1. ed' = NoEdit
    BY <1>1 DEF Reboot, EditAbort, EditCommit
  <2> QED
    BY <2>1 DEF StartInv, NoEdit
<1>2. ASSUME NEW t \in Task, EditBegin(t)
      PROVE  StartInv'
  <2>1. /\ ed'.pc = "wait" /\ ed'.task = t /\ ed'.waited = (t \in running)
        /\ worker' = worker /\ added' = added /\ t \in Present
    BY <1>2 DEF EditBegin, NoEdit
  <2>2. t <= added
    BY <1>t, <2>1 DEF Fresh, Present
  <2>3. t \notin running => worker[t] = "none"
    BY DEF OneWorker
  <2> QED
    BY <2>1, <2>2, <2>3 DEF StartInv
<1>3. CASE EditCopy
  <2>1. /\ ed.pc = "wait" /\ UNCHANGED <<status, worker, added>>
        /\ ed.waited => worker[ed.task] = "none"
        /\ \/ ed' = NoEdit
           \/ ed'.pc = "callback" /\ ed'.task = ed.task /\ ed'.started = ed.started
    BY <1>3, <1>t DEF EditCopy, WorkerGone, EditCall, taskVars, workVars
  <2> QED
    BY <2>1 DEF StartInv, NoEdit, Present
<1>4. CASE /\ ~Reboot /\ ~EditCopy /\ ~EditAbort /\ ~EditCommit(TRUE) /\ ~EditCommit(FALSE)
           /\ \A t \in Task : ~EditBegin(t)
  <2>1. /\ added' \in {added, added + 1}
        /\ ed'.pc = ed.pc /\ ed'.task = ed.task /\ ed'.waited = ed.waited
        /\ ed.started => ed'.started
    <3>1. CASE RedownloadCopy \/ RedownloadAbort \/ \E t \in Task : RedownloadBegin(t)
      <4>1. ed' = ed /\ added' = added
        BY <3>1 DEF RedownloadCopy, RedownloadAbort, RedownloadBegin, taskVars
      <4> QED
        BY <4>1
    <3>2. CASE RedownloadRequeue
      <4>1. Touch(rd.task) /\ added' = added
        BY <3>2 DEF RedownloadRequeue
      <4> QED
        BY <4>1, TouchEffect
    <3>3. CASE /\ ~RedownloadCopy /\ ~RedownloadAbort /\ ~RedownloadRequeue
               /\ \A t \in Task : ~RedownloadBegin(t)
      BY <1>4, <3>3, CallsFrame
    <3> QED
      BY <3>1, <3>2, <3>3
  <2>2. ed.pc # "idle" => ed.task \in Task /\ ed.task <= added'
    <3>1. ed.pc # "idle" => ed.task \in Task /\ ed.task <= added /\ ed.task \in Nat
      BY <1>t DEF StartInv
    <3> QED
      BY <1>t, <2>1, <3>1
  <2>3. ASSUME ed.pc = "callback" \/ (ed.pc = "wait" /\ ~ed.waited),
               ed.task \in Present', worker'[ed.task] = "active"
        PROVE  ed'.started
    <3>1. ed.task \in Task /\ ed.task <= added
      BY <2>3 DEF StartInv
    <3>2. PICK e \in Task : e = ed.task
      BY <3>1
    <3>3. /\ worker[e] = "active" \/ WorkerBegin(e)
          /\ status[e] # "absent"
      BY <1>4, <2>3, <3>1, <3>2, WorkFrame DEF Present
    <3>4. CASE WorkerBegin(e)
      BY <1>t, <2>3, <3>2, <3>4 DEF WorkerBegin, EditCall
    <3>5. CASE worker[e] = "active"
      BY <2>1, <2>3, <3>2, <3>3, <3>5 DEF StartInv, Present
    <3> QED
      BY <3>3, <3>4, <3>5
  <2> QED
    BY <2>1, <2>2, <2>3 DEF StartInv
<1> QED
  BY <1>1, <1>2, <1>3, <1>4

\* Unless it was overtaken, the selection of a task is that of its last committed
\* edit, the copy a bt worker writes back holds the same one, and so does the copy of
\* a Redownload that is about to requeue the task.
CfgInv ==
  /\ \A t \in Task \ overtaken : cfg[t] = edits[t]
  /\ \A t \in (BT \cap Present) \ overtaken : worker[t] = "active" => workerCfg[t] = edits[t]
  /\ rd.pc = "cleanup" /\ rd.task \in Present \ overtaken => rd.cfg = edits[rd.task]

\* A commit beside a worker that holds the old selection marks the task.
LEMMA CfgStep ==
  ASSUME TypeOK, Fresh, OneWorker, RedownloadInv, StartInv, CfgInv, [Next]_vars
  PROVE  CfgInv'
<1>0. CASE Reboot
  <2>1. /\ edits' = cfg' /\ rd' = NoRedownload /\ worker' = [t \in Task |-> "none"]
    BY <1>0 DEF Reboot
  <2> QED
    BY <2>1, ConstantsAssumption DEF CfgInv, NoRedownload
<1> SUFFICES ASSUME ~Reboot
             PROVE  CfgInv'
  BY <1>0
<1>t. /\ cfg \in [Task -> 0 .. MaxEdits] /\ edits \in [Task -> 0 .. MaxEdits]
      /\ workerCfg \in [Task -> 0 .. MaxEdits] /\ worker \in Workers /\ status \in Statuses
      /\ overtaken \in SUBSET Task /\ added \in Nat /\ Task \subseteq Nat /\ BT \subseteq Task
  BY ConstantsAssumption, LimitsNat DEF TypeOK, Workers, Statuses, Task
<1>f. \A t \in Task : t \in Present' /\ worker'[t] = "active"
                        => (t \in Present /\ worker[t] = "active") \/ WorkerBegin(t)
  <2> SUFFICES ASSUME NEW t \in Task, t \in Present', worker'[t] = "active", ~WorkerBegin(t)
               PROVE  t \in Present /\ worker[t] = "active"
    OBVIOUS
  <2>1. worker[t] = "active" /\ (t <= added /\ status[t] = "absent" => status'[t] = "absent")
    BY WorkFrame
  <2>2. t <= added
    BY <1>t, <2>1 DEF Fresh, OneWorker
  <2> QED
    BY <2>1, <2>2 DEF Present
<1>g. rd.pc # "idle" /\ rd.task \in Present' => rd.task \in Present
  <2> SUFFICES ASSUME rd.pc # "idle", rd.task \in Present'
               PROVE  rd.task \in Present
    OBVIOUS
  <2>1. rd.task \in Task /\ rd.task <= added
    BY DEF RedownloadInv
  <2>2. status[rd.task] = "absent" => status'[rd.task] = "absent"
    BY <2>1, WorkFrame
  <2> QED
    BY <2>1, <2>2 DEF Present
<1>c. ASSUME UNCHANGED <<edits, overtaken, workerCfg>>,
             \A t \in Task \ overtaken : cfg'[t] = cfg[t], rd' = rd \/ rd'.pc # "cleanup",
             \A t \in Task : ~WorkerBegin(t)
      PROVE  CfgInv'
  BY <1>c, <1>f, <1>g, <1>t DEF CfgInv
<1>b. ASSUME NEW u \in Task, WorkerBegin(u)
      PROVE  CfgInv'
  <2>1. /\ UNCHANGED <<cfg, edits, overtaken, rd>>
        /\ workerCfg' = [workerCfg EXCEPT ![u] = cfg[u]]
    BY <1>b DEF WorkerBegin, taskVars, history
  <2>2. \A t \in Task : workerCfg'[t] = workerCfg[t] \/ workerCfg'[t] = cfg'[t]
    BY <1>t, <2>1
  <2>3. \A t \in Task : WorkerBegin(t) => workerCfg'[t] = cfg'[t]
    BY <1>t DEF WorkerBegin, taskVars
  <2>4. \A t \in (BT \cap Present') \ overtaken : worker'[t] = "active" => workerCfg'[t] = edits[t]
    BY <1>f, <1>t, <2>1, <2>2, <2>3 DEF CfgInv
  <2> QED
    BY <1>g, <2>1, <2>4 DEF CfgInv
<1>1. CASE (\E u \in Task : WorkerBegin(u))
  BY <1>1, <1>b
<1>2. CASE /\ \/ Add \/ StartAll \/ PauseAll \/ StopBegin \/ StopEnd \/ SaveTimer \/ UNCHANGED vars
              \/ EditCopy \/ EditAbort \/ EditCommit(TRUE) \/ RedownloadAbort
              \/ \E m \in Limits : SetMaxRunning(m)
              \/ \E u \in Task : TogglePause(u) \/ RedownloadBegin(u) \/ EditBegin(u)
                                 \/ LateReport(u) \/ \E r \in Results : WorkerReturn(u, r)
           /\ \A u \in Task : ~WorkerBegin(u)
  <2>1. UNCHANGED <<cfg, edits, overtaken, workerCfg>>
    <3>1. CASE \/ Add \/ StartAll \/ PauseAll \/ StopBegin \/ StopEnd \/ SaveTimer \/ UNCHANGED vars
               \/ \E m \in Limits : SetMaxRunning(m)
      BY Zenon, <3>1 DEF Add, StartAll, PauseAll, StopBegin, StopEnd, SaveTimer, SetMaxRunning,
                vars, taskVars, workVars, history
    <3>2. CASE EditCopy \/ EditAbort \/ EditCommit(TRUE) \/ RedownloadAbort
      BY Zenon, <3>2 DEF EditCopy, EditAbort, EditCommit, RedownloadAbort, taskVars, workVars,
                history
    <3>3. ASSUME NEW u \in Task,
                 \/ TogglePause(u) \/ RedownloadBegin(u) \/ EditBegin(u) \/ LateReport(u)
                 \/ \E r \in Results : WorkerReturn(u, r)
          PROVE  UNCHANGED <<cfg, edits, overtaken, workerCfg>>
      BY Zenon, <3>3 DEF TogglePause, RedownloadBegin, EditBegin, LateReport, WorkerReturn,
                taskVars, workVars, history
    <3> QED
      BY Zenon, <1>2, <3>1, <3>2, <3>3
  <2>2. rd' = rd \/ rd'.pc # "cleanup"
    <3>1. CASE RedownloadAbort \/ \E u \in Task : RedownloadBegin(u)
      <4>1. RedownloadAbort => rd'.pc = "idle"
        BY DEF RedownloadAbort, RedownloadReturn, NoRedownload
      <4>2. \A u \in Task : RedownloadBegin(u) => rd'.pc = "wait"
        BY ZenonT(40) DEF RedownloadBegin, NoRedownload
      <4> QED
        BY <3>1, <4>1, <4>2
    <3>2. CASE ~RedownloadAbort /\ ~\E u \in Task : RedownloadBegin(u)
      BY <1>2, <3>2 DEF Add, StartAll, PauseAll, StopBegin, StopEnd, SaveTimer, vars, EditCopy,
                EditAbort, EditCommit, SetMaxRunning, TogglePause, EditBegin, LateReport, WorkerReturn
    <3> QED
      BY <3>1, <3>2
  <2> QED
    BY Zenon, <1>2, <1>c, <2>1, <2>2
<1>3. ASSUME NEW u \in Task, Remove(u), \A t \in Task : ~WorkerBegin(t)
      PROVE  CfgInv'
  <2> DEFINE st == [status EXCEPT ![u] = "absent"]
  <2>1. /\ ScheduleWaiting(st, usesSlot', running, worker, maxRunning)
        /\ cfg' = [cfg EXCEPT ![u] = 0] /\ edits' = [edits EXCEPT ![u] = 0]
        /\ rd' = rd /\ workerCfg' = workerCfg /\ overtaken' = overtaken \ {u}
    BY <1>3 DEF Remove
  <2>2. st[u] = "absent"
    BY <1>t DEF Statuses
  <2> HIDE DEF st
  <2>3. u \notin Present'
    BY <2>1, <2>2, LaunchFrame DEF Present
  <2>4. /\ \A t \in Task \ overtaken' : cfg'[t] = edits'[t]
        /\ \A t \in Task \ {u} : edits'[t] = edits[t]
        /\ u \notin overtaken' /\ \A t \in Task \ overtaken' : t # u => t \notin overtaken
    BY <1>t, <2>1 DEF CfgInv
  <2>5. \A t \in (BT \cap Present') \ overtaken' : worker'[t] = "active" => workerCfg'[t] = edits'[t]
    BY <1>3, <1>f, <1>t, <2>1, <2>3, <2>4 DEF CfgInv
  <2>6. ASSUME rd.pc = "cleanup", rd.task \in Present' \ overtaken'
        PROVE  rd.cfg = edits'[rd.task]
    <3>1. rd.task \in Present /\ rd.task \in Task /\ rd.task # u
      BY <1>g, <2>3, <2>6 DEF Present
    <3> QED
      BY <2>4, <2>6, <3>1 DEF CfgInv
  <2> QED
    BY <2>1, <2>4, <2>5, <2>6 DEF CfgInv
<1>4. CASE RedownloadCopy /\ \A t \in Task : ~WorkerBegin(t)
  <2>1. UNCHANGED <<cfg, edits, overtaken, workerCfg, status>>
    BY <1>4 DEF RedownloadCopy, taskVars, workVars, history
  <2>2. CASE rd.task \notin Present
    BY <1>4, <1>c, <2>1, <2>2 DEF RedownloadCopy, RedownloadReturn, NoRedownload
  <2>3. CASE rd.task \in Present
    <3>1. rd' = [rd EXCEPT !.pc = "cleanup", !.slot = usesSlot[rd.task], !.cfg = cfg[rd.task]]
      BY <1>4, <2>3 DEF RedownloadCopy
    <3>2. rd \in RedownloadCall
      BY DEF TypeOK
    <3>3. rd'.cfg = cfg[rd.task] /\ rd'.task = rd.task
      BY <3>1, <3>2 DEF RedownloadCall
    <3>4. \A t \in (BT \cap Present') \ overtaken : worker'[t] = "active" => workerCfg'[t] = edits[t]
      BY <1>4, <1>f, <1>t, <2>1 DEF CfgInv
    <3>5. rd.task \notin overtaken => rd'.cfg = edits[rd.task]
      BY <2>3, <3>3 DEF CfgInv, Present
    <3> QED
      BY <2>1, <3>3, <3>4, <3>5 DEF CfgInv
  <2> QED
    BY <2>2, <2>3
<1>5. CASE RedownloadRequeue /\ \A t \in Task : ~WorkerBegin(t)
  <2>1. /\ rd.pc = "cleanup" /\ rd.task \in Present /\ cfg' = [cfg EXCEPT ![rd.task] = rd.cfg]
        /\ UNCHANGED <<edits, overtaken, workerCfg>> /\ rd' = NoRedownload
    BY <1>5 DEF RedownloadRequeue, RedownloadReturn, history
  <2>2. \A t \in Task \ overtaken : cfg'[t] = cfg[t]
    BY <1>t, <2>1 DEF CfgInv
  <2> QED
    BY <1>5, <1>c, <2>1, <2>2 DEF NoRedownload
<1>6. CASE EditCommit(FALSE) /\ \A t \in Task : ~WorkerBegin(t)
  <2> DEFINE u == ed.task
  <2>1. /\ u \in Present /\ edits[u] < MaxEdits /\ editMu = "free" /\ ed.pc = "callback"
        /\ edits' = [edits EXCEPT ![u] = @ + 1] /\ cfg' = [cfg EXCEPT ![u] = edits[u] + 1]
        /\ rd' = rd /\ workerCfg' = workerCfg /\ status[u] = ed.status
        /\ overtaken' = IF ed.started /\ worker[u] = "active" /\ status[u] = ed.status
                        THEN overtaken \cup {u} ELSE overtaken \ {u}
    BY <1>6 DEF EditCommit, TaskDiffers
  <2>2. rd'.pc # "cleanup"
    BY <2>1 DEF RedownloadInv
  <2>3. worker[u] = "active" => ed.started
    BY <2>1 DEF StartInv
  <2>4. worker[u] = "active" => u \in overtaken'
    BY <2>1, <2>3
  <2>5. u \in Task /\ \A t \in Task \ overtaken' : t # u => t \notin overtaken
    BY <2>1 DEF Present
  <2> HIDE DEF u
  <2>6. /\ \A t \in Task \ overtaken' : cfg'[t] = edits'[t]
        /\ \A t \in Task \ {u} : edits'[t] = edits[t]
    BY <1>t, <2>1, <2>5 DEF CfgInv
  <2>7. \A t \in (BT \cap Present') \ overtaken' : worker'[t] = "active" => workerCfg'[t] = edits'[t]
    BY <1>6, <1>f, <1>t, <2>1, <2>4, <2>5, <2>6 DEF CfgInv
  <2> QED
    BY <2>2, <2>6, <2>7 DEF CfgInv
<1>7. ASSUME NEW u \in Task, NEW x \in Updates(u), Report(u, x), \A t \in Task : ~WorkerBegin(t)
      PROVE  CfgInv'
  <2>1. /\ worker[u] = "active" /\ u \in Present /\ rd' = rd /\ workerCfg' = workerCfg
        /\ UNCHANGED <<edits, overtaken>>
        /\ cfg' = [cfg EXCEPT ![u] = IF u \in BT THEN workerCfg[u] ELSE @]
    BY <1>7 DEF Report, history
  <2>2. \A t \in Task \ overtaken : cfg'[t] = cfg[t]
    BY <1>t, <2>1 DEF CfgInv
  <2> QED
    BY <1>7, <1>c, <2>1, <2>2
<1> QED
  BY <1>1, <1>2, <1>3, <1>4, <1>5, <1>6, <1>7 DEF Next, UserCall, Continue, WorkerStep

\* Whatever workers, reports, pauses, redownloads and restarts fall between the
\* critical sections of EditTask, for any number of tasks, slots and edits, the
\* selection of a task is the one of its last committed edit.  Only a worker that was
\* started behind the back of EditTask, paused again and still at work at the
\* commit (overtaken) escapes its comparison.
THEOREM EditSticksHolds == Spec => []EditSticks
<1> DEFINE I == RedownloadInv /\ StartInv /\ CfgInv
<1>1. Init => I
  BY DEF Init, RedownloadInv, StartInv, CfgInv, NoRedownload, NoEdit
<1>2. SlotInv /\ I /\ [Next]_vars => I'
  BY RedownloadStep, StartStep, CfgStep DEF SlotInv
<1>3. I => EditSticks
  BY DEF EditSticks, CfgInv, Present
<1> QED
  BY <1>1, <1>2, <1>3, SlotSafety, PTL DEF Spec

-----------------------------------------------------------------------------
(* emitLocked (module EventQueue): the newest state of the tasks is never    *)
(* lost on its way to the window, for every capacity of the channel and      *)
(* every number of changes                                                   *)

Values == 0 .. MaxChanges

\* What the sequence operators do to the last element.
LEMMA AppendLast ==
  ASSUME NEW s \in Seq(Values), NEW v \in Values
  PROVE  /\ Append(s, v) \in Seq(Values)
         /\ Len(Append(s, v)) = Len(s) + 1
         /\ Append(s, v) # <<>>
         /\ \A e : Newest(Append(s, v), e) = v
BY DEF Newest

\* Taking the oldest event leaves the newest.
LEMMA TailLast ==
  ASSUME NEW s \in Seq(Values), s # <<>>
  PROVE  /\ Tail(s) \in Seq(Values) /\ Head(s) \in Values
         /\ Len(Tail(s)) = Len(s) - 1
         /\ Len(s) \in Nat /\ Len(s) > 0
         /\ \A e : Newest(s, e) = Newest(Tail(s), Head(s))
<1> DEFINE r == Tail(s)
<1>1. /\ Len(s) \in Nat /\ Len(s) > 0 /\ Head(s) = s[1] /\ Head(s) \in Values
      /\ r \in Seq(Values) /\ Len(r) = Len(s) - 1
      /\ \A i \in 1 .. Len(s) - 1 : r[i] = s[i + 1]
  OBVIOUS
<1> HIDE DEF r
<1>2. CASE r = <<>>
  <2>1. Len(r) = 0
    BY <1>2
  <2>2. Len(s) = 1
    BY <1>1, <2>1
  <2> QED
    BY <1>1, <1>2, <2>2 DEF Newest, r
<1>3. CASE r # <<>>
  <2>1. Len(r) # 0
    BY <1>1, <1>3
  <2>2. r[Len(r)] = s[Len(s)]
    BY <1>1, <2>1
  <2> QED
    BY <1>1, <1>3, <2>2 DEF Newest, r
<1> QED
  BY <1>2, <1>3

\* The inductive invariant.  NewestOnItsWay alone is not inductive: ui.Run may
\* start the pump on a channel that already holds events, whose last one must
\* be the newest state, and the third select must find room.
ChannelNewest == emit = "idle" /\ ~closed => Newest(queue, version) = version

QueueInv ==
  /\ QueueTypeOK
  /\ RoomToResend
  /\ ChannelNewest
  /\ NewestOnItsWay
  /\ window = "new" => posts = <<>>
  /\ closed => window # "open"

\* The empty channel, before a window.
LEMMA QueueInitial == QueueInit => QueueInv
<1> SUFFICES ASSUME QueueInit PROVE QueueInv
  OBVIOUS
<1>1. <<>> \in Seq(Values) /\ Len(<<>>) = 0 /\ 0 \in Values /\ 0 <= Cap
  BY QueueAssumption DEF Values
<1>2. QueueTypeOK
  BY <1>1 DEF QueueInit, QueueTypeOK, Values
<1> QED
  BY <1>2 DEF QueueInit, QueueInv, RoomToResend, ChannelNewest, NewestOnItsWay, Newest

\* Every step of an emission, of the pump and of the window.
LEMMA EmitStep == QueueInv /\ [QueueNext]_queueVars => QueueInv'
<1> SUFFICES ASSUME QueueInv, [QueueNext]_queueVars PROVE QueueInv'
  OBVIOUS
<1>t. /\ queue \in Seq(Values) /\ posts \in Seq(Values) /\ version \in Values
      /\ shown \in Values /\ Cap \in Nat \ {0} /\ MaxChanges \in Nat
      /\ Len(queue) \in Nat /\ Len(queue) <= Cap
  BY QueueAssumption DEF QueueInv, QueueTypeOK, Values
<1>1. CASE Change
  <2>1. version' \in Values /\ version' = version + 1
    BY <1>1, <1>t DEF Change, Values
  <2>2. CASE closed
    BY <1>1, <1>t, <2>1, <2>2
       DEF Change, QueueInv, QueueTypeOK, RoomToResend, ChannelNewest, NewestOnItsWay, Values
  <2>3. CASE ~closed /\ Len(queue) < Cap
    <3>1. queue' = Append(queue, version')
      BY <1>1, <2>3 DEF Change
    <3>2. /\ queue' \in Seq(Values) /\ Len(queue') <= Cap
          /\ \A e : Newest(queue', e) = version'
      BY <1>t, <2>1, <2>3, <3>1, AppendLast
    <3> QED
      BY <1>1, <1>t, <2>1, <2>3, <3>2
         DEF Change, QueueInv, QueueTypeOK, RoomToResend, ChannelNewest, NewestOnItsWay, Values
  <2>4. CASE ~closed /\ ~(Len(queue) < Cap)
    <3>1. emit' = "full" /\ queue' = queue
      BY <1>1, <2>4 DEF Change
    <3> QED
      BY <1>1, <1>t, <2>1, <3>1
         DEF Change, QueueInv, QueueTypeOK, RoomToResend, ChannelNewest, NewestOnItsWay, Values
  <2> QED
    BY <2>2, <2>3, <2>4
<1>2. CASE DropOldest
  <2>1. queue' \in Seq(Values) /\ Len(queue') < Cap
    <3>1. CASE queue = <<>>
      BY <1>2, <1>t, <3>1 DEF DropOldest
    <3>2. CASE queue # <<>>
      BY <1>2, <1>t, <3>2, TailLast DEF DropOldest
    <3> QED
      BY <3>1, <3>2
  <2>2. Len(queue') \in Nat
    BY <2>1
  <2> QED
    BY <1>2, <1>t, <2>1, <2>2
       DEF DropOldest, QueueInv, QueueTypeOK, RoomToResend, ChannelNewest, NewestOnItsWay, Values
<1>3. CASE Resend
  <2>1. queue' = Append(queue, version)
    BY <1>3 DEF Resend, QueueInv, RoomToResend
  <2>2. /\ queue' \in Seq(Values) /\ Len(queue') <= Cap
        /\ \A e : Newest(queue', e) = version
    BY <1>3, <1>t, <2>1, AppendLast DEF Resend, QueueInv, RoomToResend
  <2> QED
    BY <1>3, <1>t, <2>2
       DEF Resend, QueueInv, QueueTypeOK, RoomToResend, ChannelNewest, NewestOnItsWay, Values
<1>4. CASE Close \/ PumpEnd \/ ClearWindow
  BY <1>4, <1>t
     DEF Close, PumpEnd, ClearWindow, QueueInv, QueueTypeOK, RoomToResend, ChannelNewest,
         NewestOnItsWay, Values
<1>5. CASE StartPump
  <2>1. Newest(queue, Newest(posts, version)) = Newest(queue, version)
    BY <1>5 DEF StartPump, QueueInv, Newest
  <2> QED
    BY <1>5, <1>t, <2>1
       DEF StartPump, QueueInv, QueueTypeOK, RoomToResend, ChannelNewest, NewestOnItsWay, Values
<1>6. CASE PumpEvent
  <2>1. queue # <<>> /\ queue' = Tail(queue)
    BY <1>6 DEF PumpEvent
  <2>2. /\ queue' \in Seq(Values) /\ Head(queue) \in Values /\ Len(queue') < Cap
        /\ \A e : Newest(queue, e) = Newest(queue', Head(queue))
    BY <1>t, <2>1, TailLast
  <2>3. emit = "idle" /\ ~closed => Newest(queue', version) = version
    BY <2>2 DEF QueueInv, ChannelNewest, Newest
  <2>4. CASE window = "open"
    <3>1. posts' = Append(posts, Head(queue))
      BY <1>6, <2>4 DEF PumpEvent
    <3>2. posts' \in Seq(Values) /\ \A e : Newest(posts', e) = Head(queue)
      BY <1>t, <2>2, <3>1, AppendLast
    <3>3. \A e : Newest(queue', Newest(posts', e)) = Newest(queue, version)
      BY <2>2, <3>2
    <3> QED
      BY <1>6, <1>t, <2>2, <2>3, <2>4, <3>2, <3>3
         DEF PumpEvent, QueueInv, QueueTypeOK, RoomToResend, ChannelNewest, NewestOnItsWay, Values
  <2>5. CASE window # "open"
    BY <1>6, <1>t, <2>2, <2>3, <2>5
       DEF PumpEvent, QueueInv, QueueTypeOK, RoomToResend, ChannelNewest, NewestOnItsWay, Values
  <2> QED
    BY <2>4, <2>5
<1>7. CASE Show
  <2>1. /\ posts # <<>> /\ posts' = Tail(posts) /\ shown' = Head(posts)
        /\ queue' = queue /\ window' = window /\ window = "open"
    BY <1>7 DEF Show
  <2>2. /\ posts' \in Seq(Values) /\ shown' \in Values
        /\ \A e : Newest(posts, e) = Newest(posts', shown')
    BY <1>t, <2>1, TailLast
  <2> QED
    BY <1>7, <1>t, <2>1, <2>2
       DEF Show, QueueInv, QueueTypeOK, RoomToResend, ChannelNewest, NewestOnItsWay, Values
<1>8. CASE UNCHANGED queueVars
  BY <1>8 DEF queueVars, QueueInv, QueueTypeOK, RoomToResend, ChannelNewest, NewestOnItsWay, Newest
<1> QED
  BY <1>1, <1>2, <1>3, <1>4, <1>5, <1>6, <1>7, <1>8 DEF QueueNext

\* emitLocked keeps the newest state: it is in the channel, posted or shown as
\* long as the window is open, for any capacity of at least one event.
THEOREM NewestNeverLost == QueueSpec => []NewestOnItsWay
<1>1. QueueInv => NewestOnItsWay
  BY DEF QueueInv
<1> QED
  BY <1>1, QueueInitial, EmitStep, PTL DEF QueueSpec

\* The third select of emitLocked never takes its default branch.
THEOREM ResendSucceeds == QueueSpec => []RoomToResend
<1>1. QueueInv => RoomToResend
  BY DEF QueueInv
<1> QED
  BY <1>1, QueueInitial, EmitStep, PTL DEF QueueSpec
=============================================================================
