------------------------------ MODULE SlotLoops ------------------------------
(***************************************************************************)
(* The loops of enforceMaxRunningLocked and scheduleWaitingLocked, one     *)
(* iteration per task in order, against the sets Overflow and Admitted     *)
(* that Scheduler uses in their place.                                     *)
(***************************************************************************)
EXTENDS Scheduler

\* Faulty variant of SlotCount: removed tasks count as well.
SlotCountRemoved(st, rn) == Cardinality({t \in rn : usesSlot[t]})

\* runningSlotCountLocked
SlotCount(st, rn) == Cardinality({t \in rn : st[t] # "absent" /\ usesSlot[t]})

\* One iteration of enforceMaxRunningLocked: s is <<kept, the tasks paused>>
EnforceStep(s, t, m) ==
  IF t \notin running \/ status[t] = "absent" \/ ~usesSlot[t] THEN s
  ELSE IF s[1] < m THEN <<s[1] + 1, s[2]>> ELSE <<s[1], s[2] \cup {t}>>

\* The tasks the loop pauses; none when the count does not exceed the limit.
Enforced(m) ==
  LET loop[i \in 0 .. MaxTasks] == IF i = 0 THEN <<0, {}>> ELSE EnforceStep(loop[i-1], i, m)
  IN IF SlotCount(status, running) <= m THEN {} ELSE loop[MaxTasks][2]

\* One iteration of scheduleWaitingLocked: s is <<the statuses, s.running>>, and
\* scheduleLocked counts the slots anew.
ScheduleStep(s, t, m) ==
  LET refused == \/ stopping \/ s[1][t] # "waiting" \/ t \in s[2]
                 \/ usesSlot[t] /\ SlotCount(s[1], s[2]) >= m
  IN IF refused THEN s
     ELSE IF t \in Registered
     THEN <<[s[1] EXCEPT ![t] = "running"], s[2] \cup {t}>>
     ELSE <<[s[1] EXCEPT ![t] = "failed"], s[2]>>

Scheduled(st, m) ==
  LET loop[i \in 0 .. MaxTasks] == IF i = 0 THEN <<st, running>> ELSE ScheduleStep(loop[i-1], i, m)
  IN loop[MaxTasks]

-----------------------------------------------------------------------------
\* In every state and for every new limit, the enforcing loop pauses exactly the
\* slot holders beyond the first m, and the scheduling loop, run after it or by
\* StartAll, starts exactly the admitted tasks that have a worker and fails the
\* admitted ones that have none, although each iteration counts the slots anew.
LoopsComputeSlots ==
  \A m \in Limits :
    /\ Enforced(m) = Overflow(status, usesSlot, running, m)
    /\ \A idle \in {{}, {t \in Task : status[t] = "paused"}} :
         LET paused == Pause(status, Enforced(m))
             st == [t \in Task |-> IF t \in idle THEN "waiting" ELSE paused[t]]
             queue == {t \in Task \ running : st[t] = "waiting"}
             holders == Cardinality(SlotHolders(st, usesSlot, running))
             admitted == IF stopping THEN {} ELSE Admitted(queue, usesSlot, holders, m)
             loop == Scheduled(st, m)
         IN /\ loop[2] = running \cup (admitted \cap Registered)
            /\ loop[1] = [t \in Task |-> IF t \in admitted \cap Registered THEN "running"
                                         ELSE IF t \in admitted THEN "failed" ELSE st[t]]
=============================================================================
