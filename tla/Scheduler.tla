------------------------------ MODULE Scheduler ------------------------------
(***************************************************************************)
(* The task scheduler of internal/core/scheduler.go.                       *)
(*                                                                         *)
(* Every exported method runs under the mutex mu, so each of its critical  *)
(* sections is one action.  Redownload, EditTask and StopAll leave mu in   *)
(* the middle (to wait for a worker, to delete files, to run the edit      *)
(* callback) and are split there; editMu, which they keep while they wait, *)
(* is the variable editMu.  A worker goroutine takes mu three times: to    *)
(* copy its task, in every progress report, and when it has returned.      *)
(*                                                                         *)
(* runTask deletes its entry, may restart waiting tasks, unlocks and then  *)
(* closes done; the close is part of that last critical section here.  The *)
(* only waiters keep the task paused (Redownload, EditTask, holding editMu) *)
(* or everything stopped (StopAll), so no new worker can come in between.   *)
(*                                                                         *)
(* disk is what the store holds: saveLocked replaces all of it in one      *)
(* transaction (TaskStore looks inside), and Load reads it when the program *)
(* starts again.  A crash may come at any moment; a worker or a half-done  *)
(* Redownload or EditTask simply vanishes.                                 *)
(***************************************************************************)
EXTENDS Slots

CONSTANTS
  MaxStored,     \* bound: how many tasks the store holds at start-up
  StoredStatus,  \* statuses the store may hold, after Load normalised them
  BT,            \* the tasks of the bt pack
  Limits,        \* the values maxRunning takes
  MaxEdits,      \* bound: committed edits of one task
  MaxRestarts,   \* bound: how often the program is started again
  Calls          \* the API calls the users of the scheduler make

Status == {"waiting", "running", "seeding", "paused", "completed", "failed"}
Active == {"running", "seeding"}

CallNames == {"add", "setmax", "toggle", "startall", "pauseall", "remove",
              "redownload", "edit", "stopall"}

ASSUME ConstantsAssumption ==
  /\ MaxStored \in 0 .. MaxTasks
  /\ StoredStatus \subseteq Status \ Active
  /\ BT \subseteq Task
  /\ Limits \subseteq Nat \ {0}
  /\ Limits # {}
  /\ {MaxEdits, MaxRestarts} \subseteq Nat
  /\ Calls \subseteq CallNames

VARIABLES
  status,      \* Task.Status; "absent" when s.tasks has no such key
  usesSlot,    \* Task.UsesSlot
  cfg,         \* number of the file selection in Stage.State["files"]
  added,       \* how many identifiers have been handed out
  running,     \* the keys of s.running
  cancelled,   \* the keys of s.running whose context is cancelled
  worker,      \* the goroutine runTask of a task; "two" if there were two
  workerCfg,   \* the selection in that goroutine's copy of the task
  maxRunning,  \* Scheduler.maxRunning
  stopping,    \* Scheduler.stopping
  stopped,     \* Scheduler.eventsClosed: a StopAll has returned
  editMu,      \* who holds editMu between two critical sections of mu
  rd,          \* the Redownload in progress (editMu admits one)
  ed,          \* the EditTask in progress (editSerialMu admits one)
  timer,       \* saveTimer is armed
  saveFailed,  \* the last saveLocked got an error from the store
  disk,        \* the rows of the store
  held,        \* history: the last user command for the unfinished task was a pause
  edits,       \* history: how many edits of the task were committed
  overtaken,   \* history: tasks a worker was at work on at their last commit, started
               \* after EditTask had waited for workers, with their status as before
  restarts     \* history: how often the program was started again

taskVars == <<status, usesSlot, cfg, added>>
workVars == <<running, cancelled, worker, workerCfg>>
lockVars == <<stopping, stopped, editMu>>
saveVars == <<timer, saveFailed, disk>>
history  == <<held, edits, overtaken, restarts>>
vars == <<taskVars, workVars, maxRunning, lockVars, rd, ed, saveVars, history>>

Present == {t \in Task : status[t] # "absent"}

NoRedownload == [pc |-> "idle", task |-> 0, waited |-> FALSE, slot |-> FALSE, cfg |-> 0]
NoEdit == [pc |-> "idle", task |-> 0, waited |-> FALSE, resume |-> FALSE,
           status |-> "absent", slot |-> FALSE, cfg |-> 0,
           pausedAll |-> FALSE, touched |-> FALSE, started |-> FALSE]

-----------------------------------------------------------------------------
(* Starting workers *)

\* scheduleLocked on each task of W in order: status, running and worker become
\* st, rn and wk with the admitted tasks started, or failed without a worker.
Launch(W, st, us, rn, wk, mx) ==
  LET admitted == IF stopping THEN {}
                  ELSE Admitted(W, us, Cardinality(SlotHolders(st, us, rn)), mx)
      started == admitted \cap Registered
  IN /\ status' = [t \in Task |-> IF t \in started THEN "running"
                                  ELSE IF t \in admitted THEN "failed" ELSE st[t]]
     /\ running' = rn \cup started
     /\ worker' = [t \in Task |-> IF t \notin started THEN wk[t]
                                  ELSE IF wk[t] = "none" THEN "spawned" ELSE "two"]

\* Faulty variants of ScheduleWaiting: without scheduleLocked's test that the old
\* worker is gone; called before runTask deletes the entry; and stopping at the
\* first waiting task.
ScheduleWaitingAgain(st, us, rn, wk, mx) ==
  Launch({t \in Task : st[t] = "waiting"}, st, us, rn, wk, mx)
ScheduleBeforeDelete(st, us, rn, wk, mx) ==
  Launch({t \in Task \ running : st[t] = "waiting"}, st, us, rn, wk, mx)
ScheduleFirst(st, us, rn, wk, mx) ==
  LET queue == {t \in Task : st[t] = "waiting"}
  IN Launch({t \in queue \ rn : Earlier(queue, t) = {}}, st, us, rn, wk, mx)

\* scheduleWaitingLocked
ScheduleWaiting(st, us, rn, wk, mx) ==
  Launch({t \in Task \ rn : st[t] = "waiting"}, st, us, rn, wk, mx)

\* scheduleLocked on one task, with its guard on the status
Schedule(t, st, us, rn, wk, mx) ==
  Launch({u \in {t} \ rn : st[u] \notin Active \cup {"completed", "absent"}},
         st, us, rn, wk, mx)

\* Faulty variant of Pause: cancels the worker and leaves the active status.
PauseWaitingOnly(st, S) == [t \in Task |-> IF t \in S /\ st[t] = "waiting" THEN "paused" ELSE st[t]]

Pause(st, S) == [t \in Task |-> IF t \in S THEN "paused" ELSE st[t]]

-----------------------------------------------------------------------------
(* Saving *)

\* What is kept of a task
Row == [status : Status \cup {"absent"}, slot : BOOLEAN, cfg : 0 .. MaxEdits]
NoRow == [status |-> "absent", slot |-> TRUE, cfg |-> 0]

\* The rows saveLocked writes.  A store that nobody will read is left out.
Rows ==
  [t \in Task |-> IF t \in Present /\ MaxRestarts > 0
                  THEN [status |-> status[t], slot |-> usesSlot[t], cfg |-> cfg[t]] ELSE NoRow]

\* Load: a task stored as active comes back paused; waiting stays as it is.
Normalised(rows) ==
  [t \in Task |-> IF rows[t].status \in Active THEN [rows[t] EXCEPT !.status = "paused"] ELSE rows[t]]

\* Faulty variants of ScheduleSave: no timer while an edit is in progress; and
\* no look at stopping.
ScheduleSaveIdle ==
  /\ timer' = (timer \/ (~stopping /\ ed.pc = "idle"))
  /\ UNCHANGED <<saveFailed, disk>>
ScheduleSaveAlways ==
  /\ timer' = TRUE
  /\ UNCHANGED <<saveFailed, disk>>

\* scheduleSaveLocked after a change of the tasks
ScheduleSave ==
  /\ timer' = (timer \/ ~stopping)
  /\ UNCHANGED <<saveFailed, disk>>

\* saveLocked; the store may refuse
SaveTasks(ok) ==
  /\ disk' = IF ok THEN Rows ELSE disk
  /\ saveFailed' = ~ok

\* The callback of saveTimer.  stale: it lost the race with a Stop and runs
\* beside its successor.
SaveTimer ==
  /\ timer /\ ~stopping
  /\ \E ok, stale \in BOOLEAN : SaveTasks(ok) /\ timer' = stale
  /\ UNCHANGED <<taskVars, workVars, maxRunning, lockVars, rd, ed, history>>

-----------------------------------------------------------------------------
(* Calls that are one critical section *)

\* The copy an edit compares with may differ from the task's numbers from now
\* on (received bytes, speed, error text; statuses are compared exactly).
Touch(t) ==
  ed' = IF ed.pc = "callback" /\ ed.task = t THEN [ed EXCEPT !.touched = TRUE] ELSE ed

Add ==
  /\ "add" \in Calls
  /\ added < MaxTasks
  /\ LET t == added + 1 IN
     /\ added' = t
     /\ \E prepared \in BOOLEAN :
          IF prepared
          THEN Schedule(t, [status EXCEPT ![t] = "waiting"], usesSlot, running, worker, maxRunning)
          ELSE /\ status' = [status EXCEPT ![t] = "failed"]
               /\ UNCHANGED <<running, worker>>
  /\ ScheduleSave
  /\ UNCHANGED <<usesSlot, cfg, cancelled, workerCfg, maxRunning, lockVars, rd, ed, history>>

SetMaxRunning(m) ==
  /\ "setmax" \in Calls
  /\ LET over == Overflow(status, usesSlot, running, m) IN
     /\ ScheduleWaiting(Pause(status, over), usesSlot, running, worker, m)
     /\ cancelled' = cancelled \cup over
  /\ maxRunning' = m
  /\ ScheduleSave
  /\ UNCHANGED <<usesSlot, cfg, added, workerCfg, lockVars, rd, ed, history>>

\* A pause that comes to nothing.  When EditTask has stopped the task itself, its
\* comparison does not see that the user has started the task and paused it again,
\* and it resumes the task.  And a task that Redownload or EditTask has put back
\* among the waiting may have been started in between: its worker is not cancelled.
Unheard(t) ==
  \/ ed.pc = "callback" /\ ed.task = t /\ ed.resume /\ ed.status = "paused"
  \/ status[t] = "waiting" /\ t \in running \ cancelled

TogglePause(t) ==
  /\ "toggle" \in Calls
  /\ editMu = "free"
  /\ t \in Present
  /\ \/ /\ status[t] \in Active /\ t \in running
        /\ status' = [status EXCEPT ![t] = "paused"]
        /\ cancelled' = cancelled \cup {t}
        /\ held' = IF Unheard(t) THEN held ELSE held \cup {t}
        /\ UNCHANGED <<running, worker>>
     \/ /\ status[t] = "waiting"
        /\ status' = [status EXCEPT ![t] = "paused"]
        /\ held' = IF Unheard(t) THEN held ELSE held \cup {t}
        /\ UNCHANGED <<running, worker, cancelled>>
     \/ /\ status[t] \notin {"waiting", "completed"}
        /\ ~(status[t] \in Active /\ t \in running)
        /\ Schedule(t, [status EXCEPT ![t] = "waiting"], usesSlot, running, worker, maxRunning)
        /\ held' = held \ {t}
        /\ UNCHANGED cancelled
  /\ ScheduleSave
  /\ Touch(t)
  /\ UNCHANGED <<usesSlot, cfg, added, workerCfg, maxRunning, lockVars, rd, edits, overtaken, restarts>>

StartAll ==
  /\ "startall" \in Calls
  /\ editMu = "free"
  /\ LET idle == {t \in Task : status[t] \in {"paused", "waiting"}}
         st == [t \in Task |-> IF t \in idle THEN "waiting" ELSE status[t]]
     IN /\ ScheduleWaiting(st, usesSlot, running, worker, maxRunning)
        /\ held' = held \ idle
  /\ ScheduleSave
  /\ UNCHANGED <<usesSlot, cfg, added, cancelled, workerCfg, maxRunning, lockVars, rd, ed, edits, overtaken, restarts>>

PauseAll ==
  /\ "pauseall" \in Calls
  /\ editMu = "free"
  /\ LET paused == (running \cap Present) \cup {t \in Task : status[t] = "waiting"} IN
     /\ status' = Pause(status, paused)
     /\ held' = held \cup paused
  /\ cancelled' = cancelled \cup running
  /\ ed' = IF ed.pc = "callback" THEN [ed EXCEPT !.pausedAll = TRUE] ELSE ed  \* pauseEpoch++
  /\ ScheduleSave
  /\ UNCHANGED <<usesSlot, cfg, added, running, worker, workerCfg, maxRunning, lockVars, rd, edits, overtaken, restarts>>

Remove(t) ==
  /\ "remove" \in Calls
  /\ t \in Present
  /\ usesSlot' = [usesSlot EXCEPT ![t] = TRUE]
  /\ ScheduleWaiting([status EXCEPT ![t] = "absent"], usesSlot', running, worker, maxRunning)
  /\ cancelled' = cancelled \cup ({t} \cap running)
  /\ cfg' = [cfg EXCEPT ![t] = 0]
  /\ held' = held \ {t}
  /\ edits' = [edits EXCEPT ![t] = 0]
  /\ overtaken' = overtaken \ {t}
  /\ ScheduleSave
  /\ UNCHANGED <<added, workerCfg, maxRunning, lockVars, rd, ed, restarts>>

-----------------------------------------------------------------------------
(* Redownload: cancel and wait, copy, clean up without mu, requeue *)

\* Faulty variants of WorkerGone: a cancelled worker counts as gone; and waiting
\* for the entry of s.running instead of done.
WorkerCancelled(t) == worker[t] = "none" \/ t \in cancelled
EntryGone(t) == t \notin running

WorkerGone(t) == worker[t] = "none"   \* its done channel is closed

RedownloadBegin(t) ==
  /\ "redownload" \in Calls
  /\ editMu = "free"
  /\ t \in Present
  /\ rd' = [NoRedownload EXCEPT !.pc = "wait", !.task = t, !.waited = t \in running]
  /\ editMu' = "redownload"
  /\ status' = Pause(status, {t} \cap running)
  /\ cancelled' = cancelled \cup ({t} \cap running)
  /\ held' = held \ {t}
  /\ UNCHANGED <<usesSlot, cfg, added, running, worker, workerCfg, maxRunning,
                 stopping, stopped, ed, saveVars, edits, overtaken, restarts>>

RedownloadReturn == rd' = NoRedownload /\ editMu' = "free"

RedownloadCopy ==
  /\ rd.pc = "wait"
  /\ rd.waited => WorkerGone(rd.task)
  /\ IF rd.task \in Present
     THEN /\ rd' = [rd EXCEPT !.pc = "cleanup", !.slot = usesSlot[rd.task], !.cfg = cfg[rd.task]]
          /\ UNCHANGED editMu
     ELSE RedownloadReturn
  /\ UNCHANGED <<taskVars, workVars, maxRunning, stopping, stopped, ed, saveVars, history>>

\* CleanupFiles or ResetTask failed, the scheduler is stopping, or the task is gone
RedownloadAbort ==
  /\ rd.pc = "cleanup"
  /\ RedownloadReturn
  /\ UNCHANGED <<taskVars, workVars, maxRunning, stopping, stopped, ed, saveVars, history>>

\* The bt worker is a TaskResetter: the reset copy uses a slot again
RedownloadRequeue ==
  /\ rd.pc = "cleanup"
  /\ ~stopping
  /\ rd.task \in Present
  /\ LET t == rd.task
         us == [usesSlot EXCEPT ![t] = t \in BT \cap Registered \/ rd.slot]
     IN /\ usesSlot' = us
        /\ cfg' = [cfg EXCEPT ![t] = rd.cfg]
        /\ ScheduleWaiting([status EXCEPT ![t] = "waiting"], us, running, worker, maxRunning)
        /\ Touch(t)
  /\ RedownloadReturn
  /\ ScheduleSave
  /\ UNCHANGED <<added, cancelled, workerCfg, maxRunning, stopping, stopped, history>>

-----------------------------------------------------------------------------
(* EditTask: cancel and wait, copy, run the callback without any lock but   *)
(* editSerialMu, then commit unless the task changed                        *)

EditBegin(t) ==
  /\ "edit" \in Calls
  /\ ed.pc = "idle"                            \* editSerialMu.TryLock
  /\ editMu = "free"
  /\ t \in Present
  /\ ed' = [NoEdit EXCEPT !.pc = "wait", !.task = t, !.waited = t \in running,
                          !.resume = status[t] # "paused"]
  /\ editMu' = "edit"
  /\ status' = Pause(status, {t} \cap running)
  /\ cancelled' = cancelled \cup ({t} \cap running)
  /\ UNCHANGED <<usesSlot, cfg, added, running, worker, workerCfg, maxRunning,
                 stopping, stopped, rd, saveVars, history>>

EditCopy ==
  /\ ed.pc = "wait"
  /\ ed.waited => WorkerGone(ed.task)
  /\ ed' = IF stopping \/ ed.task \notin Present THEN NoEdit
           ELSE [ed EXCEPT !.pc = "callback", !.status = status[ed.task],
                           !.slot = usesSlot[ed.task], !.cfg = cfg[ed.task]]
  /\ editMu' = "free"
  /\ UNCHANGED <<taskVars, workVars, maxRunning, stopping, stopped, rd, saveVars, history>>

\* Faulty variant of TaskDiffers: the edit is committed over any change.
NeverDiffers == FALSE

\* !reflect.DeepEqual(*task, original), for the fields the model keeps
TaskDiffers == <<status[ed.task], usesSlot[ed.task], cfg[ed.task]>> # <<ed.status, ed.slot, ed.cfg>>

\* The error returns after the callback: stopping, task not found, task changed
\* during edit, or the callback failed for a task that is not to be resumed.
EditAbort ==
  /\ ed.pc = "callback"
  /\ editMu = "free"
  /\ \/ stopping
     \/ ed.task \notin Present
     \/ ed.pausedAll
     \/ TaskDiffers
     \/ ed.touched
     \/ ~ed.resume
  /\ ed' = NoEdit
  /\ UNCHANGED <<taskVars, workVars, maxRunning, lockVars, rd, saveVars, history>>

\* failed: the callback returned an error and the task is only resumed
EditCommit(failed) ==
  /\ ed.pc = "callback"
  /\ editMu = "free"
  /\ ~stopping
  /\ ed.task \in Present
  /\ ~ed.pausedAll
  /\ ~TaskDiffers
  /\ failed => ed.resume
  /\ LET t == ed.task IN
     /\ IF failed
        THEN UNCHANGED <<cfg, edits, overtaken>>
        ELSE /\ edits[t] < MaxEdits
             /\ edits' = [edits EXCEPT ![t] = @ + 1]
             /\ cfg' = [cfg EXCEPT ![t] = edits[t] + 1]
             /\ overtaken' = IF ed.started /\ worker[t] = "active" /\ status[t] = ed.status
                             THEN overtaken \cup {t} ELSE overtaken \ {t}
     /\ IF ed.resume
        THEN Schedule(t, [status EXCEPT ![t] = "waiting"], usesSlot, running, worker, maxRunning)
        ELSE status' = [status EXCEPT ![t] = "paused"] /\ UNCHANGED <<running, worker>>
  /\ ed' = NoEdit
  /\ ScheduleSave
  /\ UNCHANGED <<usesSlot, added, cancelled, workerCfg, maxRunning, lockVars, rd, held, restarts>>

-----------------------------------------------------------------------------
(* StopAll *)

StopBegin ==
  /\ "stopall" \in Calls
  /\ editMu = "free"
  /\ editMu' = "stopall"
  /\ stopping' = TRUE
  /\ cancelled' = cancelled \cup running
  /\ LET busy == {t \in Task : status[t] \in Active \cup {"waiting"}} IN
     status' = Pause(status, busy)
  /\ timer' = FALSE
  /\ UNCHANGED <<usesSlot, cfg, added, running, worker, workerCfg, maxRunning,
                 stopped, rd, ed, saveFailed, disk, history>>

\* running only shrinks once stopping is set: the done channels StopAll waits
\* for are those of the entries that are left.
StopEnd ==
  /\ editMu = "stopall"
  /\ \A t \in running : WorkerGone(t)
  /\ \E ok \in BOOLEAN : SaveTasks(ok)
  /\ timer' = FALSE
  /\ stopped' = TRUE
  /\ editMu' = "free"
  /\ UNCHANGED <<taskVars, workVars, maxRunning, stopping, rd, ed, history>>

-----------------------------------------------------------------------------
(* The goroutine runTask *)

\* Copy the task.  If it was removed before the goroutine got mu, runTask
\* returns without deleting its entry of s.running.
WorkerBegin(t) ==
  /\ worker[t] = "spawned"
  /\ worker' = [worker EXCEPT ![t] = IF t \in Present THEN "active" ELSE "none"]
  /\ workerCfg' = [workerCfg EXCEPT ![t] = cfg[t]]
  /\ ed' = IF ed.task = t /\ (ed.pc = "callback" \/ (ed.pc = "wait" /\ ~ed.waited))
           THEN [ed EXCEPT !.started = TRUE] ELSE ed
  /\ UNCHANGED <<taskVars, running, cancelled, maxRunning, lockVars, rd, saveVars, history>>

\* What a worker reports besides numbers.  Only the bt worker sends a status, a
\* slot flag and a Stage.State patch; the patch carries its file selection.
Plain == [status |-> "", slot |-> "keep"]
BtUpdates ==
  [status : {"", "running"}, slot : {"take"}] \cup [status : {"", "seeding"}, slot : {"free"}]
Updates(t) == IF t \in BT THEN BtUpdates ELSE {Plain}

\* The report closure.  Giving up the slot lets waiting tasks start, taking it
\* back pauses whoever is now beyond the limit.
Report(t, u) ==
  /\ worker[t] = "active"
  /\ t \in Present
  /\ LET st == [status EXCEPT ![t] = IF u.status # "" /\ @ \in Active THEN u.status ELSE @]
         us == [usesSlot EXCEPT ![t] = IF u.slot = "keep" THEN @ ELSE u.slot = "take"]
         over == IF ~usesSlot[t] /\ us[t] THEN Overflow(st, us, running, maxRunning) ELSE {}
     IN /\ usesSlot' = us
        /\ cancelled' = cancelled \cup over
        /\ IF usesSlot[t] /\ ~us[t]
           THEN ScheduleWaiting(st, us, running, worker, maxRunning)
           ELSE status' = Pause(st, over) /\ UNCHANGED <<running, worker>>
  /\ cfg' = [cfg EXCEPT ![t] = IF t \in BT THEN workerCfg[t] ELSE @]
  /\ Touch(t)
  /\ ScheduleSave
  /\ UNCHANGED <<added, workerCfg, maxRunning, lockVars, rd, history>>

\* The report of a goroutine that outlives Run: Worker.Run of the http pack does
\* not wait for its ticker.  It carries numbers only.
LateReport(t) ==
  /\ t \in (Present \cap Registered) \ BT
  /\ worker[t] # "active"
  /\ Touch(t)
  /\ ScheduleSave
  /\ UNCHANGED <<taskVars, workVars, maxRunning, lockVars, rd, history>>

\* Faulty variant of Outcome: cancellation is treated as any other error.
OutcomeFailed(st, result) == IF result = "ok" THEN "completed" ELSE "failed"

\* The status runTask leaves behind, for what Run returned
Outcome(st, result) ==
  CASE result = "ok" -> "completed"
    [] result = "error" -> "failed"
    [] result = "canceled" -> IF st \in Active THEN "paused" ELSE st

\* Run returned; the entry is deleted, done is closed.  A worker may finish or
\* fail although it was cancelled.
WorkerReturn(t, result) ==
  /\ worker[t] = "active"
  /\ result = "canceled" => t \in cancelled
  /\ cancelled' = cancelled \ {t}
  /\ held' = IF result = "canceled" THEN held ELSE held \ {t}
  /\ LET wk == [worker EXCEPT ![t] = "none"]
         rn == running \ {t}
     IN IF t \in Present
        THEN /\ ScheduleWaiting([status EXCEPT ![t] = Outcome(@, result)], usesSlot, rn, wk, maxRunning)
             /\ Touch(t)
             /\ ScheduleSave
        ELSE running' = rn /\ worker' = wk /\ UNCHANGED <<status, ed, saveVars>>
  /\ UNCHANGED <<usesSlot, cfg, added, workerCfg, maxRunning, lockVars, rd, edits, overtaken, restarts>>

Results == {"ok", "error", "canceled"}

-----------------------------------------------------------------------------
\* NewScheduler and a successful Load: the first n identifiers come from the
\* store, none of them is scheduled; migrated: Load rewrote an FTP output name.
Init ==
  /\ \E n \in 0 .. MaxStored, migrated \in BOOLEAN :
       /\ added = n
       /\ status \in [Task -> StoredStatus \cup {"absent"}]
       /\ \A t \in Task : status[t] = "absent" <=> t > n
       /\ timer = migrated
  /\ usesSlot \in [Task -> BOOLEAN]
  /\ \A t \in Task : t \notin BT \/ t > added => usesSlot[t]
  /\ cfg = [t \in Task |-> 0]
  /\ running = {}
  /\ cancelled = {}
  /\ worker = [t \in Task |-> "none"]
  /\ workerCfg = [t \in Task |-> 0]
  /\ maxRunning \in Limits
  /\ stopping = FALSE
  /\ stopped = FALSE
  /\ editMu = "free"
  /\ rd = NoRedownload
  /\ ed = NoEdit
  /\ saveFailed = FALSE
  /\ held = {}
  /\ edits = [t \in Task |-> 0]
  /\ overtaken = {}
  /\ disk = Rows
  /\ restarts = 0

\* The process ends, at any moment or after StopAll, and app.Run starts over:
\* NewScheduler, then Load; nothing is scheduled.
Reboot ==
  /\ restarts < MaxRestarts
  /\ restarts' = restarts + 1
  /\ LET rows == Normalised(disk) IN
     /\ status' = [t \in Task |-> rows[t].status]
     /\ usesSlot' = [t \in Task |-> rows[t].slot]
     /\ cfg' = [t \in Task |-> rows[t].cfg]
     /\ edits' = [t \in Task |-> rows[t].cfg]
  /\ running' = {} /\ cancelled' = {}
  /\ worker' = [t \in Task |-> "none"]
  /\ workerCfg' = [t \in Task |-> 0]
  /\ maxRunning' \in Limits
  /\ stopping' = FALSE /\ stopped' = FALSE /\ editMu' = "free"
  /\ rd' = NoRedownload /\ ed' = NoEdit
  /\ timer' = FALSE /\ saveFailed' = FALSE
  /\ held' = {} /\ overtaken' = {}
  /\ UNCHANGED <<added, disk>>

WorkerStep(t) ==
  \/ WorkerBegin(t)
  \/ \E u \in Updates(t) : Report(t, u)
  \/ LateReport(t)
  \/ \E r \in Results : WorkerReturn(t, r)

UserCall ==
  \/ Add
  \/ \E m \in Limits : SetMaxRunning(m)
  \/ StartAll
  \/ PauseAll
  \/ StopBegin
  \/ \E t \in Task : TogglePause(t) \/ Remove(t) \/ RedownloadBegin(t) \/ EditBegin(t)

\* The later critical sections of a call that has begun
Continue ==
  \/ RedownloadCopy \/ RedownloadAbort \/ RedownloadRequeue
  \/ EditCopy \/ EditAbort \/ EditCommit(TRUE) \/ EditCommit(FALSE)
  \/ StopEnd

Next ==
  \/ UserCall
  \/ Continue
  \/ SaveTimer
  \/ \E t \in Task : WorkerStep(t)
  \/ Reboot

Spec == Init /\ [][Next]_vars

(***************************************************************************)
(* Fairness.  The Go runtime runs every runnable goroutine and hands mu    *)
(* and editMu to every waiter; Worker.Run must return once its context is  *)
(* cancelled, and CleanupFiles and the edit callback return.  Nothing is   *)
(* assumed of users, of the save timer or of a download nobody cancelled.  *)
(***************************************************************************)
ReturnWhenCancelled(t) == t \in cancelled /\ \E r \in Results : WorkerReturn(t, r)

WorkerFairness(t) == WF_vars(WorkerBegin(t)) /\ WF_vars(ReturnWhenCancelled(t))

Fairness ==
  /\ WF_vars(RedownloadCopy)
  /\ WF_vars(RedownloadAbort \/ RedownloadRequeue)
  /\ WF_vars(EditCopy)
  /\ WF_vars(StopEnd)
  /\ \A t \in Task : WorkerFairness(t)

FairSpec == Spec /\ Fairness

\* The part of it that QueueDrains needs
WorkerSpec == Spec /\ \A t \in Task : WorkerFairness(t)

-----------------------------------------------------------------------------
(* Properties *)

RedownloadCall ==
  [pc : {"idle", "wait", "cleanup"}, task : 0 .. MaxTasks, waited : BOOLEAN,
   slot : BOOLEAN, cfg : 0 .. MaxEdits]

EditCall ==
  [pc : {"idle", "wait", "callback"}, task : 0 .. MaxTasks, waited : BOOLEAN,
   resume : BOOLEAN, status : Status \cup {"absent"}, slot : BOOLEAN,
   cfg : 0 .. MaxEdits, pausedAll : BOOLEAN, touched : BOOLEAN, started : BOOLEAN]

\* The shape of the state.
TypeOK ==
  /\ status \in [Task -> Status \cup {"absent"}]
  /\ usesSlot \in [Task -> BOOLEAN]
  /\ cfg \in [Task -> 0 .. MaxEdits]
  /\ added \in 0 .. MaxTasks
  /\ running \subseteq Task
  /\ cancelled \subseteq running
  /\ worker \in [Task -> {"none", "spawned", "active", "two"}]
  /\ workerCfg \in [Task -> 0 .. MaxEdits]
  /\ maxRunning \in Limits
  /\ stopping \in BOOLEAN
  /\ stopped \in BOOLEAN
  /\ editMu \in {"free", "redownload", "edit", "stopall"}
  /\ rd \in RedownloadCall
  /\ ed \in EditCall
  /\ timer \in BOOLEAN
  /\ saveFailed \in BOOLEAN
  /\ disk \in [Task -> Row]
  /\ held \subseteq Task
  /\ edits \in [Task -> 0 .. MaxEdits]
  /\ overtaken \subseteq Task
  /\ restarts \in 0 .. MaxRestarts

\* A task shown as running or seeding has a goroutine at work that nobody has
\* cancelled: no handler leaves the status behind when it stops a worker, and
\* no late report brings an active status back.
ActiveHasWorker ==
  \A t \in Task : status[t] \in Active => t \in running \ cancelled /\ worker[t] # "none"

\* An entry of s.running never outlives its goroutine while the task exists:
\* otherwise scheduleLocked would refuse to start the task for ever.  (runTask
\* does leave its entry behind when the task was removed before it started.)
NoStuckEntry == \A t \in running \cap Present : worker[t] # "none"

\* Identifiers not handed out yet name nothing, in memory and in the store.
Fresh == \A t \in Task : t > added => status[t] = "absent" /\ t \notin running
FreshDisk == \A t \in Task : t > added => disk[t].status = "absent"

\* At most maxRunning active tasks use a slot, through every SetMaxRunning,
\* removal, restart and every change between downloading and seeding.
ActiveSlots == {t \in Task : status[t] \in Active /\ usesSlot[t]}
SlotBound == Cardinality(ActiveSlots) <= maxRunning

\* scheduleLocked never leaves a task waiting that could run: a waiting task
\* has its old worker still winding down, or every slot is taken.
CanStart(t) ==
  /\ status[t] = "waiting" /\ t \notin running
  /\ usesSlot[t] => Cardinality(SlotHolders(status, usesSlot, running)) < maxRunning
WaitsOnlyForSlot == ~stopping => \A t \in Task : ~CanStart(t)

\* A new worker of a task starts only when Run of the previous one has returned
\* (docs/DEVELOPMENT.zh-CN.md:83): s.running keeps the entry of a cancelled
\* worker until then, whatever the user clicks in the meantime.
OneWorker == \A t \in Task : worker[t] # "two" /\ (worker[t] # "none" => t \in running)

\* The inductive invariant behind SlotBound: the bound is on statuses, the slots
\* are counted in s.running, and Fresh and NoStuckEntry tie the two together.
SlotInv == TypeOK /\ Fresh /\ FreshDisk /\ ActiveHasWorker /\ OneWorker /\ NoStuckEntry /\ SlotBound

\* When StopAll has returned no Worker.Run is left, no task is persisted as
\* active, and no late call arms the save timer again.
StopQuiesces ==
  stopped => /\ \A t \in Task : worker[t] = "none" /\ status[t] \notin Active
             /\ ~timer

\* Files are deleted for a redownload only after the worker that Redownload
\* found running has ended, and nothing restarts the task before the requeue:
\* editMu keeps TogglePause, StartAll and EditTask out.
RedownloadAfterExit ==
  rd.pc = "cleanup" /\ rd.waited =>
    worker[rd.task] = "none" /\ status[rd.task] \notin Active \cup {"waiting"}

\* Whoever takes editMu gives it back: Redownload and EditTask, and StopAll, which
\* returns then.  All three hold it while they wait for a worker, and the worker
\* needs mu to return.
LockIsReturned == editMu # "free" ~> editMu = "free"

\* What a restart gives back is what the user saw, up to the pause of active
\* tasks, unless a save is under way: an armed timer, a refused save, StopAll,
\* or a cancelled worker whose return will arm the timer.
RestartGivesBack ==
  ~timer /\ ~saveFailed /\ ~stopping /\ (\A t \in Present \cap cancelled : worker[t] = "none") =>
    Normalised(disk) = Normalised(Rows)

\* With a slot for every task, a waiting task leaves the queue: it waits only
\* for its previous worker.  (A task that was stored as waiting is loaded as
\* waiting, and no one looks at the queue until some later call does.)
QueueDrains ==
  \A t \in Task : status[t] = "waiting" /\ restarts = 0
                   ~> status[t] # "waiting" \/ stopping \/ restarts > 0

\* A task the user paused last, by TogglePause or PauseAll, stays paused, and no
\* worker goes on downloading it, until the user starts it again.  (Not so after
\* an Unheard TogglePause.)
HeldStaysPaused ==
  \A t \in held : status[t] = "paused" /\ (worker[t] # "none" => t \in cancelled)

\* The selection of a task is the one of its last committed edit: no worker
\* that was started with an older one writes it back, unless it was started and
\* paused again within the edit and was still at work at the commit, which
\* compares the task only.
EditSticks == \A t \in Present \ overtaken : cfg[t] = edits[t]
=============================================================================
