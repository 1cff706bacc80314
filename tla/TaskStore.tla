------------------------------ MODULE TaskStore ------------------------------
(***************************************************************************)
(* The SQLite task store (internal/storage/sqlite_store.go), the           *)
(* protection of FTP passwords (secrets_windows.go) and the scheduler's    *)
(* use of them: Load, scheduleSaveLocked, saveLocked and the final save of *)
(* StopAll, with a crash possible between any two statements.              *)
(*                                                                         *)
(* A task is its revision number, 0 when there is none.  Save runs under   *)
(* the scheduler's mu (or inside Load, before the scheduler has tasks), so *)
(* the tasks do not change while a transaction is open.                    *)
(***************************************************************************)
EXTENDS Naturals, FiniteSets

CONSTANTS
  Task,       \* the tasks there may be
  Secret,     \* the FTP tasks with a password
  MaxRev      \* bound: how often a task changes

ASSUME StoreAssumption ==
  /\ Secret \subseteq Task
  /\ MaxRev \in Nat \ {0}

VARIABLES
  table,       \* the committed rows of table tasks
  tx,          \* the rows as the open transaction sees them
  saving,      \* who is inside Save: "no", "load", "timer" or "stop"
  todo,        \* rows still to be read by Load, or tasks still to be inserted
  phase,       \* "off", "reading", "read", "up"
  mem,         \* Scheduler.tasks
  loaded,      \* the tasks Load has decoded
  migrate,     \* needsMigration
  loadFailed,  \* Scheduler.loadFailed
  timer,       \* saveTimer is armed
  stopping,    \* Scheduler.stopping
  kept         \* history: what the last completed Save was given

vars == <<table, tx, saving, todo, phase, mem, loaded, migrate, loadFailed, timer, stopping, kept>>

NoRow == [rev |-> 0, secret |-> "none"]
NoTask == [t \in Task |-> 0]
Row == {NoRow} \cup [rev : 1 .. MaxRev, secret : {"none", "plain", "sealed"}]

Revs(rows) == [t \in Task |-> rows[t].rev]
Stored(rows) == {t \in Task : rows[t] # NoRow}

Existing(tasks) == {t \in Task : tasks[t] # 0}

\* protectTaskSecrets on the way into the store
Protect(t, rev) == [rev |-> rev, secret |-> IF t \in Secret THEN "sealed" ELSE "none"]

-----------------------------------------------------------------------------
(* Save: one transaction *)

\* The tasks Save is given: those Load has decoded, or Scheduler.tasks
Given == IF saving = "load" THEN loaded ELSE mem

\* Faulty variant of SaveBegin: DELETE outside the transaction.
SaveBeginDeletes(who, tasks) ==
  /\ saving = "no"
  /\ saving' = who
  /\ table' = [t \in Task |-> NoRow]
  /\ tx' = [t \in Task |-> NoRow]
  /\ todo' = Existing(tasks)
  /\ UNCHANGED kept

\* Begin and DELETE FROM tasks
SaveBegin(who, tasks) ==
  /\ saving = "no"
  /\ saving' = who
  /\ tx' = [t \in Task |-> NoRow]
  /\ todo' = Existing(tasks)
  /\ UNCHANGED <<table, kept>>

\* One INSERT; the row holds the password encrypted.
SaveInsert(t) ==
  /\ saving # "no"
  /\ t \in todo
  /\ tx' = [tx EXCEPT ![t] = Protect(t, Given[t])]
  /\ todo' = todo \ {t}
  /\ UNCHANGED <<table, saving, phase, mem, loaded, migrate, loadFailed, timer, stopping, kept>>

\* The call of Save returned, with an error or without one
SaveReturn(ok) ==
  /\ saving' = "no"
  /\ todo' = {}
  /\ tx' = [t \in Task |-> NoRow]
  /\ CASE saving = "load" -> /\ phase' = IF ok THEN "read" ELSE "up"
                             /\ loadFailed' = ~ok
                             /\ UNCHANGED mem
       [] saving = "timer" -> UNCHANGED <<phase, loadFailed, mem>>
       [] saving = "stop" -> phase' = "off" /\ mem' = NoTask /\ UNCHANGED loadFailed
  /\ UNCHANGED <<loaded, migrate, timer, stopping>>

SaveCommit ==
  /\ saving # "no"
  /\ todo = {}
  /\ table' = tx
  /\ kept' = Given
  /\ SaveReturn(TRUE)

\* Any statement, DPAPI or the commit failed: Rollback
SaveFail ==
  /\ saving # "no"
  /\ UNCHANGED <<table, kept>>
  /\ SaveReturn(FALSE)

-----------------------------------------------------------------------------
(* Start-up *)

\* app.Run: NewScheduler, then Load queries the rows.
Start ==
  /\ phase = "off"
  /\ phase' = "reading"
  /\ todo' = Stored(table)
  /\ mem' = NoTask
  /\ loaded' = NoTask
  /\ migrate' = FALSE
  /\ loadFailed' = FALSE
  /\ timer' = FALSE
  /\ stopping' = FALSE
  /\ UNCHANGED <<table, tx, saving, kept>>

\* One row: decode, decrypt; a password without the marker is an old plain one.
ReadRow(t) ==
  /\ phase = "reading" /\ saving = "no"
  /\ t \in todo
  /\ todo' = todo \ {t}
  /\ loaded' = [loaded EXCEPT ![t] = table[t].rev]
  /\ migrate' = (migrate \/ table[t].secret = "plain")
  /\ UNCHANGED <<table, tx, saving, phase, mem, loadFailed, timer, stopping, kept>>

\* Faulty variant of ReadFail: the bad row is skipped.
ReadSkip ==
  /\ phase = "reading" /\ saving = "no"
  /\ \E t \in todo : todo' = todo \ {t}
  /\ UNCHANGED <<table, tx, saving, phase, mem, loaded, migrate, loadFailed, timer, stopping, kept>>

\* A row that cannot be read, decoded or decrypted: Load gives up.  app.Run
\* then exits; a scheduler that is used all the same has no tasks.
ReadFail ==
  /\ phase = "reading" /\ saving = "no"
  /\ todo # {}
  /\ phase' = "up"
  /\ loadFailed' = TRUE
  /\ todo' = {}
  /\ UNCHANGED <<table, tx, saving, mem, loaded, migrate, timer, stopping, kept>>

\* All rows read: passwords that were stored in plain text are saved again.
ReadEnd ==
  /\ phase = "reading" /\ saving = "no"
  /\ todo = {}
  /\ IF migrate
     THEN SaveBegin("load", loaded) /\ UNCHANGED phase
     ELSE phase' = "read" /\ UNCHANGED <<table, tx, saving, todo, kept>>
  /\ UNCHANGED <<mem, loaded, migrate, loadFailed, timer, stopping>>

\* Scheduler.Load takes the tasks over.  PrepareFTPDirectoryOutput may refuse
\* one of them, and those before it stay in s.tasks, or move an output.
LoadEnd ==
  /\ phase = "read"
  /\ phase' = "up"
  /\ \/ /\ mem' = loaded
        /\ timer' \in BOOLEAN
        /\ UNCHANGED loadFailed
     \/ /\ \E S \in SUBSET Existing(loaded) :
             /\ S # Existing(loaded)
             /\ mem' = [t \in Task |-> IF t \in S THEN loaded[t] ELSE 0]
        /\ loadFailed' = TRUE
        /\ UNCHANGED timer
  /\ UNCHANGED <<table, tx, saving, todo, loaded, migrate, stopping, kept>>

-----------------------------------------------------------------------------
(* The scheduler at work *)

\* Any handler that changes a task, adds or removes one: scheduleSaveLocked
Change(t, rev) ==
  /\ phase = "up" /\ saving = "no"
  /\ rev \in {0, mem[t] + 1} /\ rev <= MaxRev /\ rev # mem[t]
  /\ mem' = [mem EXCEPT ![t] = rev]
  /\ timer' = (timer \/ (~stopping /\ ~loadFailed))
  /\ UNCHANGED <<table, tx, saving, todo, phase, loaded, migrate, loadFailed, stopping, kept>>

\* The timer's callback and saveLocked
SaveTimer ==
  /\ phase = "up" /\ timer /\ ~stopping /\ ~loadFailed
  /\ SaveBegin("timer", mem)
  /\ timer' = FALSE
  /\ UNCHANGED <<phase, mem, loaded, migrate, loadFailed, stopping>>

\* StopAll before it waits for the workers, whose last reports still change tasks
StopBegin ==
  /\ phase = "up" /\ saving = "no" /\ ~stopping
  /\ stopping' = TRUE
  /\ timer' = FALSE
  /\ UNCHANGED <<table, tx, saving, todo, phase, mem, loaded, migrate, loadFailed, kept>>

\* Faulty variant of StopSave: without the test of loadFailed.
StopSaveAlways ==
  /\ phase = "up" /\ stopping
  /\ SaveBegin("stop", mem)
  /\ UNCHANGED <<phase, mem, loaded, migrate, loadFailed, timer, stopping>>

\* The end of StopAll: saveLocked, unless Load failed, and the program exits.
StopSave ==
  /\ phase = "up" /\ stopping
  /\ IF loadFailed
     THEN /\ saving = "no"
          /\ phase' = "off" /\ mem' = NoTask
          /\ UNCHANGED <<table, tx, saving, todo, kept>>
     ELSE SaveBegin("stop", mem) /\ UNCHANGED <<phase, mem>>
  /\ UNCHANGED <<loaded, migrate, loadFailed, timer, stopping>>

\* The process dies; an open transaction is rolled back by SQLite.
Crash ==
  /\ phase # "off"
  /\ phase' = "off"
  /\ saving' = "no"
  /\ tx' = [t \in Task |-> NoRow]
  /\ todo' = {}
  /\ mem' = NoTask
  /\ timer' = FALSE
  /\ UNCHANGED <<table, loaded, migrate, loadFailed, stopping, kept>>

Init ==
  /\ table \in [Task -> Row]           \* written by this version or an older one
  /\ \A t \in Task : table[t] # NoRow => table[t].secret \in (IF t \in Secret THEN {"plain", "sealed"} ELSE {"none"})
  /\ kept = Revs(table)
  /\ tx = [t \in Task |-> NoRow]
  /\ saving = "no"
  /\ todo = {}
  /\ phase = "off"
  /\ mem = NoTask
  /\ loaded = NoTask
  /\ migrate = FALSE
  /\ loadFailed = FALSE
  /\ timer = FALSE
  /\ stopping = FALSE

Next ==
  \/ \E t \in Task : SaveInsert(t) \/ ReadRow(t) \/ \E rev \in 0 .. MaxRev : Change(t, rev)
  \/ SaveCommit \/ SaveFail
  \/ Start \/ ReadFail \/ ReadEnd \/ LoadEnd
  \/ SaveTimer \/ StopBegin \/ StopSave
  \/ Crash

Spec == Init /\ [][Next]_vars

-----------------------------------------------------------------------------
\* Whenever the program dies, between whichever statements of Save, the store
\* holds exactly the tasks of the last Save that succeeded: never none, never
\* some of them.
StoreIsSnapshot == Revs(table) = kept

\* A scheduler whose Load failed, half way or at once, never writes: neither
\* its timer nor StopAll replaces the rows it could not read ("已保留原始数据",
\* internal/app/app.go).
FailedLoadKeepsStore == [][loadFailed /\ loadFailed' => table' = table]_vars

\* The rewrite that seals old passwords loses no task: it starts only when every
\* row could be read.  Once Load has succeeded no FTP password is stored in plain
\* text, whatever an older version had written, and none ever is again.
MigrationIsSound ==
  /\ saving = "load" => loaded = Revs(table)
  /\ phase = "up" /\ ~loadFailed => \A t \in Secret \cap Stored(table) : table[t].secret = "sealed"
=============================================================================
