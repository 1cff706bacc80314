---------------------------- MODULE TaskStoreProofs ----------------------------
(***************************************************************************)
(* The task store survives every crash and every failed statement, for     *)
(* every set of tasks: StoreIsSnapshot, MigrationIsSound and               *)
(* FailedLoadKeepsStore of module TaskStore.                               *)
(***************************************************************************)
EXTENDS TaskStore, TLAPS

Revisions == 0 .. MaxRev

\* A row of task t as this version or an older one may have written it
OwnRow(t, row) ==
  row = NoRow \/ /\ row.rev \in 1 .. MaxRev
                 /\ row.secret \in IF t \in Secret THEN {"plain", "sealed"} ELSE {"none"}

StoreType ==
  /\ table \in [Task -> Row] /\ tx \in [Task -> Row]
  /\ \A t \in Task : OwnRow(t, table[t])
  /\ saving \in {"no", "load", "timer", "stop"}
  /\ todo \subseteq Task
  /\ phase \in {"off", "reading", "read", "up"}
  /\ mem \in [Task -> Revisions] /\ loaded \in [Task -> Revisions]
  /\ migrate \in BOOLEAN /\ loadFailed \in BOOLEAN

\* What an open transaction has of a task
Inserted(t, rev) == IF rev = 0 THEN NoRow ELSE Protect(t, rev)

\* The transaction holds what Save was given, but for what is still to come.
Transaction ==
  saving # "no" => /\ todo \subseteq Existing(Given)
                   /\ \A t \in Task \ todo : tx[t] = Inserted(t, Given[t])

\* Who may be inside Save, and when
WhoSaves ==
  /\ saving = "load" => phase = "reading"
  /\ saving \in {"timer", "stop"} => phase = "up" /\ ~loadFailed
  /\ phase \in {"reading", "read"} => ~loadFailed

Sealed == \A t \in Secret : table[t] # NoRow => table[t].secret = "sealed"

\* What Load has of the rows it has read
Reading ==
  /\ phase = "reading" /\ saving = "no" =>
       \A t \in Task \ todo : /\ loaded[t] = table[t].rev
                              /\ table[t].secret = "plain" => migrate
  /\ phase = "reading" /\ saving = "load" => loaded = Revs(table)
  /\ phase = "read" \/ (phase = "up" /\ ~loadFailed) => Sealed

StoreInv == StoreType /\ Transaction /\ WhoSaves /\ Reading /\ StoreIsSnapshot

-----------------------------------------------------------------------------
LEMMA NoRowInRow == NoRow \in Row /\ NoRow.rev = 0 /\ NoRow.secret = "none"
BY DEF Row, NoRow

\* A task that exists is written as a row of its own revision, sealed when it
\* has a password.
LEMMA ProtectedRow ==
  ASSUME NEW t \in Task, NEW rev \in Revisions, rev # 0
  PROVE  /\ Protect(t, rev) \in Row
         /\ Protect(t, rev).rev = rev
         /\ OwnRow(t, Protect(t, rev))
         /\ t \in Secret => Protect(t, rev).secret = "sealed"
BY StoreAssumption DEF Protect, Row, OwnRow, Revisions

LEMMA InsertedRow ==
  ASSUME NEW t \in Task, NEW rev \in Revisions
  PROVE  /\ Inserted(t, rev) \in Row
         /\ Inserted(t, rev).rev = rev
         /\ OwnRow(t, Inserted(t, rev))
         /\ t \in Secret /\ Inserted(t, rev) # NoRow => Inserted(t, rev).secret = "sealed"
BY ProtectedRow, NoRowInRow DEF Inserted, OwnRow

\* A transaction with nothing left to insert holds all it was given.
LEMMA WholeTransaction ==
  ASSUME StoreInv, saving # "no", todo = {}
  PROVE  /\ Given \in [Task -> Revisions]
         /\ Revs(tx) = Given
         /\ \A t \in Task : OwnRow(t, tx[t])
         /\ \A t \in Secret : tx[t] # NoRow => tx[t].secret = "sealed"
<1>1. Given \in [Task -> Revisions]
  BY DEF StoreInv, StoreType, Given
<1>2. \A t \in Task : tx[t] = Inserted(t, Given[t]) /\ Given[t] \in Revisions
  BY <1>1 DEF StoreInv, Transaction
<1>3. \A t \in Task : tx[t].rev = Given[t]
  BY <1>2, InsertedRow
<1>4. Revs(tx) = Given
  BY <1>1, <1>3 DEF Revs
<1>5. \A t \in Task : OwnRow(t, tx[t])
  BY <1>2, InsertedRow
<1>6. \A t \in Secret : tx[t] # NoRow => tx[t].secret = "sealed"
  BY <1>2, InsertedRow, StoreAssumption
<1> QED
  BY <1>1, <1>4, <1>5, <1>6

\* A transaction that begins holds nothing and has everything to come.
LEMMA FreshTransaction ==
  ASSUME NEW who \in {"load", "timer", "stop"}, NEW tasks \in [Task -> Revisions],
         SaveBegin(who, tasks), StoreInv, Given' = tasks
  PROVE  /\ tx' \in [Task -> Row]
         /\ todo' \subseteq Task
         /\ Transaction'
<1>1. tx' \in [Task -> Row] /\ todo' \subseteq Task
  BY NoRowInRow DEF SaveBegin, Existing
<1>2. \A t \in Task \ todo' : tasks[t] = 0 /\ tx'[t] = NoRow
  BY DEF SaveBegin, Existing
<1>3. todo' \subseteq Existing(Given')
  BY DEF SaveBegin
<1>4. \A t \in Task \ todo' : tx'[t] = Inserted(t, Given'[t])
  BY <1>2 DEF Inserted
<1> QED
  BY <1>1, <1>3, <1>4 DEF Transaction, Existing

-----------------------------------------------------------------------------
LEMMA StoreInitial == Init => StoreInv
<1> SUFFICES ASSUME Init PROVE StoreInv
  OBVIOUS
<1>1. NoTask \in [Task -> Revisions] /\ MaxRev \in Nat
  BY StoreAssumption DEF NoTask, Revisions
<1>2. \A t \in Task : OwnRow(t, table[t])
  BY DEF Init, OwnRow, Row
<1>3. StoreType
  BY <1>1, <1>2, NoRowInRow DEF Init, StoreType
<1> QED
  BY <1>3 DEF Init, StoreInv, Transaction, WhoSaves, Reading, StoreIsSnapshot

\* The statements of Save

LEMMA InsertKeeps ==
  ASSUME StoreInv, NEW t \in Task, SaveInsert(t)
  PROVE  StoreInv'
<1>1. Given \in [Task -> Revisions] /\ Given' = Given
  BY DEF StoreInv, StoreType, Given, SaveInsert
<1>2. Given[t] # 0 /\ Given[t] \in Revisions
  BY <1>1 DEF StoreInv, Transaction, SaveInsert, Existing
<1>3. Protect(t, Given[t]) \in Row
  BY <1>2, ProtectedRow
<1>4. StoreType'
  BY <1>3 DEF StoreInv, StoreType, SaveInsert
<1>5. Transaction'
  <2>1. todo' \subseteq Existing(Given)
    BY DEF StoreInv, Transaction, SaveInsert
  <2>2. tx'[t] = Inserted(t, Given[t])
    BY <1>2 DEF StoreInv, StoreType, SaveInsert, Inserted
  <2>3. \A u \in Task \ todo' : u # t => tx'[u] = Inserted(u, Given[u])
    BY DEF StoreInv, StoreType, Transaction, SaveInsert
  <2> QED
    BY <1>1, <2>1, <2>2, <2>3 DEF Transaction, Existing
<1>6. WhoSaves' /\ Reading' /\ StoreIsSnapshot'
  BY DEF StoreInv, WhoSaves, Reading, Sealed, Revs, StoreIsSnapshot, SaveInsert
<1> QED
  BY <1>4, <1>5, <1>6 DEF StoreInv

\* What SaveReturn does in the three places that call Save
LEMMA SaveReturned ==
  ASSUME StoreInv, saving # "no", NEW ok \in BOOLEAN, SaveReturn(ok)
  PROVE  /\ saving' = "no" /\ todo' = {} /\ tx' \in [Task -> Row]
         /\ phase' \in {"off", "read", "up"}
         /\ mem' \in [Task -> Revisions] /\ loadFailed' \in BOOLEAN
         /\ UNCHANGED <<loaded, migrate>>
         /\ phase' = "read" => ok /\ ~loadFailed'
         /\ phase' = "up" /\ ~loadFailed' => saving = "timer"
<1>1. tx' \in [Task -> Row] /\ NoTask \in [Task -> Revisions]
  BY NoRowInRow, StoreAssumption DEF SaveReturn, NoTask, Revisions
<1>2. CASE saving = "load"
  BY <1>1, <1>2 DEF SaveReturn, StoreInv, StoreType
<1>3. CASE saving = "timer"
  BY <1>1, <1>3 DEF SaveReturn, StoreInv, StoreType, WhoSaves
<1>4. CASE saving = "stop"
  BY <1>1, <1>4 DEF SaveReturn, StoreInv, StoreType
<1> QED
  BY <1>2, <1>3, <1>4 DEF StoreInv, StoreType

LEMMA CommitKeeps == StoreInv /\ SaveCommit => StoreInv'
<1> SUFFICES ASSUME StoreInv, SaveCommit PROVE StoreInv'
  OBVIOUS
<1>1. saving # "no" /\ todo = {} /\ table' = tx /\ kept' = Given /\ SaveReturn(TRUE)
  BY DEF SaveCommit
<1>2. /\ Revs(tx) = Given
      /\ \A t \in Task : OwnRow(t, tx[t])
      /\ \A t \in Secret : tx[t] # NoRow => tx[t].secret = "sealed"
  BY <1>1, WholeTransaction
<1>3. /\ saving' = "no" /\ todo' = {} /\ tx' \in [Task -> Row]
      /\ phase' \in {"off", "read", "up"}
      /\ mem' \in [Task -> Revisions] /\ loadFailed' \in BOOLEAN
      /\ UNCHANGED <<loaded, migrate>>
      /\ phase' = "read" => ~loadFailed'
  BY <1>1, SaveReturned
<1>4. StoreType'
  BY <1>1, <1>2, <1>3 DEF StoreInv, StoreType
<1>5. Reading'
  BY <1>1, <1>2, <1>3 DEF Reading, Sealed
<1>6. StoreIsSnapshot'
  BY <1>1, <1>2 DEF StoreIsSnapshot, Revs
<1> QED
  BY <1>3, <1>4, <1>5, <1>6 DEF StoreInv, Transaction, WhoSaves

LEMMA FailKeeps == StoreInv /\ SaveFail => StoreInv'
<1> SUFFICES ASSUME StoreInv, SaveFail PROVE StoreInv'
  OBVIOUS
<1>1. saving # "no" /\ UNCHANGED <<table, kept>> /\ SaveReturn(FALSE)
  BY DEF SaveFail
<1>2. /\ saving' = "no" /\ todo' = {} /\ tx' \in [Task -> Row]
      /\ phase' \in {"off", "up"}
      /\ mem' \in [Task -> Revisions] /\ loadFailed' \in BOOLEAN
      /\ UNCHANGED <<loaded, migrate>>
      /\ phase' = "up" /\ ~loadFailed' => saving = "timer"
  BY <1>1, SaveReturned
<1>3. StoreType'
  BY <1>1, <1>2 DEF StoreInv, StoreType
<1>4. Reading'
  BY <1>1, <1>2 DEF StoreInv, Reading, WhoSaves, Sealed
<1>5. StoreIsSnapshot'
  BY <1>1 DEF StoreInv, StoreIsSnapshot, Revs
<1> QED
  BY <1>2, <1>3, <1>4, <1>5 DEF StoreInv, Transaction, WhoSaves

\* Loading

LEMMA StartKeeps == StoreInv /\ Start => StoreInv'
<1> SUFFICES ASSUME StoreInv, Start PROVE StoreInv'
  OBVIOUS
<1>1. saving = "no"
  BY DEF StoreInv, StoreType, WhoSaves, Start
<1>2. NoTask \in [Task -> Revisions]
  BY StoreAssumption DEF NoTask, Revisions
<1>3. StoreType'
  BY <1>2 DEF StoreInv, StoreType, Start, Stored
<1>4. \A t \in Task \ todo' : table[t] = NoRow /\ loaded'[t] = 0
  BY DEF Start, Stored, NoTask
<1>5. Reading'
  BY <1>1, <1>4, NoRowInRow DEF Start, Reading
<1>6. StoreIsSnapshot'
  BY DEF StoreInv, StoreIsSnapshot, Revs, Start
<1> QED
  BY <1>1, <1>3, <1>5, <1>6 DEF StoreInv, Transaction, WhoSaves, Start

LEMMA ReadRowKeeps ==
  ASSUME StoreInv, NEW t \in Task, ReadRow(t)
  PROVE  StoreInv'
<1>1. table[t].rev \in Revisions
  <2>1. CASE table[t] = NoRow
    BY <2>1, NoRowInRow, StoreAssumption DEF Revisions
  <2>2. CASE table[t] # NoRow
    BY <2>2, StoreAssumption DEF StoreInv, StoreType, OwnRow, Revisions
  <2> QED
    BY <2>1, <2>2
<1>2. StoreType'
  BY <1>1 DEF StoreInv, StoreType, ReadRow
<1>3. \A u \in Task \ todo' : /\ loaded'[u] = table[u].rev
                              /\ table[u].secret = "plain" => migrate'
  <2>1. loaded'[t] = table[t].rev /\ (table[t].secret = "plain" => migrate')
    BY DEF StoreInv, StoreType, ReadRow
  <2>2. \A u \in Task \ todo' : u # t => /\ loaded'[u] = table[u].rev
                                         /\ table[u].secret = "plain" => migrate'
    BY DEF StoreInv, StoreType, Reading, ReadRow
  <2> QED
    BY <2>1, <2>2
<1>4. Reading'
  BY <1>3 DEF ReadRow, Reading
<1>5. StoreIsSnapshot'
  BY DEF StoreInv, StoreIsSnapshot, Revs, ReadRow
<1> QED
  BY <1>2, <1>4, <1>5 DEF StoreInv, Transaction, WhoSaves, ReadRow

LEMMA ReadFailKeeps == StoreInv /\ ReadFail => StoreInv'
<1> SUFFICES ASSUME StoreInv, ReadFail PROVE StoreInv'
  OBVIOUS
<1>1. StoreType' /\ Reading' /\ Transaction' /\ WhoSaves'
  BY DEF StoreInv, StoreType, Reading, Transaction, WhoSaves, ReadFail
<1>2. StoreIsSnapshot'
  BY DEF StoreInv, StoreIsSnapshot, Revs, ReadFail
<1> QED
  BY <1>1, <1>2 DEF StoreInv

LEMMA ReadEndKeeps == StoreInv /\ ReadEnd => StoreInv'
<1> SUFFICES ASSUME StoreInv, ReadEnd PROVE StoreInv'
  OBVIOUS
<1>1. \A t \in Task : loaded[t] = table[t].rev
  BY DEF StoreInv, Reading, ReadEnd
<1>2. loaded = Revs(table) /\ loaded \in [Task -> Revisions]
  BY <1>1 DEF StoreInv, StoreType, Revs
<1>3. CASE migrate
  <2>1. SaveBegin("load", loaded) /\ phase' = phase /\ Given' = loaded
    BY <1>3 DEF ReadEnd, SaveBegin, Given
  <2>2. tx' \in [Task -> Row] /\ todo' \subseteq Task /\ Transaction'
    BY <1>2, <2>1, FreshTransaction
  <2>3. saving' = "load" /\ UNCHANGED <<table, kept, mem, loaded, migrate, loadFailed>>
    BY <2>1 DEF ReadEnd, SaveBegin
  <2>4. StoreType'
    BY <2>1, <2>2, <2>3 DEF StoreInv, StoreType
  <2>5. Reading' /\ WhoSaves'
    BY <1>2, <2>1, <2>3 DEF StoreInv, Reading, WhoSaves, Revs, ReadEnd
  <2>6. StoreIsSnapshot'
    BY <2>3 DEF StoreInv, StoreIsSnapshot, Revs
  <2> QED
    BY <2>2, <2>4, <2>5, <2>6 DEF StoreInv
<1>4. CASE ~migrate
  <2>1. phase' = "read" /\ UNCHANGED <<table, tx, saving, todo, kept, mem, loaded, migrate, loadFailed>>
    BY <1>4 DEF ReadEnd
  <2>2. Sealed
    BY <1>4, NoRowInRow, StoreAssumption DEF StoreInv, StoreType, Reading, ReadEnd, OwnRow, Sealed
  <2>3. StoreType'
    BY <2>1 DEF StoreInv, StoreType
  <2>4. Reading'
    BY <2>1, <2>2 DEF Reading, Sealed
  <2>5. StoreIsSnapshot'
    BY <2>1 DEF StoreInv, StoreIsSnapshot, Revs
  <2> QED
    BY <2>1, <2>3, <2>4, <2>5 DEF StoreInv, Transaction, WhoSaves, ReadEnd
<1> QED
  BY <1>3, <1>4

LEMMA LoadEndKeeps == StoreInv /\ LoadEnd => StoreInv'
<1> SUFFICES ASSUME StoreInv, LoadEnd PROVE StoreInv'
  OBVIOUS
<1>1. mem' \in [Task -> Revisions] /\ loadFailed' \in BOOLEAN
  <2>1. 0 \in Revisions /\ loaded \in [Task -> Revisions] /\ loadFailed \in BOOLEAN
    BY StoreAssumption DEF StoreInv, StoreType, Revisions
  <2>2. ASSUME NEW S \in SUBSET Existing(loaded)
        PROVE  [t \in Task |-> IF t \in S THEN loaded[t] ELSE 0] \in [Task -> Revisions]
    BY <2>1
  <2> QED
    BY <2>1, <2>2 DEF LoadEnd
<1>2. StoreType'
  BY <1>1 DEF StoreInv, StoreType, LoadEnd
<1>3. saving = "no" /\ Sealed
  BY DEF StoreInv, StoreType, WhoSaves, Reading, LoadEnd
<1>4. Reading' /\ Transaction' /\ WhoSaves'
  BY <1>3 DEF Reading, Sealed, Transaction, WhoSaves, LoadEnd
<1>5. StoreIsSnapshot'
  BY DEF StoreInv, StoreIsSnapshot, Revs, LoadEnd
<1> QED
  BY <1>2, <1>4, <1>5 DEF StoreInv

\* The scheduler at work

LEMMA ChangeKeeps ==
  ASSUME StoreInv, NEW t \in Task, NEW rev \in Revisions, Change(t, rev)
  PROVE  StoreInv'
<1>1. StoreType'
  BY DEF StoreInv, StoreType, Change
<1>2. Reading' /\ Transaction' /\ WhoSaves'
  BY DEF StoreInv, Reading, Sealed, Transaction, WhoSaves, Change
<1>3. StoreIsSnapshot'
  BY DEF StoreInv, StoreIsSnapshot, Revs, Change
<1> QED
  BY <1>1, <1>2, <1>3 DEF StoreInv

\* The two Saves of a scheduler that is up
LEMMA SaveMemKeeps ==
  ASSUME StoreInv, phase = "up", ~loadFailed, NEW who \in {"timer", "stop"},
         SaveBegin(who, mem), UNCHANGED <<phase, mem, loaded, migrate, loadFailed>>
  PROVE  StoreInv'
<1>1. Given' = mem /\ mem \in [Task -> Revisions]
  BY DEF StoreInv, StoreType, SaveBegin, Given
<1>2. tx' \in [Task -> Row] /\ todo' \subseteq Task /\ Transaction'
  BY <1>1, FreshTransaction
<1>3. saving' = who /\ UNCHANGED <<table, kept>>
  BY DEF SaveBegin
<1>4. StoreType'
  BY <1>2, <1>3 DEF StoreInv, StoreType
<1>5. Reading' /\ WhoSaves'
  BY <1>3 DEF StoreInv, Reading, Sealed, WhoSaves
<1>6. StoreIsSnapshot'
  BY <1>3 DEF StoreInv, StoreIsSnapshot, Revs
<1> QED
  BY <1>2, <1>4, <1>5, <1>6 DEF StoreInv

LEMMA SaveTimerKeeps == StoreInv /\ SaveTimer => StoreInv'
BY SaveMemKeeps DEF SaveTimer

LEMMA StopBeginKeeps == StoreInv /\ StopBegin => StoreInv'
<1> SUFFICES ASSUME StoreInv, StopBegin PROVE StoreInv'
  OBVIOUS
<1>1. StoreType' /\ Reading' /\ Transaction' /\ WhoSaves'
  BY DEF StoreInv, StoreType, Reading, Sealed, Transaction, WhoSaves, StopBegin
<1>2. StoreIsSnapshot'
  BY DEF StoreInv, StoreIsSnapshot, Revs, StopBegin
<1> QED
  BY <1>1, <1>2 DEF StoreInv

LEMMA StopSaveKeeps == StoreInv /\ StopSave => StoreInv'
<1> SUFFICES ASSUME StoreInv, StopSave PROVE StoreInv'
  OBVIOUS
<1>1. CASE ~loadFailed
  BY <1>1, SaveMemKeeps DEF StopSave
<1>2. CASE loadFailed
  <2>1. NoTask \in [Task -> Revisions]
    BY StoreAssumption DEF NoTask, Revisions
  <2>2. StoreType'
    BY <1>2, <2>1 DEF StoreInv, StoreType, StopSave
  <2>3. Reading' /\ Transaction' /\ WhoSaves'
    BY <1>2 DEF Reading, Transaction, WhoSaves, StopSave
  <2>4. StoreIsSnapshot'
    BY <1>2 DEF StoreInv, StoreIsSnapshot, Revs, StopSave
  <2> QED
    BY <2>2, <2>3, <2>4 DEF StoreInv
<1> QED
  BY <1>1, <1>2

LEMMA CrashKeeps == StoreInv /\ Crash => StoreInv'
<1> SUFFICES ASSUME StoreInv, Crash PROVE StoreInv'
  OBVIOUS
<1>1. NoTask \in [Task -> Revisions] /\ [t \in Task |-> NoRow] \in [Task -> Row]
  BY NoRowInRow, StoreAssumption DEF NoTask, Revisions
<1>2. StoreType'
  BY <1>1 DEF StoreInv, StoreType, Crash
<1>3. Reading' /\ Transaction' /\ WhoSaves'
  BY DEF Reading, Transaction, WhoSaves, Crash
<1>4. StoreIsSnapshot'
  BY DEF StoreInv, StoreIsSnapshot, Revs, Crash
<1> QED
  BY <1>2, <1>3, <1>4 DEF StoreInv

LEMMA StutterKeeps == StoreInv /\ UNCHANGED vars => StoreInv'
<1> SUFFICES ASSUME StoreInv, UNCHANGED vars PROVE StoreInv'
  OBVIOUS
<1>1. StoreType' /\ WhoSaves'
  BY DEF StoreInv, StoreType, WhoSaves, vars
<1>2. Transaction'
  BY DEF StoreInv, Transaction, Given, vars
<1>3. Reading' /\ StoreIsSnapshot'
  BY DEF StoreInv, Reading, Sealed, Revs, StoreIsSnapshot, vars
<1> QED
  BY <1>1, <1>2, <1>3 DEF StoreInv

LEMMA StoreInductive == StoreInv /\ [Next]_vars => StoreInv'
<1> SUFFICES ASSUME StoreInv, [Next]_vars PROVE StoreInv'
  OBVIOUS
<1>1. CASE \E t \in Task : SaveInsert(t)
  BY <1>1, InsertKeeps
<1>2. CASE \E t \in Task : ReadRow(t)
  BY <1>2, ReadRowKeeps
<1>3. CASE \E t \in Task, rev \in 0 .. MaxRev : Change(t, rev)
  BY <1>3, ChangeKeeps DEF Revisions
<1>4. CASE SaveCommit \/ SaveFail
  BY <1>4, CommitKeeps, FailKeeps
<1>5. CASE Start \/ ReadFail \/ ReadEnd \/ LoadEnd
  BY <1>5, StartKeeps, ReadFailKeeps, ReadEndKeeps, LoadEndKeeps
<1>6. CASE SaveTimer \/ StopBegin \/ StopSave
  BY <1>6, SaveTimerKeeps, StopBeginKeeps, StopSaveKeeps
<1>7. CASE Crash
  BY <1>7, CrashKeeps
<1>8. CASE UNCHANGED vars
  BY <1>8, StutterKeeps
<1> QED
  BY <1>1, <1>2, <1>3, <1>4, <1>5, <1>6, <1>7, <1>8 DEF Next

LEMMA StoreInvariance == Spec => []StoreInv
BY StoreInitial, StoreInductive, PTL DEF Spec

-----------------------------------------------------------------------------
\* Whatever the store holds at first and wherever Save is interrupted, the rows
\* are those of the last Save that succeeded.
THEOREM StoreIsAlwaysASnapshot == Spec => []StoreIsSnapshot
<1>1. StoreInv => StoreIsSnapshot
  BY DEF StoreInv
<1> QED
  BY <1>1, StoreInvariance, PTL

\* The rewrite of old passwords starts from all the rows, and after a Load that
\* succeeded no password is stored in plain text.
THEOREM MigrationIsAlwaysSound == Spec => []MigrationIsSound
<1>1. StoreInv => MigrationIsSound
  <2> SUFFICES ASSUME StoreInv PROVE MigrationIsSound
    OBVIOUS
  <2>1. saving = "load" => loaded = Revs(table)
    BY DEF StoreInv, WhoSaves, Reading
  <2>2. phase = "up" /\ ~loadFailed => Sealed
    BY DEF StoreInv, Reading
  <2> QED
    BY <2>1, <2>2 DEF MigrationIsSound, Sealed, Stored
<1> QED
  BY <1>1, StoreInvariance, PTL

\* No step of a scheduler whose Load failed changes the table.
THEOREM FailedLoadNeverWrites == Spec => FailedLoadKeepsStore
<1>1. StoreInv /\ [Next]_vars => [loadFailed /\ loadFailed' => table' = table]_vars
  <2> SUFFICES ASSUME StoreInv, Next, loadFailed
               PROVE  table' = table
    BY DEF vars
  <2>1. ~SaveCommit
    BY DEF StoreInv, StoreType, WhoSaves, SaveCommit
  <2> QED
    BY <2>1 DEF Next, SaveInsert, ReadRow, Change, SaveFail, Start, ReadFail, ReadEnd,
       LoadEnd, SaveTimer, StopBegin, StopSave, Crash, SaveBegin
<1> QED
  BY <1>1, StoreInvariance, PTL DEF Spec, FailedLoadKeepsStore

=============================================================================
