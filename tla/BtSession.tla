------------------------------ MODULE BtSession ------------------------------
(***************************************************************************)
(* A BitTorrent task: the Worker of internal/download/bt/worker.go in its  *)
(* runtime process (cmd/gd3-bt-runtime), the torrent engine as far as the  *)
(* worker uses it, and what the application does to the task in between:   *)
(* pausing, editing the selection, downloading again, crashing.            *)
(*                                                                         *)
(* The application starts one runtime at a time and waits for it, but one  *)
(* whose application crashed sees its input close and ends on its own, so  *)
(* two may exist.  The lock of the Bolt database is all they share.        *)
(***************************************************************************)
EXTENDS BtStorage

CONSTANTS
  Proc,        \* the runtime processes there may be at a time
  None,        \* no process
  MoveBack,    \* whether sessions may find a file's selection changed more than once:
               \* by a second edit, by a crash before an edit is saved, or by an orphan
               \* that opens the files after an edit
  RatioLimit,  \* SeedRatioLimitPercent, as uploads that reach it
  MaxUpload,   \* bound: uploads while the task is not reset
  MaxBad,      \* bound: wrong or failing steps of peers and of the runtime
  MaxEdits     \* bound: edits, crashes and downloads anew

ASSUME SessionAssumption ==
  /\ None \notin Proc
  /\ MoveBack \in BOOLEAN
  /\ {RatioLimit, MaxUpload, MaxBad, MaxEdits} \subseteq Nat

VARIABLES
  \* the task as the application keeps it
  sel,        \* the selected files (Stage.State["files"])
  moved,      \* history: files whose selection changed since the last reset
  phase,      \* Stage.State["phase"]
  usesSlot,   \* Task.UsesSlot
  uploaded,   \* Stage.State["uploadedBytes"]
  sent,       \* history: what peers got since the task was last reset
  saved,      \* sel and uploaded as the store has them
  before,     \* history: what they got before a reset that is not saved yet
  mine,       \* the runtime the application waits for
  \* the runtimes
  pc,         \* how far runtime i is
  ses,        \* the selection it was started with
  cancelled,  \* its input is closed
  known,      \* what its engine believes of each piece
  got,        \* bytes of unfinished pieces it has written
  marking,    \* the piece between MarkComplete's flush and its entry
  web,        \* webTransport still has requests under way, once it is closing
  base,       \* baseUploaded of the application's runtime
  session,    \* SessionUploaded of the application's runtime
  holder,     \* who has the database open
  bad, edits  \* bounds

stored == <<saved, before>>
task == <<sel, moved, phase, usesSlot, uploaded, sent, stored>>
engine == <<ses, known, got, marking, web>>
counts == <<base, session, bad, edits>>
vars == <<size, good, unsynced, db, task, mine, pc, engine, cancelled, counts, holder>>

Init ==
  \* the title is new (DeduplicateTitle)
  /\ size = [f \in File |-> [at \in Places |-> Absent]]
  /\ good = [f \in File |-> [at \in Places |-> {}]]
  /\ unsynced = {}
  /\ db = [p \in Piece |-> "unknown"]
  /\ sel \in SUBSET File \ {{}}
  /\ moved = {}
  /\ phase = "" /\ usesSlot = TRUE
  /\ uploaded = 0 /\ sent = 0
  /\ saved = [sel |-> sel, uploaded |-> 0] /\ before = 0
  /\ mine = None
  /\ pc = [i \in Proc |-> "none"]
  /\ ses = [i \in Proc |-> {}]
  /\ cancelled = [i \in Proc |-> FALSE]
  /\ known = [i \in Proc |-> [p \in Piece |-> "unknown"]]
  /\ got = [i \in Proc |-> {}]
  /\ marking = [i \in Proc |-> {}]
  /\ web = [i \in Proc |-> FALSE]
  /\ base = 0 /\ session = 0 /\ holder = None
  /\ bad = 0 /\ edits = 0

-----------------------------------------------------------------------------
(* Opening *)

\* Worker.Run of the application's client starts a runtime, which reports the
\* saved files as being checked.
Start(i) ==
  /\ mine = None /\ pc[i] = "none"
  /\ mine' = i
  /\ pc' = [pc EXCEPT ![i] = "starting"]
  /\ ses' = [ses EXCEPT ![i] = sel]
  /\ phase' = "checking" /\ usesSlot' = TRUE
  /\ base' = uploaded /\ session' = 0
  /\ UNCHANGED <<disk, db, sel, moved, uploaded, sent, stored, cancelled,
                 known, got, marking, web, holder, bad, edits>>

\* Faulty variant of OpenCheckpoint: the database has no lock.
OpenUnlocked(i) ==
  /\ pc[i] = "starting"
  /\ holder' = i
  /\ pc' = [pc EXCEPT ![i] = "opened"]
  /\ UNCHANGED <<disk, db, task, mine, engine, cancelled, counts>>

\* newTorrentTransfer opens the database, whose lock keeps a second one out.
OpenCheckpoint(i) ==
  /\ pc[i] = "starting" /\ holder = None
  /\ holder' = i
  /\ pc' = [pc EXCEPT ![i] = "opened"]
  /\ UNCHANGED <<disk, db, task, mine, engine, cancelled, counts>>

\* The runtime is gone: its lock, its memory and the application's wait.
Gone(i) ==
  /\ pc' = [pc EXCEPT ![i] = "none"]
  /\ holder' = IF holder = i THEN None ELSE holder
  /\ mine' = IF mine = i THEN None ELSE mine
  /\ cancelled' = [cancelled EXCEPT ![i] = FALSE]
  /\ ses' = [ses EXCEPT ![i] = {}]
  /\ known' = [known EXCEPT ![i] = [p \in Piece |-> "unknown"]]
  /\ got' = [got EXCEPT ![i] = {}]
  /\ marking' = [marking EXCEPT ![i] = {}]
  /\ web' = [web EXCEPT ![i] = FALSE]

\* Every error on the way to a running torrent closes what is open by then:
\* the lock is taken, the proxy, client, spec, trackers or files are refused.
OpenFails(i) ==
  /\ \/ (pc[i] = "starting" /\ holder # None)
     \/ pc[i] \in {"starting", "opened"} /\ bad < MaxBad
  /\ bad' = IF pc[i] = "starting" /\ holder # None THEN bad ELSE bad + 1
  /\ Gone(i)
  /\ UNCHANGED <<disk, db, task, base, session, edits>>

\* AddTorrentSpec: the storage is opened and asked about each piece.
AddTorrent(i) ==
  /\ pc[i] = "opened"
  /\ pc' = [pc EXCEPT ![i] = "live"]
  /\ OpenTorrent(ses[i])
  /\ Completion(ses[i])
  /\ known' = [known EXCEPT ![i] = db']
  /\ UNCHANGED <<good, unsynced, task, mine, ses, got, marking, web, cancelled,
                 counts, holder>>

-----------------------------------------------------------------------------
(* The engine *)

\* File priorities: only pieces of selected files are asked for.
Wanted(i) == {p \in Piece : \E f \in ses[i] : PieceBytes[p] \cap FileBytes[f] # {}}

\* A webseed request that was under way when Close began ends (finish).
FinishRequest(i) ==
  /\ web[i]
  /\ web' = [web EXCEPT ![i] = FALSE]
  /\ UNCHANGED <<disk, db, task, mine, pc, ses, known, got, marking, cancelled, counts, holder>>

\* A byte arrives and is written; while the client is open, also from a
\* request that was under way when Close began.
Receive(i, b, ok) ==
  /\ pc[i] = "live" \/ (pc[i] = "closing" /\ web[i])
  /\ \E p \in Wanted(i) : b \in PieceBytes[p] /\ known[i][p] = "no" /\ marking[i] # {p}
  /\ b \notin got[i]
  /\ ok \/ bad < MaxBad
  /\ bad' = IF ok THEN bad ELSE bad + 1
  /\ WriteAt(ses[i], b, ok)
  /\ got' = [got EXCEPT ![i] = @ \cup {b}]
  /\ UNCHANGED <<db, task, mine, pc, ses, known, marking, web, cancelled, base, session,
                 edits, holder>>

\* A piece that is all there, or that the database knows nothing of, is
\* hashed.  MarkComplete flushes its files first.
HashPiece(i, p) ==
  /\ pc[i] \in {"live", "closing"} /\ marking[i] = {}
  /\ known[i][p] = "unknown" \/ (known[i][p] = "no" /\ PieceBytes[p] \subseteq got[i])
  /\ \/ /\ ReadsGood(ses[i], p)
        /\ SyncExtent(ses[i], p)
        /\ marking' = [marking EXCEPT ![i] = {p}]
        /\ UNCHANGED <<size, good, db, known, got>>
     \/ /\ ~ReadsGood(ses[i], p)
        /\ Mark(p, FALSE)
        /\ known' = [known EXCEPT ![i][p] = "no"]
        /\ got' = [got EXCEPT ![i] = @ \ PieceBytes[p]]
        /\ UNCHANGED <<disk, marking>>
  /\ UNCHANGED <<task, mine, pc, ses, web, cancelled, counts, holder>>

\* The second half of MarkComplete; the database outlives the client.
CommitPiece(i) ==
  \E p \in marking[i] :
    /\ Mark(p, TRUE)
    /\ known' = [known EXCEPT ![i][p] = "yes"]
    /\ got' = [got EXCEPT ![i] = @ \ PieceBytes[p]]
    /\ marking' = [marking EXCEPT ![i] = {}]
    /\ UNCHANGED <<disk, task, mine, pc, ses, web, cancelled, counts, holder>>

\* A peer gets something; the count of an orphan's runtime reaches nobody.
Upload(i) ==
  /\ pc[i] = "live" /\ mine = i
  /\ \E p \in Piece : known[i][p] = "yes"
  /\ sent < MaxUpload
  /\ sent' = sent + 1 /\ session' = session + 1
  /\ UNCHANGED <<disk, db, sel, moved, phase, usesSlot, uploaded, stored, mine, pc,
                 engine, cancelled, base, bad, edits, holder>>

-----------------------------------------------------------------------------
(* Progress *)

\* Faulty variant of Verified: bytes count when they are written.
VerifiedWritten(i, f) ==
  Cardinality({b \in FileBytes[f] : known[i][b \div PieceLen] = "yes" \/ b \in got[i]})

\* verifiedFileBytes, and Snapshot's rule that a file counts as whole only
\* when the file under its final path has its full size.
Verified(i, f) ==
  Cardinality({b \in FileBytes[f] : known[i][b \div PieceLen] = "yes"})
SnapshotBytes(i, f) ==
  IF f \notin ses[i] THEN 0
  ELSE IF FileLen[f] > 0 /\ Verified(i, f) = FileLen[f] /\ size[f]["title"] # FileLen[f]
       THEN FileLen[f] - 1
       ELSE Verified(i, f)

\* received >= total in sample.
Complete(i) == \A f \in ses[i] : SnapshotBytes(i, f) = FileLen[f]

\* Faulty variant of Report: the session's uploads are added at every sample.
ReportAdding(i, newPhase) ==
  /\ usesSlot' = ~Complete(i)
  /\ uploaded' = uploaded + session
  /\ phase' = newPhase

\* The update of one sample, without the bytes it shows; newPhase is what is
\* saved with it.
Report(i, newPhase) ==
  /\ usesSlot' = ~Complete(i)
  /\ uploaded' = base + session
  /\ phase' = newPhase

\* shouldStopSeeding, by the ratio.
ShouldStop == RatioLimit > 0 /\ base + session >= RatioLimit

\* Close begins: no new webseed request is let through, some may be under way.
Close(i) ==
  /\ pc' = [pc EXCEPT ![i] = "closing"]
  /\ \E w \in BOOLEAN : web' = [web EXCEPT ![i] = w]

\* One tick; the worker returns when it has seeded enough.
Sample(i) ==
  /\ pc[i] = "live" /\ mine = i
  /\ Report(i, IF Complete(i) THEN "seeding" ELSE "downloading")
  /\ IF Complete(i) /\ ShouldStop THEN Close(i) ELSE UNCHANGED <<pc, web>>
  /\ UNCHANGED <<disk, db, sel, moved, sent, stored, mine, ses, known, got, marking, cancelled,
                 counts, holder>>

\* Snapshot fails (the sequential reader, Stat): the worker returns the error.
SampleFails(i) ==
  /\ pc[i] = "live" /\ bad < MaxBad
  /\ bad' = bad + 1
  /\ Close(i)
  /\ UNCHANGED <<disk, db, task, mine, ses, known, got, marking, cancelled, base,
                 session, edits, holder>>

\* ctx.Done: a last sample, saved as paused.
CtxDone(i) ==
  /\ pc[i] = "live" /\ cancelled[i]
  /\ Close(i)
  /\ IF mine = i
     THEN Report(i, IF Complete(i) THEN "paused_seeding" ELSE "paused_download")
     ELSE UNCHANGED <<usesSlot, uploaded, phase>>
  /\ UNCHANGED <<disk, db, sel, moved, sent, stored, mine, ses, known, got, marking, cancelled,
                 counts, holder>>

-----------------------------------------------------------------------------
(* Closing *)

\* Close waits for the web requests, then closes the client.
CloseClient(i) ==
  /\ pc[i] = "closing" /\ ~web[i]
  /\ pc' = [pc EXCEPT ![i] = "draining"]
  /\ UNCHANGED <<disk, db, task, mine, engine, cancelled, counts, holder>>

\* WaitIdle has seen the database idle, or has waited five seconds; the
\* database is closed and the runtime says Done and ends.
CloseCheckpoint(i) ==
  /\ pc[i] = "draining"
  /\ Gone(i)
  /\ UNCHANGED <<disk, db, task, counts>>

-----------------------------------------------------------------------------
(* The application *)

\* The client closes the runtime's input when the scheduler cancels it; a
\* runtime that is still opening notices when it is live.
Cancel ==
  /\ mine # None /\ pc[mine] = "live" /\ ~cancelled[mine]
  /\ cancelled' = [cancelled EXCEPT ![mine] = TRUE]
  /\ UNCHANGED <<disk, db, task, mine, pc, engine, counts, holder>>

\* The save timer, half a second after a change of the task, or a later save
Save ==
  /\ saved' = [sel |-> sel, uploaded |-> uploaded]
  /\ before' = 0
  /\ UNCHANGED <<disk, db, sel, moved, phase, usesSlot, uploaded, sent, mine, pc,
                 engine, cancelled, counts, holder>>

Changed(s) == (sel \ s) \cup (s \ sel)

\* Whether some runtime is still to open the files as it was told
Opening == \E i \in Proc : pc[i] \in {"starting", "opened"}

\* The selection becomes s.
Select(s) ==
  /\ MoveBack \/ s = sel \/ (Changed(s) \cap moved = {} /\ ~Opening)
  /\ sel' = s
  /\ moved' = moved \cup Changed(s)

\* The task is loaded from the store after a crash.  (The rest of what it keeps
\* is written anew when it is started.)
LoadSaved ==
  /\ Select(saved.sel)
  /\ uploaded' = saved.uploaded
  /\ sent' = sent + before /\ before' = 0
  /\ UNCHANGED <<phase, usesSlot, saved>>

\* The application crashes: the input of its runtime closes.
AppCrash ==
  /\ mine # None /\ edits < MaxEdits
  /\ edits' = edits + 1
  /\ mine' = None
  /\ cancelled' = [cancelled EXCEPT ![mine] = TRUE]
  /\ LoadSaved
  /\ UNCHANGED <<disk, db, pc, engine, base, session, bad, holder>>

RuntimeCrash(i) ==
  /\ pc[i] \in {"live", "closing"} /\ bad < MaxBad
  /\ bad' = bad + 1
  /\ Gone(i)
  /\ UNCHANGED <<disk, db, task, base, session, edits>>

PowerLoss ==
  /\ edits < MaxEdits /\ unsynced # {}
  /\ edits' = edits + 1
  /\ LosePower
  /\ LoadSaved
  /\ mine' = None /\ holder' = None
  /\ pc' = [i \in Proc |-> "none"]
  /\ ses' = [i \in Proc |-> {}]
  /\ cancelled' = [i \in Proc |-> FALSE]
  /\ known' = [i \in Proc |-> [p \in Piece |-> "unknown"]]
  /\ got' = [i \in Proc |-> {}]
  /\ marking' = [i \in Proc |-> {}]
  /\ web' = [i \in Proc |-> FALSE]
  /\ UNCHANGED <<db, base, session, bad>>

\* SetFilePriorities, inside EditTask: the worker has ended, an orphan of a
\* crashed application perhaps not.
SetFilePriorities(s) ==
  /\ mine = None /\ edits < MaxEdits
  /\ s # {} /\ s # sel
  /\ edits' = edits + 1
  /\ Select(s)
  /\ UNCHANGED <<disk, db, phase, usesSlot, uploaded, sent, stored, mine, pc, engine,
                 cancelled, base, session, bad, holder>>

\* A bound: no orphan has files open when the user gets to delete them.
NoRuntime == mine = None /\ \A i \in Proc : pc[i] = "none"

\* Redownload: CleanupFiles, then ResetTask.  When a file cannot be removed
\* the task stays as it was.
Redownload(gone) ==
  /\ NoRuntime /\ edits < MaxEdits
  /\ edits' = edits + 1
  /\ RemoveFiles(gone)
  /\ \/ /\ gone = File
        /\ db' = [p \in Piece |-> "unknown"]
        /\ uploaded' = 0 /\ sent' = 0 /\ before' = before + sent
        /\ phase' = "" /\ usesSlot' = TRUE
        /\ moved' = {}
     \/ UNCHANGED <<db, uploaded, sent, before, phase, usesSlot, moved>>
  /\ UNCHANGED <<sel, saved, mine, pc, engine, cancelled, base, session, bad, holder>>

Runtime(i) ==
  \/ Start(i) \/ OpenCheckpoint(i) \/ OpenFails(i) \/ AddTorrent(i)
  \/ FinishRequest(i) \/ CommitPiece(i) \/ Upload(i)
  \/ \E b \in 0 .. Total - 1, ok \in BOOLEAN : Receive(i, b, ok)
  \/ \E p \in Piece : HashPiece(i, p)
  \/ Sample(i) \/ SampleFails(i) \/ CtxDone(i)
  \/ CloseClient(i) \/ CloseCheckpoint(i) \/ RuntimeCrash(i)

Next ==
  \/ \E i \in Proc : Runtime(i)
  \/ Cancel \/ Save \/ AppCrash \/ PowerLoss
  \/ \E s \in SUBSET File : SetFilePriorities(s) \/ Redownload(s)

Spec == Init /\ [][Next]_vars

-----------------------------------------------------------------------------
\* A task shown as seeding has its selected files whole under its title,
\* through pauses, edits, crashes and power losses.
WholeWhenSeeding ==
  \A i \in Proc : pc[i] = "live" /\ mine = i /\ phase = "seeding" =>
    \A f \in sel : size[f]["title"] = FileLen[f] /\ FileBytes[f] \subseteq good[f]["title"]

\* What a runtime takes for a complete piece, and offers to peers, is right.
KnownIsGood ==
  \A i \in Proc, p \in Piece :
    pc[i] \in {"live", "closing"} /\ known[i][p] = "yes" => ReadsGood(ses[i], p)

\* Two runtimes never write into the same files: not the orphan of a crashed
\* application and the one its successor starts.
OneWriter ==
  Cardinality({i \in Proc : pc[i] \in {"live", "closing"} \/ marking[i] # {}}) <= 1

\* Uploads are counted once across runs, and forgotten only by a reset or, as far
\* as they were not saved, by a crash of the application.
UploadsCounted ==
  [][ /\ uploaded' <= sent'
      /\ uploaded' < uploaded => sent' = 0 \/ (mine' = None /\ uploaded' = saved.uploaded) ]_vars
=============================================================================
