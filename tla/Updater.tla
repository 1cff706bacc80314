-------------------------------- MODULE Updater --------------------------------
(***************************************************************************)
(* The portable update: PortableUpdater.Prepare and LaunchPortableUpdater  *)
(* (internal/update/portable.go), called when the user agrees to an update *)
(* (checkForUpdates in internal/ui/app.go), and the helper they start,     *)
(* scripts/update-portable.ps1, which waits for the program to end and     *)
(* replaces its files.                                                     *)
(*                                                                         *)
(* Prepare works in a directory of its own and is one action; every file   *)
(* the helper copies, back or forth, is one.                               *)
(***************************************************************************)
EXTENDS Naturals, Sequences

CONSTANTS
  Files,        \* the files of the release's manifest in order, its own name last
  Required,     \* the files the program is never without
  MaxFailures   \* bound: disk errors while files are unpacked, copied or put back

FileSet == {Files[i] : i \in DOMAIN Files}

ASSUME UpdaterAssumption ==
  /\ Files \in Seq(FileSet) /\ Files # <<>>
  /\ \A i, j \in DOMAIN Files : Files[i] = Files[j] => i = j
  /\ Required \subseteq FileSet
  /\ MaxFailures \in Nat

\* What may have been downloaded: whether it has the published checksum, whether
\* its manifest names the release, whether the files match the hashes in the
\* manifest, and whether the manifest names all the required ones.
Archives == [published : BOOLEAN, version : BOOLEAN, hashes : BOOLEAN, complete : BOOLEAN]

Good == [published |-> TRUE, version |-> TRUE, hashes |-> TRUE, complete |-> TRUE]

VARIABLES
  archive,    \* what Prepare downloads
  app,        \* "running", "exiting", "ended", "new" once relaunched
  pc,         \* the update: "none", "prepared", then the helper: "wait", "unpack",
              \* "backup", "copy", "restore", "passed", "failed"
  next,       \* the position in Files, or in installed while restoring
  installed,  \* $installed
  backup,     \* $backedUp and the copies in $backup
  install,    \* the program's directory: "old", "new", "bad", "torn" or "none"
  before,     \* history: the program's directory when the helper started
  locked,     \* files another process keeps open
  lost,       \* history: a disk error stopped the way back
  failures

vars == <<archive, app, pc, next, installed, backup, install, before, locked, lost, failures>>

Init ==
  /\ archive \in Archives
  /\ app = "running"
  /\ pc = "none"
  /\ next = 1
  /\ installed = <<>>
  /\ backup = <<>>
  /\ install \in [FileSet -> {"old", "none"}]
  /\ \A f \in Required : install[f] = "old"
  /\ before = install
  /\ locked \in SUBSET {f \in FileSet : install[f] = "old"}
  /\ lost = FALSE
  /\ failures = 0

-----------------------------------------------------------------------------
(* The program *)

VerifyChecksum == archive.published

\* verifyPortableArchive
VerifyArchive == archive.version /\ archive.hashes /\ archive.complete

\* Prepare: an archive that fails a check is thrown away.
Prepare ==
  /\ app = "running" /\ pc = "none"
  /\ VerifyChecksum
  /\ VerifyArchive
  /\ pc' = "prepared"
  /\ UNCHANGED <<archive, app, next, installed, backup, install, before, locked, lost, failures>>

\* LaunchPortableUpdater
Launch ==
  /\ pc = "prepared"
  /\ pc' = "wait"
  /\ UNCHANGED <<archive, app, next, installed, backup, install, before, locked, lost, failures>>

\* walk.App().Exit(0), posted when the helper has been started
AppExits ==
  /\ app = "running" /\ pc \notin {"none", "prepared"}
  /\ app' = "exiting"
  /\ UNCHANGED <<archive, pc, next, installed, backup, install, before, locked, lost, failures>>

\* The window is gone and app.Run has returned.
AppEnds ==
  /\ app = "exiting"
  /\ app' = "ended"
  /\ UNCHANGED <<archive, pc, next, installed, backup, install, before, locked, lost, failures>>

-----------------------------------------------------------------------------
(* The helper *)

Fail == failures < MaxFailures /\ failures' = failures + 1

WaitForExit ==
  /\ pc = "wait" /\ app = "ended"
  /\ pc' = "unpack"
  /\ UNCHANGED <<archive, app, next, installed, backup, install, before, locked, lost, failures>>

\* Faulty variant of GiveUp: the time is up and the helper goes on.
GoAhead == pc' = "unpack"

GiveUp == pc' = "failed"

\* The program needs more than 120 seconds to end.
WaitTooLong ==
  /\ pc = "wait" /\ app # "ended"
  /\ GiveUp
  /\ UNCHANGED <<archive, app, next, installed, backup, install, before, locked, lost, failures>>

\* Expand-Archive and the checks against the manifest
Unpack ==
  /\ pc = "unpack"
  /\ \/ /\ archive.hashes /\ pc' = "backup" /\ UNCHANGED failures
     \/ /\ ~archive.hashes /\ pc' = "restore" /\ UNCHANGED failures
     \/ Fail /\ pc' = "restore"
  /\ UNCHANGED <<archive, app, next, installed, backup, install, before, locked, lost>>

File == Files[next]

\* Copy what is there; another process may keep it from being written, not read.
Backup ==
  /\ pc = "backup"
  /\ \/ /\ backup' = IF install[File] = "none" THEN backup
                     ELSE [f \in DOMAIN backup \cup {File} |-> IF f = File THEN install[f] ELSE backup[f]]
        /\ pc' = "copy"
        /\ UNCHANGED <<next, failures>>
     \/ Fail /\ pc' = "restore" /\ next' = 1 /\ UNCHANGED backup
  /\ UNCHANGED <<archive, app, installed, install, before, locked, lost>>

\* $installed.Add comes before the copy.
NoteCopy == installed' = Append(installed, File)

\* The finally block removes $work, and the copies in it, however the try ended.
RemoveWork == backup' = <<>>

CopyNew ==
  /\ pc = "copy"
  /\ NoteCopy
  /\ \/ /\ File \notin locked
        /\ install' = [install EXCEPT ![File] = IF archive = Good THEN "new" ELSE "bad"]
        /\ IF next = Len(Files)
           THEN pc' = "passed" /\ next' = 1 /\ RemoveWork
           ELSE pc' = "backup" /\ next' = next + 1 /\ UNCHANGED backup
        /\ UNCHANGED failures
     \/ /\ File \in locked
        /\ pc' = "restore" /\ next' = 1
        /\ UNCHANGED <<install, backup, failures>>
     \/ /\ File \notin locked /\ Fail
        /\ install' = [install EXCEPT ![File] = "torn"]
        /\ pc' = "restore" /\ next' = 1
        /\ UNCHANGED backup
  /\ UNCHANGED <<archive, app, before, locked, lost>>

\* Faulty variant of Undone: the last file first.
UndoneBackwards == installed[Len(installed) + 1 - next]

Undone == installed[next]

\* The catch block, file by file: Copy-Item of the copy, or Remove-Item.
Restore ==
  /\ pc = "restore"
  /\ next <= Len(installed)
  /\ Undone \notin locked
  /\ install' = [install EXCEPT ![Undone] = IF Undone \in DOMAIN backup THEN backup[Undone] ELSE "none"]
  /\ next' = next + 1
  /\ UNCHANGED <<archive, app, pc, installed, backup, before, locked, lost, failures>>

\* The catch block is through, or an error ends it at a file: a locked one is left
\* as it is, a disk error may tear the file that is put back or leave the new one.
RestoreEnds ==
  /\ pc = "restore"
  /\ \/ /\ next > Len(installed)
        /\ UNCHANGED <<install, lost, failures>>
     \/ /\ next <= Len(installed) /\ Undone \in locked
        /\ UNCHANGED <<install, lost, failures>>
     \/ /\ next <= Len(installed) /\ Undone \notin locked /\ Fail
        /\ lost' = TRUE
        /\ \E left \in {install[Undone]} \cup (IF Undone \in DOMAIN backup THEN {"torn"} ELSE {}) :
             install' = [install EXCEPT ![Undone] = left]
  /\ RemoveWork
  /\ pc' = "failed"
  /\ UNCHANGED <<archive, app, next, installed, before, locked>>

Relaunch ==
  /\ pc = "passed" /\ app = "ended"
  /\ app' = "new"
  /\ UNCHANGED <<archive, pc, next, installed, backup, install, before, locked, lost, failures>>

-----------------------------------------------------------------------------
Helper == WaitForExit \/ WaitTooLong \/ Unpack \/ Backup \/ CopyNew \/ Restore \/ RestoreEnds \/ Relaunch

Next == Prepare \/ Launch \/ AppExits \/ AppEnds \/ Helper

Spec == Init /\ [][Next]_vars

-----------------------------------------------------------------------------
\* When the helper has ended, the directory holds the files of the release, all of
\* them and no others of that manifest, or exactly what it held before: a file
\* that tears is put back, a new file that comes too early is removed, and a file
\* somebody keeps open stops neither the way back nor what was put back before
\* it (the catch block, in the order of $installed).  The one exception is a disk
\* error on the way back itself: it ends the catch block, and the finally block
\* deletes the copies all the same.
Whole == install = before \/ \A f \in FileSet : install[f] = "new"
AllOrNothing == pc \notin {"backup", "copy", "restore"} /\ ~lost => Whole

\* The program never runs on files that are being replaced: neither the old one,
\* which may need longer than the helper waits, nor the new one, which is started
\* only on a whole release (WaitForExit, and the throw that ends every failure).
RunsOnWhole ==
  /\ app \in {"running", "exiting"} => install = before
  /\ app = "new" => \A f \in FileSet : install[f] = "new"
=============================================================================
