----------------------------- MODULE UpdaterProofs -----------------------------
(***************************************************************************)
(* The update replaces all the files or none, for every manifest and every *)
(* place where it may be interrupted by an error: AllOrNothing and         *)
(* RunsOnWhole of module Updater.                                          *)
(***************************************************************************)
EXTENDS Updater, TLAPS

States == {"old", "new", "bad", "torn", "none"}

UpdaterType ==
  /\ archive \in Archives
  /\ app \in {"running", "exiting", "ended", "new"}
  /\ pc \in {"none", "prepared", "wait", "unpack", "backup", "copy", "restore", "passed", "failed"}
  /\ next \in Nat \ {0}
  /\ installed \in Seq(FileSet)
  /\ install \in [FileSet -> States] /\ before \in [FileSet -> States]

\* The copy that Restore goes by: what was there, or nothing.
BackedUp(f) ==
  IF before[f] = "none" THEN f \notin DOMAIN backup
  ELSE f \in DOMAIN backup /\ backup[f] = before[f]

\* $installed is the beginning of the manifest.
InstalledInOrder ==
  /\ Len(installed) <= Len(Files)
  /\ \A i \in 1 .. Len(installed) : installed[i] = Files[i]

\* The directory is as it was before the replacement, and after a way back that no
\* disk error stopped.
Untouched ==
  /\ pc \in {"none", "prepared", "wait", "unpack", "failed"} /\ ~lost => install = before
  /\ lost => pc = "failed" /\ app \in {"ended", "new"}

Fresh ==
  pc \in {"none", "prepared", "wait", "unpack"} =>
    installed = <<>> /\ next = 1 /\ \A f \in FileSet : f \notin DOMAIN backup

\* A file before next is new, had a copy made and was not locked; the rest of
\* the directory is as it was.
Forward ==
  pc \in {"backup", "copy"} =>
    /\ next <= Len(Files) /\ Len(installed) = next - 1
    /\ \A i \in 1 .. next - 1 : /\ install[Files[i]] = "new"
                                /\ Files[i] \notin locked
                                /\ BackedUp(Files[i])
    /\ \A i \in next .. Len(Files) : install[Files[i]] = before[Files[i]]
    /\ pc = "backup" => \A i \in next .. Len(Files) : Files[i] \notin DOMAIN backup
    /\ pc = "copy" => /\ BackedUp(Files[next])
                      /\ \A i \in next + 1 .. Len(Files) : Files[i] \notin DOMAIN backup

\* Only the last file of $installed may be locked, and then it was not written.
Back ==
  pc = "restore" =>
    /\ next <= Len(installed) + 1
    /\ \A i \in 1 .. Len(installed) : BackedUp(Files[i])
    /\ \A i \in 1 .. next - 1 : install[Files[i]] = before[Files[i]]
    /\ \A i \in Len(installed) + 1 .. Len(Files) : install[Files[i]] = before[Files[i]]
    /\ \A i \in 1 .. Len(installed) :
         Files[i] \in locked => i = Len(installed) /\ install[Files[i]] = before[Files[i]]

\* The helper touches nothing before the program has ended.
HelperWaits ==
  /\ pc # "none" => archive = Good
  /\ pc \in {"unpack", "backup", "copy", "restore", "passed"} => app \in {"ended", "new"}
  /\ app = "new" => pc = "passed"
  /\ pc = "passed" => \A f \in FileSet : install[f] = "new"

UpdaterInv ==
  /\ UpdaterType /\ InstalledInOrder /\ Untouched /\ Fresh
  /\ Forward /\ Back /\ HelperWaits

-----------------------------------------------------------------------------
LEMMA FilesFacts ==
  /\ Len(Files) \in Nat \ {0}
  /\ DOMAIN Files = 1 .. Len(Files)
  /\ \A i \in 1 .. Len(Files) : Files[i] \in FileSet
  /\ \A f \in FileSet : \E i \in 1 .. Len(Files) : f = Files[i]
  /\ \A i, j \in 1 .. Len(Files) : Files[i] = Files[j] => i = j
<1>1. Len(Files) \in Nat /\ DOMAIN Files = 1 .. Len(Files)
  BY UpdaterAssumption
<1>2. Len(Files) # 0
  BY UpdaterAssumption
<1> QED
  BY <1>1, <1>2, UpdaterAssumption DEF FileSet

\* Two directories that agree on every file of the manifest are the same.
LEMMA SameDirectory ==
  ASSUME UpdaterType, \A i \in 1 .. Len(Files) : install[Files[i]] = before[Files[i]]
  PROVE  install = before
<1>1. \A f \in FileSet : install[f] = before[f]
  BY FilesFacts
<1> QED
  BY <1>1 DEF UpdaterType

LEMMA UpdaterInitial == Init => UpdaterInv
<1> SUFFICES ASSUME Init PROVE UpdaterInv
  OBVIOUS
<1>1. UpdaterType
  BY DEF Init, UpdaterType, States
<1>2. Fresh
  BY DEF Init, Fresh
<1>3. InstalledInOrder
  BY FilesFacts DEF Init, InstalledInOrder
<1>4. Untouched /\ Forward /\ Back /\ HelperWaits
  BY DEF Init, Untouched, Forward, Back, HelperWaits
<1> QED
  BY <1>1, <1>2, <1>3, <1>4 DEF UpdaterInv

-----------------------------------------------------------------------------
\* The program, and the helper until it unpacks, leave the directory alone.
LEMMA ProgramKeeps ==
  ASSUME UpdaterInv,
         Prepare \/ Launch \/ AppExits \/ AppEnds \/ WaitForExit \/ WaitTooLong \/ Relaunch
  PROVE  UpdaterInv'
<1>1. UNCHANGED <<next, installed, backup, install, before, locked, lost>>
  BY DEF Prepare, Launch, AppExits, AppEnds, WaitForExit, WaitTooLong, Relaunch
<1>2. UpdaterType'
  BY <1>1 DEF UpdaterInv, UpdaterType, Prepare, Launch, AppExits, AppEnds, WaitForExit,
     WaitTooLong, Relaunch, GiveUp
<1>3. InstalledInOrder'
  BY <1>1 DEF UpdaterInv, InstalledInOrder
<1>4. Untouched' /\ Fresh'
  BY <1>1 DEF UpdaterInv, Untouched, Fresh, Prepare, Launch, AppExits, AppEnds, WaitForExit,
     WaitTooLong, Relaunch, GiveUp
<1>5. pc' \in {"backup", "copy", "restore"} => pc' = pc
  BY DEF Prepare, Launch, AppExits, AppEnds, WaitForExit, WaitTooLong, Relaunch, GiveUp
<1>6. Forward'
  BY <1>1, <1>5 DEF UpdaterInv, Forward, BackedUp
<1>7. Back'
  BY <1>1, <1>5 DEF UpdaterInv, Back, BackedUp
<1>8. HelperWaits'
  <2>1. Prepare => archive' = Good
    BY DEF Prepare, VerifyChecksum, VerifyArchive, UpdaterInv, UpdaterType, Archives, Good
  <2> QED
    BY <1>1, <2>1 DEF UpdaterInv, UpdaterType, HelperWaits, Prepare, Launch, AppExits, AppEnds,
       WaitForExit, WaitTooLong, Relaunch, GiveUp
<1> QED
  BY <1>2, <1>3, <1>4, <1>6, <1>7, <1>8 DEF UpdaterInv

LEMMA UnpackKeeps == UpdaterInv /\ Unpack => UpdaterInv'
<1> SUFFICES ASSUME UpdaterInv, Unpack PROVE UpdaterInv'
  OBVIOUS
<1>1. /\ UNCHANGED <<next, installed, backup, install, before, locked, lost>>
      /\ installed = <<>> /\ next = 1 /\ install = before /\ ~lost
      /\ \A f \in FileSet : f \notin DOMAIN backup
      /\ pc' \in {"backup", "restore"}
  BY DEF UpdaterInv, Fresh, Untouched, Unpack
<1>2. UpdaterType' /\ InstalledInOrder'
  BY <1>1 DEF UpdaterInv, UpdaterType, InstalledInOrder, Unpack
<1>3. Forward' /\ Back'
  BY <1>1, FilesFacts DEF Forward, Back
<1>4. Untouched' /\ Fresh' /\ HelperWaits'
  BY <1>1 DEF UpdaterInv, Untouched, Fresh, HelperWaits, Unpack
<1> QED
  BY <1>2, <1>3, <1>4 DEF UpdaterInv

\* The way back begins at the first file.
LEMMA BackupKeeps == UpdaterInv /\ Backup => UpdaterInv'
<1> SUFFICES ASSUME UpdaterInv, Backup PROVE UpdaterInv'
  OBVIOUS
<1>1. /\ pc = "backup" /\ pc' \in {"copy", "restore"}
      /\ UNCHANGED <<archive, app, installed, install, before, locked, lost>>
      /\ next \in 1 .. Len(Files) /\ Len(installed) = next - 1
      /\ File \in FileSet /\ File = Files[next] /\ install[File] = before[File]
      /\ File \notin DOMAIN backup
  BY FilesFacts DEF UpdaterInv, UpdaterType, Forward, Backup, File
<1>2. UpdaterType' /\ InstalledInOrder'
  BY <1>1 DEF UpdaterInv, UpdaterType, InstalledInOrder, Backup
<1>3. Untouched' /\ Fresh' /\ HelperWaits'
  BY <1>1 DEF UpdaterInv, Untouched, Fresh, HelperWaits
<1>4. CASE pc' = "copy"
  <2>1. next' = next
    BY <1>4 DEF Backup
  <2>2. \A f \in FileSet : f # File => /\ f \in DOMAIN backup' <=> f \in DOMAIN backup
                                       /\ f \in DOMAIN backup => backup'[f] = backup[f]
    BY <1>4, <1>1 DEF Backup
  <2>3. BackedUp(Files[next])'
    <3>1. next' = next /\ before' = before /\ Files[next] = File
      BY <1>1, <2>1
    <3>2. CASE install[File] = "none"
      BY <1>1, <1>4, <3>1, <3>2 DEF Backup, BackedUp
    <3>3. CASE install[File] # "none"
      BY <1>1, <1>4, <3>1, <3>3 DEF Backup, BackedUp
    <3> QED
      BY <3>2, <3>3
  <2>4. \A i \in 1 .. Len(Files) : i # next => Files[i] # File /\ Files[i] \in FileSet
    BY <1>1, FilesFacts
  <2>5. \A i \in 1 .. next' - 1 : BackedUp(Files[i])'
    BY <1>1, <2>1, <2>2, <2>4 DEF UpdaterInv, Forward, BackedUp
  <2>6. \A i \in next' + 1 .. Len(Files) : Files[i] \notin DOMAIN backup'
    BY <1>1, <2>1, <2>2, <2>4 DEF UpdaterInv, Forward
  <2>7. Forward'
    <3>1. \A i \in 1 .. next - 1 : install[Files[i]] = "new" /\ Files[i] \notin locked
      BY <1>1 DEF UpdaterInv, Forward
    <3>2. \A i \in next .. Len(Files) : install[Files[i]] = before[Files[i]]
      BY <1>1 DEF UpdaterInv, Forward
    <3> QED
      BY <1>1, <1>4, <2>1, <2>3, <2>5, <2>6, <3>1, <3>2 DEF Forward
  <2>8. Back'
    BY <1>4 DEF Back
  <2> QED
    BY <1>2, <1>3, <2>7, <2>8 DEF UpdaterInv
<1>5. CASE pc' = "restore"
  <2>1. next' = 1 /\ backup' = backup
    BY <1>5 DEF Backup
  <2>2. \A i \in 1 .. next - 1 : BackedUp(Files[i])'
    BY <1>1, <2>1 DEF UpdaterInv, Forward, BackedUp
  <2>3. Back'
    BY <1>1, <2>1, <2>2 DEF UpdaterInv, Forward, Back
  <2>4. Forward'
    BY <1>5 DEF Forward
  <2> QED
    BY <1>2, <1>3, <2>3, <2>4 DEF UpdaterInv
<1> QED
  BY <1>1, <1>4, <1>5

LEMMA CopyNewKeeps == UpdaterInv /\ CopyNew => UpdaterInv'
<1> SUFFICES ASSUME UpdaterInv, CopyNew PROVE UpdaterInv'
  OBVIOUS
<1>1. /\ pc = "copy" /\ pc' \in {"backup", "passed", "restore"}
      /\ UNCHANGED <<archive, app, before, locked, lost>>
      /\ next \in 1 .. Len(Files) /\ Len(installed) = next - 1
      /\ File \in FileSet /\ File = Files[next] /\ install[File] = before[File]
      /\ BackedUp(File) /\ archive = Good
      /\ installed \in Seq(FileSet) /\ installed' = Append(installed, File)
      /\ install \in [FileSet -> States]
      /\ \A i \in 1 .. next - 1 : /\ install[Files[i]] = "new"
                                  /\ Files[i] \notin locked
                                  /\ BackedUp(Files[i])
      /\ \A i \in next + 1 .. Len(Files) : install[Files[i]] = before[Files[i]]
  <2>1. /\ pc = "copy" /\ UNCHANGED <<archive, app, before, locked, lost>>
        /\ pc' \in {"backup", "passed", "restore"}
        /\ installed' = Append(installed, File)
    BY DEF CopyNew, NoteCopy
  <2>2. /\ next \in 1 .. Len(Files) /\ Len(installed) = next - 1 /\ BackedUp(Files[next])
        /\ \A i \in 1 .. next - 1 : /\ install[Files[i]] = "new"
                                    /\ Files[i] \notin locked
                                    /\ BackedUp(Files[i])
        /\ \A i \in next .. Len(Files) : install[Files[i]] = before[Files[i]]
    BY <2>1, FilesFacts DEF UpdaterInv, UpdaterType, Forward
  <2>3. File = Files[next] /\ File \in FileSet
    BY <2>2, FilesFacts DEF File
  <2>4. archive = Good /\ installed \in Seq(FileSet) /\ install \in [FileSet -> States]
    BY <2>1 DEF UpdaterInv, UpdaterType, HelperWaits
  <2>5. \A i \in next + 1 .. Len(Files) : install[Files[i]] = before[Files[i]]
    <3> SUFFICES ASSUME NEW i \in next + 1 .. Len(Files) PROVE install[Files[i]] = before[Files[i]]
      OBVIOUS
    <3>1. Len(Files) \in Nat
      BY FilesFacts
    <3>2. i \in next .. Len(Files)
      BY <2>2, <3>1
    <3> QED
      BY <2>2, <3>2
  <2> QED
    BY <2>1, <2>2, <2>3, <2>4, <2>5, FilesFacts
<1>2. Len(installed') = next /\ installed' \in Seq(FileSet)
      /\ \A i \in 1 .. next : installed'[i] = Files[i]
  <2>1. Len(installed') = next /\ installed' \in Seq(FileSet) /\ installed'[next] = Files[next]
    BY <1>1
  <2>2. \A i \in 1 .. next - 1 : installed'[i] = installed[i]
    BY <1>1
  <2> QED
    BY <1>1, <2>1, <2>2 DEF UpdaterInv, InstalledInOrder
<1>3. install' \in [FileSet -> States] /\ next' \in Nat \ {0}
  BY <1>1 DEF CopyNew, States
<1>4. UpdaterType' /\ InstalledInOrder'
  BY <1>1, <1>2, <1>3 DEF UpdaterInv, UpdaterType, InstalledInOrder
<1>5. Untouched' /\ Fresh'
  BY <1>1 DEF UpdaterInv, Untouched, Fresh
<1>6. \A i \in 1 .. Len(Files) : i # next => Files[i] # File /\ Files[i] \in FileSet
  BY <1>1, FilesFacts
<1>7. \A i \in 1 .. Len(Files) : i # next => install'[Files[i]] = install[Files[i]]
  BY <1>1, <1>6 DEF CopyNew
<1>8. pc' # "passed" => backup' = backup /\ \A i \in 1 .. next : BackedUp(Files[i])'
  <2>1. pc' # "passed" => backup' = backup
    BY DEF CopyNew
  <2> QED
    BY <1>1, <2>1 DEF BackedUp
<1>9. CASE pc' # "restore"
  <2>1. /\ File \notin locked /\ install'[File] = "new"
        /\ next = Len(Files) => pc' = "passed"
        /\ next # Len(Files) => pc' = "backup" /\ next' = next + 1
    BY <1>1, <1>9 DEF CopyNew
  <2>2. \A i \in 1 .. next : install'[Files[i]] = "new" /\ Files[i] \notin locked
    BY <1>1, <1>7, <2>1
  <2>3. \A i \in next + 1 .. Len(Files) : Files[i] \notin DOMAIN backup
    BY <1>1 DEF UpdaterInv, Forward
  <2>4. Forward'
    BY <1>1, <1>2, <1>7, <1>8, <2>1, <2>2, <2>3 DEF Forward
  <2>5. pc' = "passed" => \A f \in FileSet : install'[f] = "new"
    <3> SUFFICES ASSUME pc' = "passed", NEW f \in FileSet PROVE install'[f] = "new"
      OBVIOUS
    <3>1. next = Len(Files)
      BY <2>1
    <3>2. PICK i \in 1 .. Len(Files) : f = Files[i]
      BY FilesFacts
    <3> QED
      BY <2>2, <3>1, <3>2
  <2>6. HelperWaits'
    BY <1>1, <1>9, <2>5 DEF UpdaterInv, HelperWaits
  <2> QED
    BY <1>4, <1>5, <1>9, <2>4, <2>6 DEF UpdaterInv, Back
<1>10. CASE pc' = "restore"
  <2>1. next' = 1 /\ (File \in locked => install' = install)
    BY <1>10 DEF CopyNew
  <2>2. \A i \in 1 .. next : Files[i] \in locked => i = next /\ install'[Files[i]] = before[Files[i]]
    BY <1>1, <2>1
  <2>3. \A i \in next + 1 .. Len(Files) : install'[Files[i]] = before[Files[i]]
    BY <1>1, <1>7
  <2>4. Back'
    BY <1>1, <1>2, <1>8, <1>10, <2>1, <2>2, <2>3 DEF Back
  <2>5. HelperWaits'
    BY <1>1, <1>10 DEF UpdaterInv, HelperWaits
  <2> QED
    BY <1>4, <1>5, <1>10, <2>4, <2>5 DEF UpdaterInv, Forward
<1> QED
  BY <1>9, <1>10

\* One file put back.
LEMMA RestoreKeeps == UpdaterInv /\ Restore => UpdaterInv'
<1> SUFFICES ASSUME UpdaterInv, Restore PROVE UpdaterInv'
  OBVIOUS
<1> DEFINE k == Len(installed)
<1>1. /\ pc = "restore"
      /\ UNCHANGED <<archive, app, installed, backup, before, locked, lost>> /\ ~lost
      /\ k \in Nat /\ k <= Len(Files) /\ Len(Files) \in Nat
      /\ next \in 1 .. k + 1
      /\ \A i \in 1 .. k : installed[i] = Files[i] /\ BackedUp(Files[i])
      /\ \A i \in 1 .. next - 1 : install[Files[i]] = before[Files[i]]
      /\ \A i \in k + 1 .. Len(Files) : install[Files[i]] = before[Files[i]]
      /\ \A i \in 1 .. k : Files[i] \in locked => i = k /\ install[Files[i]] = before[Files[i]]
  <2>1. pc = "restore" /\ UNCHANGED <<archive, app, installed, backup, before, locked, lost>>
    BY DEF Restore
  <2>2. ~lost
    BY <2>1 DEF UpdaterInv, Untouched
  <2> QED
    BY <2>1, <2>2, FilesFacts DEF UpdaterInv, UpdaterType, InstalledInOrder, Back
<1> DEFINE f == Files[next]
<1>2. /\ next \in 1 .. k /\ f \notin locked /\ pc' = pc /\ next' = next + 1
      /\ install' = [install EXCEPT ![f] = IF f \in DOMAIN backup THEN backup[f] ELSE "none"]
  <2>1. next \in 1 .. k
    BY <1>1 DEF Restore
  <2>2. Undone = f
    BY <1>1, <2>1 DEF Undone
  <2> QED
    BY <2>1, <2>2 DEF Restore
<1>3. /\ f \in FileSet /\ BackedUp(f)
      /\ install \in [FileSet -> States] /\ before \in [FileSet -> States]
  BY <1>1, <1>2, FilesFacts DEF UpdaterInv, UpdaterType
<1>4. install' \in [FileSet -> States] /\ install'[f] = before[f]
  BY <1>2, <1>3 DEF BackedUp, States
<1>5. \A i \in 1 .. Len(Files) : i # next => install'[Files[i]] = install[Files[i]]
  BY <1>1, <1>2, <1>3, FilesFacts
<1>6. UpdaterType' /\ InstalledInOrder'
  BY <1>1, <1>2, <1>4 DEF UpdaterInv, UpdaterType, InstalledInOrder
<1>7. Back'
  <2>1. \A i \in 1 .. next : install'[Files[i]] = before[Files[i]]
    <3> SUFFICES ASSUME NEW i \in 1 .. next PROVE install'[Files[i]] = before[Files[i]]
      OBVIOUS
    <3>1. CASE i = next
      BY <1>4, <3>1
    <3>2. CASE i # next
      <4>1. i \in 1 .. next - 1 /\ i \in 1 .. Len(Files)
        BY <1>1, <1>2, <3>2
      <4> QED
        BY <1>1, <1>5, <3>2, <4>1
    <3> QED
      BY <3>1, <3>2
  <2>2. \A i \in k + 1 .. Len(Files) : install'[Files[i]] = before[Files[i]]
    BY <1>1, <1>2, <1>5
  <2>3. \A i \in 1 .. k :
          Files[i] \in locked => i = k /\ install'[Files[i]] = before[Files[i]]
    BY <1>1, <1>2, <1>5
  <2>4. \A i \in 1 .. k : BackedUp(Files[i])'
    BY <1>1 DEF BackedUp
  <2> QED
    BY <1>1, <1>2, <2>1, <2>2, <2>3, <2>4 DEF Back
<1>8. Untouched' /\ Fresh' /\ Forward' /\ HelperWaits'
  BY <1>1, <1>2 DEF UpdaterInv, Untouched, Fresh, Forward, HelperWaits
<1> QED
  BY <1>6, <1>7, <1>8 DEF UpdaterInv

\* Where the way back ends without a disk error, everything is as it was.
LEMMA RestoreEndsKeeps == UpdaterInv /\ RestoreEnds => UpdaterInv'
<1> SUFFICES ASSUME UpdaterInv, RestoreEnds PROVE UpdaterInv'
  OBVIOUS
<1> DEFINE k == Len(installed)
<1>1. /\ pc = "restore" /\ pc' = "failed" /\ next' = next /\ ~lost
      /\ UNCHANGED <<archive, app, installed, before, locked>>
      /\ k \in Nat /\ k <= Len(Files) /\ Len(Files) \in Nat
      /\ next \in 1 .. k + 1
      /\ \A i \in 1 .. k : installed[i] = Files[i] /\ BackedUp(Files[i])
      /\ \A i \in 1 .. next - 1 : install[Files[i]] = before[Files[i]]
      /\ \A i \in k + 1 .. Len(Files) : install[Files[i]] = before[Files[i]]
      /\ \A i \in 1 .. k : Files[i] \in locked => i = k /\ install[Files[i]] = before[Files[i]]
  BY FilesFacts DEF UpdaterInv, UpdaterType, InstalledInOrder, Back, Untouched, RestoreEnds
<1>2. CASE lost'
  <2>1. install' \in [FileSet -> States]
    <3>1. next \in 1 .. k /\ Undone = Files[next] /\ Undone \in FileSet
      <4>1. next <= k
        BY <1>1, <1>2 DEF RestoreEnds
      <4> QED
        BY <1>1, <4>1, FilesFacts DEF Undone
    <3> QED
      BY <1>1, <1>2, <3>1 DEF RestoreEnds, UpdaterInv, UpdaterType, States
  <2>2. UpdaterType' /\ InstalledInOrder'
    BY <1>1, <1>2, <2>1 DEF UpdaterInv, UpdaterType, InstalledInOrder
  <2>3. Untouched' /\ Fresh' /\ Forward' /\ Back' /\ HelperWaits'
    BY <1>1, <1>2 DEF UpdaterInv, Untouched, Fresh, Forward, Back, HelperWaits
  <2> QED
    BY <2>2, <2>3 DEF UpdaterInv
<1>3. CASE ~lost'
  <2>1. install' = install /\ (next > k \/ installed[next] \in locked)
    BY <1>1, <1>3 DEF RestoreEnds, Undone
  <2>2. next = k + 1 \/ (next = k /\ install[Files[k]] = before[Files[k]])
    BY <1>1, <2>1
  <2>3. \A i \in 1 .. k : install[Files[i]] = before[Files[i]]
    BY <1>1, <2>2
  <2>4. install = before
    BY <1>1, <2>3, SameDirectory DEF UpdaterInv
  <2>5. UpdaterType' /\ InstalledInOrder' /\ Untouched'
    BY <1>1, <1>3, <2>1, <2>4 DEF UpdaterInv, UpdaterType, InstalledInOrder, Untouched
  <2>6. Fresh' /\ Forward' /\ Back' /\ HelperWaits'
    BY <1>1 DEF UpdaterInv, Fresh, Forward, Back, HelperWaits
  <2> QED
    BY <2>5, <2>6 DEF UpdaterInv
<1> QED
  BY <1>2, <1>3

LEMMA UpdaterInductive == UpdaterInv /\ [Next]_vars => UpdaterInv'
<1> SUFFICES ASSUME UpdaterInv, [Next]_vars PROVE UpdaterInv'
  OBVIOUS
<1>1. CASE Prepare \/ Launch \/ AppExits \/ AppEnds \/ WaitForExit \/ WaitTooLong \/ Relaunch
  BY <1>1, ProgramKeeps
<1>2. CASE Unpack
  BY <1>2, UnpackKeeps
<1>3. CASE Backup
  BY <1>3, BackupKeeps
<1>4. CASE CopyNew
  BY <1>4, CopyNewKeeps
<1>5. CASE Restore
  BY <1>5, RestoreKeeps
<1>6. CASE RestoreEnds
  BY <1>6, RestoreEndsKeeps
<1>7. CASE UNCHANGED vars
  BY <1>7 DEF vars, UpdaterInv, UpdaterType, InstalledInOrder, Untouched, Fresh, Forward, Back,
     HelperWaits, BackedUp
<1> QED
  BY <1>1, <1>2, <1>3, <1>4, <1>5, <1>6, <1>7 DEF Next, Helper

LEMMA UpdaterInvariance == Spec => []UpdaterInv
BY UpdaterInitial, UpdaterInductive, PTL DEF Spec

-----------------------------------------------------------------------------
\* However many files the release has and whichever of them is locked or torn,
\* the helper ends with all of them replaced or with the directory as it was, or
\* with a disk error in the catch block, after which the copies are gone.
THEOREM UpdateIsAllOrNothing == Spec => []AllOrNothing
<1>1. UpdaterInv => AllOrNothing
  BY DEF UpdaterInv, UpdaterType, Untouched, HelperWaits, AllOrNothing, Whole
<1> QED
  BY <1>1, UpdaterInvariance, PTL

\* The program is only ever running on the files it was started from.
THEOREM ProgramRunsOnWhole == Spec => []RunsOnWhole
<1>1. UpdaterInv => RunsOnWhole
  BY DEF UpdaterInv, UpdaterType, Untouched, HelperWaits, RunsOnWhole
<1> QED
  BY <1>1, UpdaterInvariance, PTL

=============================================================================
