----------------------------- MODULE FtpDownload -----------------------------
(***************************************************************************)
(* The FTP worker (internal/download/ftp/ftp.go) on one task: a file, or   *)
(* the manifest of a directory, whose files it downloads one by one under  *)
(* a root that it owns.  Each file goes to <output>.part, which is renamed *)
(* when the server has confirmed the end of the transfer; in a directory   *)
(* the hash of the finished file is then kept under .gd3_ftp/<id>.  A root *)
(* that is not the task's own is left alone: the task is moved to the      *)
(* output ftp-<id> when it is added or loaded (PrepareFTPDirectoryOutput   *)
(* in internal/core/model.go).                                             *)
(*                                                                         *)
(* A remote file may be replaced between two runs by one of another        *)
(* length, and the user may touch the output directory between two runs.   *)
(* A file's content is the sequence of the versions of its bytes, a hash   *)
(* the content it was taken of.                                            *)
(***************************************************************************)
EXTENDS FtpListing, Integers

CONSTANTS
  Walks,        \* what the server may list
  Length,       \* Length[v]: the length of version v of a remote file
  MaxRetries,   \* Stage.MaxRetries
  MaxRuns,      \* bound: how often Run is called
  MaxFaults     \* bound: crashes, and what the user does in the directory

Unknown == -1
Edited == 0                  \* the version of a byte the user wrote
Absent == <<-1>>             \* no file, no hash

ASSUME FtpAssumption ==
  /\ Walks \subseteq Seq([path : Seq(DOMAIN CleanName) \ {<<>>}, dir : BOOLEAN])
  /\ DOMAIN Length = {1, 2} /\ Length[1] \in Nat /\ Length[2] \in Nat
  /\ Length[1] # Length[2]
  /\ MaxRetries \in Nat /\ MaxRuns \in Nat /\ MaxFaults \in Nat

Versions == {1, 2}
Content(v) == [i \in 1 .. Length[v] |-> v]

VARIABLES
  task,       \* [directory, entries, size, rest]; rest: the server resumes transfers
  version,    \* of each remote file
  run,        \* "idle", "running", how the last Run ended, "down" when the
              \* application has crashed, "refused" when it cannot load the task
  cancel,     \* the context of the run is cancelled
  pc, cur,    \* where Run is, and at which entry
  received, start, failures,
  part, out,  \* <output>.part and <output> of each entry
  hash,       \* .gd3_ftp/<id>/<entry>.complete
  name,       \* the output of the directory: "title" or "ftp-id"
  root,       \* root[n]: "absent", "bare" (no mark), "mine", "foreign" or
              \* "reserved" (the output of another task, not made yet)
  runs, faults

disk == <<part, out, hash, name, root>>
vars == <<task, version, run, cancel, pc, cur, received, start, failures, disk, runs, faults>>

Outputs == {"title", "ftp-id"}

\* verifyFTPDirectoryOwner
Usable(n) == root[n] \in {"absent", "mine"}

\* Faulty variant of Prepare: the task stays where it was.
StayThere == IF ~task.directory \/ Usable(name) THEN {name} ELSE {}

\* PrepareFTPDirectoryOutput: the outputs the task may have; the other name
\* of a directory is tried once.
Prepare ==
  IF ~task.directory \/ Usable(name) THEN {name}
  ELSE {n \in Outputs \ {name} : name = "title" /\ Usable(n)}

Files == {i \in DOMAIN task.entries : ~task.entries[i].dir}

\* A listed size of 0 is no size for a file of its own.
Known(i) == IF task.directory THEN task.size[i] >= 0 ELSE task.size[i] > 0

Init ==
  /\ \E walk \in Walks, directory, rest \in BOOLEAN :
       LET list == ListDirectory(walk)
       IN  /\ ~list.refused
           /\ ~directory => Len(walk) = 1 /\ ~walk[1].dir
           /\ \E size \in [DOMAIN list.entries -> {Unknown, Length[1]}] :
                task = [directory |-> directory, rest |-> rest,
                        entries |-> list.entries, size |-> size]
  /\ version = [i \in DOMAIN task.entries |-> 1]
  /\ run = "idle" /\ cancel = FALSE
  /\ pc = "end" /\ cur = 1
  /\ received = 0 /\ start = 0 /\ failures = 0
  /\ part = [i \in DOMAIN task.entries |-> <<>>]
  /\ out = [i \in DOMAIN task.entries |-> Absent]
  /\ hash = [i \in DOMAIN task.entries |-> Absent]
  /\ \E there \in {"absent", "foreign", "reserved"} :
       /\ root = [n \in Outputs |-> IF n = "title" THEN there ELSE "absent"]
       /\ name = IF there = "absent" \/ ~task.directory THEN "title" ELSE "ftp-id"
  /\ runs = 0 /\ faults = 0

-----------------------------------------------------------------------------
(* Run *)

transfer == <<received, start, failures>>
bounds == <<task, version, runs, faults>>

\* Go on at another place of Run, or return: its variables are gone.
At(where) == run = "running" /\ pc = where
Goto(where) == pc' = where /\ UNCHANGED <<run, cancel>>
Return(result) ==
  /\ pc' = "end" /\ run' = result /\ cancel' = FALSE
  /\ cur' = 1 /\ received' = 0 /\ start' = 0 /\ failures' = 0
Here == UNCHANGED <<cur, transfer>>

Start ==
  /\ run \in {"idle", "paused", "failed"}
  /\ runs < MaxRuns /\ runs' = runs + 1
  /\ run' = "running" /\ cancel' = FALSE
  /\ pc' = IF task.directory THEN "root" ELSE "open"
  /\ cur' = 1
  /\ UNCHANGED <<task, version, transfer, disk, faults>>

\* prepareDirectoryRoot: the root is made first and marked then.
PrepareRoot ==
  /\ At("root")
  /\ \/ root[name] = "absent" /\ root' = [root EXCEPT ![name] = "bare"] /\ Goto("owner") /\ Here
     \/ root[name] = "mine" /\ Goto("next") /\ Here /\ UNCHANGED root
     \/ ~Usable(name) /\ Return("failed") /\ UNCHANGED root
  /\ UNCHANGED <<bounds, part, out, hash, name>>

WriteOwner ==
  /\ At("owner")
  /\ root' = [root EXCEPT ![name] = "mine"]
  /\ Goto("next")
  /\ UNCHANGED <<bounds, cur, transfer, part, out, hash, name>>

\* Faulty variant of CompletedFileMatches: the size of the file is enough.
SizeMatches(i) ==
  /\ out[i] # Absent /\ hash[i] # Absent
  /\ Known(i) => Len(out[i]) = task.size[i]

\* completedFileMatches
CompletedFileMatches(i) ==
  /\ out[i] # Absent
  /\ Known(i) => Len(out[i]) = task.size[i]
  /\ hash[i] = out[i]

\* runDirectory; what it checks of the manifest, listDirectory has checked.
NextEntry ==
  /\ At("next")
  /\ \/ cancel /\ Return("paused")
     \/ ~cancel /\ cur > Len(task.entries) /\ Return("completed")
     \/ /\ ~cancel /\ cur \in DOMAIN task.entries
        /\ IF task.entries[cur].dir \/ CompletedFileMatches(cur)
           THEN cur' = cur + 1 /\ Goto("next") /\ UNCHANGED transfer
           ELSE Goto("open") /\ Here
  /\ UNCHANGED <<bounds, disk>>

\* Nothing says that a part of a file of unknown size is of today's version.
OpenPart ==
  /\ At("open")
  /\ LET resumes == Known(cur) /\ Len(part[cur]) <= task.size[cur]
     IN part' = IF resumes THEN part ELSE [part EXCEPT ![cur] = <<>>]
  /\ received' = Len(part'[cur])
  /\ start' = received' /\ failures' = 0
  /\ Goto("dial")
  /\ UNCHANGED <<bounds, cur, out, hash, name, root>>

-----------------------------------------------------------------------------
(* transfer, and the loop of retries around it, whose head is at OpenPart and *)
(* Wait                                                                     *)

\* Faulty variant of Count: every failure may be the first one.
CountAlways == 1

\* An attempt that brought something forgives the failures before it.
Count == IF received > start THEN 1 ELSE failures + 1

AttemptFails ==
  /\ \E where \in {"dial", "retr", "stream"} : At(where)
  /\ IF cancel THEN Return("paused")
     ELSE IF Count > MaxRetries THEN Return("failed")
     ELSE Goto("wait") /\ failures' = Count /\ UNCHANGED <<cur, received, start>>
  /\ UNCHANGED <<bounds, disk>>

\* The delay before the next attempt
Wait ==
  /\ At("wait")
  /\ IF cancel THEN Return("paused")
     ELSE Goto("dial") /\ start' = received /\ UNCHANGED <<cur, received, failures>>
  /\ UNCHANGED <<bounds, disk>>

Dial ==
  /\ At("dial") /\ ~cancel
  /\ Goto("retr")
  /\ UNCHANGED <<bounds, cur, transfer, disk>>

\* RetrFrom fails, for whatever reason: the part is given up.
RetrRefused ==
  /\ At("retr") /\ received > 0
  /\ received' = 0
  /\ part' = [part EXCEPT ![cur] = <<>>]
  /\ Goto("retr")
  /\ UNCHANGED <<bounds, cur, start, failures, out, hash, name, root>>

Retr ==
  /\ At("retr") /\ (received = 0 \/ task.rest)
  /\ Goto("stream")
  /\ UNCHANGED <<bounds, cur, transfer, disk>>

Read ==
  /\ At("stream")
  /\ received < Length[version[cur]]
  /\ part' = [part EXCEPT ![cur] =
                [i \in DOMAIN @ \cup {received + 1} |->
                   IF i = received + 1 THEN version[cur] ELSE @[i]]]
  /\ received' = received + 1
  /\ Goto("stream")
  /\ UNCHANGED <<bounds, cur, start, failures, out, hash, name, root>>

SizeRight == Known(cur) => received = task.size[cur]

\* The server confirms the end of the data.
EndOfData ==
  /\ At("stream") /\ ~cancel
  /\ received >= Length[version[cur]]
  /\ IF SizeRight THEN Goto("remove") /\ Here ELSE Return("failed")
  /\ UNCHANGED <<bounds, disk>>

-----------------------------------------------------------------------------
(* The finished file *)

RemoveOutput ==
  /\ At("remove")
  /\ out' = [out EXCEPT ![cur] = Absent]
  /\ Goto("rename")
  /\ UNCHANGED <<bounds, cur, transfer, part, hash, name, root>>

Rename ==
  /\ At("rename")
  /\ out' = [out EXCEPT ![cur] = part[cur]]
  /\ part' = [part EXCEPT ![cur] = <<>>]
  /\ IF task.directory THEN Goto("unmark") /\ Here ELSE Return("completed")
  /\ UNCHANGED <<bounds, hash, name, root>>

\* writeCompletionMarker: the old hash is removed, the new one renamed.
RemoveMarker ==
  /\ At("unmark")
  /\ hash' = [hash EXCEPT ![cur] = Absent]
  /\ Goto("mark")
  /\ UNCHANGED <<bounds, cur, transfer, part, out, name, root>>

WriteMarker ==
  /\ At("mark")
  /\ hash' = [hash EXCEPT ![cur] = out[cur]]
  /\ cur' = cur + 1
  /\ Goto("next")
  /\ UNCHANGED <<bounds, transfer, part, out, name, root>>

-----------------------------------------------------------------------------
(* Around a run *)

Cancel ==
  /\ run = "running" /\ ~cancel
  /\ cancel' = TRUE
  /\ UNCHANGED <<bounds, run, pc, cur, transfer, disk>>

Fault == faults < MaxFaults /\ faults' = faults + 1

Crash ==
  /\ run = "running"
  /\ Fault
  /\ Return("down")
  /\ UNCHANGED <<task, version, runs, disk>>

\* Scheduler.Load: a task without an output stops the application.  One that
\* is moved starts over; the hashes stay under its id.
Load ==
  /\ run = "down"
  /\ IF Prepare = {} THEN run' = "refused" /\ UNCHANGED <<name, part, out>>
     ELSE /\ run' = "paused"
          /\ name' \in Prepare
          /\ IF name' = name THEN UNCHANGED <<part, out>>
             ELSE /\ part' = [i \in DOMAIN part |-> <<>>]
                  /\ out' = [i \in DOMAIN out |-> Absent]
  /\ UNCHANGED <<bounds, cancel, pc, cur, transfer, hash, root>>

\* Faulty variant of OwnerVerified: any directory of that name is removed.
OwnerUnverified == TRUE

OwnerVerified == Usable(name)

\* CleanupFiles for a download anew; the hashes go last and may stay.
Cleanup ==
  /\ run \in {"completed", "failed", "paused"}
  /\ runs < MaxRuns
  /\ IF task.directory
     THEN /\ OwnerVerified
          /\ root' = [root EXCEPT ![name] = "absent"]
          /\ hash' \in {hash, [i \in DOMAIN hash |-> Absent]}
     ELSE UNCHANGED <<root, hash>>
  /\ part' = [i \in DOMAIN part |-> <<>>]
  /\ out' = [i \in DOMAIN out |-> Absent]
  /\ run' = "idle"
  /\ UNCHANGED <<bounds, cancel, pc, cur, transfer, name>>

\* Somebody else makes the directory, removes its mark, or edits or removes
\* an output.
Tamper ==
  /\ run \in {"idle", "failed", "paused", "down"}
  /\ Fault
  /\ \/ /\ task.directory
        /\ \/ root[name] = "absent" /\ root' = [root EXCEPT ![name] = "foreign"]
           \/ root[name] = "mine" /\ root' = [root EXCEPT ![name] = "bare"]
        /\ UNCHANGED out
     \/ /\ \E i \in Files :
             /\ out[i] # Absent
             /\ out' \in {[out EXCEPT ![i] = Absent],
                          [out EXCEPT ![i] = [b \in DOMAIN @ |-> Edited]]}
        /\ UNCHANGED root
  /\ UNCHANGED <<task, version, run, cancel, pc, cur, transfer, part, hash, name, runs>>

ReplaceRemote ==
  /\ run \in {"idle", "failed", "paused"}
  /\ \E i \in Files : version[i] = 1 /\ version' = [version EXCEPT ![i] = 2]
  /\ UNCHANGED <<task, run, cancel, pc, cur, transfer, disk, runs, faults>>

Step ==
  \/ PrepareRoot \/ WriteOwner \/ NextEntry \/ OpenPart
  \/ AttemptFails \/ Wait \/ Dial \/ RetrRefused \/ Retr \/ Read \/ EndOfData
  \/ RemoveOutput \/ Rename \/ RemoveMarker \/ WriteMarker

Next ==
  \/ Start \/ Step
  \/ Cancel \/ Crash \/ Load \/ Cleanup \/ Tamper \/ ReplaceRemote

Spec == Init /\ [][Next]_vars

\* A goroutine that runs is scheduled, dials and replies have deadlines, and a
\* cancelled context closes the connection and ends the wait for the limiter.
\* Nothing says that the limiter serves this transfer rather than others.
FairSpec == Spec /\ WF_vars(pc # "stream" /\ Step) /\ WF_vars(cancel /\ AttemptFails)

-----------------------------------------------------------------------------
(* Properties *)

\* No two entries of an accepted directory meet on the disk, on which case
\* does not count (safeRelativePath).
ManifestDisjoint == task.directory => Disjoint(task.entries)

\* A task that has completed left every file whole and of one version,
\* whatever runs, crashes, replaced remote files and user edits came before
\* (Run, downloadDirectoryFile, completedFileMatches).
CompleteIsWhole ==
  run = "completed" => \A i \in Files : \E v \in Versions : out[i] = Content(v)

\* A directory that somebody else made is never taken over or removed
\* (prepareDirectoryRoot, verifyFTPDirectoryOwner).
ForeignUntouched ==
  [][\A n \in Outputs : root[n] \in {"foreign", "reserved"} => root'[n] = root[n]]_root

\* One crash between the making of the root and its mark, or one loss of the
\* mark, does not keep the application from loading a task that was added
\* under its title (PrepareFTPDirectoryOutput, Scheduler.Load).
LoadSurvivesOneFault ==
  run = "refused" => faults >= 2 \/ root["title"] \in {"foreign", "reserved"}

\* A cancelled run ends.  So does every other, unless it waits for ever for data
\* or for the limiter, or is refused the resumption of a transfer for ever: an
\* attempt may then bring a few bytes from the beginning, which forgives the
\* failures before it, and lose them again.  No other way of failing is forgiven
\* without end (the retry loops of Run and downloadDirectoryFile).
RunEnds ==
  /\ run = "running" /\ cancel ~> run # "running"
  /\ \/ run = "running" ~> run # "running"
     \/ <>[](pc = "stream")
     \/ []<><<RetrRefused>>_vars
=============================================================================
