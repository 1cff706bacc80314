# Ghost Downloader (Go + Win32): TLA+ verification project

Ghost Downloader is a download manager for Windows. One process runs a task
scheduler, workers for HTTP, FTP, BitTorrent, M3U8 and FFmpeg tasks, a SQLite
store, a window and a WebSocket bridge for a browser extension; the
BitTorrent engine and the tools are child processes. Paths below are relative
to the repository root (`src/`). `PROJECT.json` maps every definition to the
lines it translates.

## 1. Inventory

### Parts, their state and their operations

| part | state | operations | modelled in |
|---|---|---|---|
| `internal/core/scheduler.go` | `tasks`, `order`, `running`, `maxRunning`, `stopping`, save timer, the locks `mu`, `editMu`, `editSerialMu` | Load, Add, SetMaxRunning, TogglePause, StartAll, PauseAll, Remove, Redownload, EditTask, StopAll; `runTask` with its report closure | `Slots`, `SlotLoops`, `Scheduler` |
| `internal/storage/sqlite_store.go`, `secrets_windows.go` | table `tasks`, one transaction | Load with the migration of plain passwords, Save | `TaskStore` |
| event channel, pump, `ApplicationDispatcher` | 16 events, posted closures, what the window shows | `emitLocked`, the pump of `ui.Run`, `Post`, `Clear` | `EventQueue` |
| `internal/ratelimit/limiter.go` | rate, allowance, time of the last refill | Wait, SetRate, Rate; `waitLimited` of FTP | `Limiter`, `TokenBucket` |
| `internal/download/http` | parts, record file `.ghd`, output file | Run, downloadPart, copyPart, restore, writeRecord | `HttpDownload` |
| `internal/download/ftp` | `.part` file, output, directory mark, hashes of finished files | listDirectory, Run for a file and for a directory, CleanupFiles, PrepareFTPDirectoryOutput | `FtpListing`, `FtpDownload` |
| `internal/download/bt` | files under two paths, piece database, counters of a session | Run, sampling, seeding, Apply of a selection, ResetTask, resume storage | `BtStorage`, `BtSession` |
| `internal/browserbridge`, `ui/browser_pairing.go` | server, sessions, token, last snapshot sent | Apply, Start, Stop, hello, pairing, messages, the two pushing goroutines | `Bridge` |
| `internal/app`, `internal/config` | the settings in memory, in the bridge and in the store | SaveSettings with its way back; start-up; creation of tasks | `Bridge`; order of start and exit in `TaskStore`, `EventQueue` |
| `internal/download/m3u8`, `ffmpeg`, `internal/pluginhost`, `internal/btruntime`, `cmd/gd3-bt-runtime` | a child process, its pipes and scanners | start, read, cancel, kill, wait, report; request and reply | `Tools` |
| `internal/update`, `scripts/update-portable.ps1` | unpacked archive, files of the program, their copies | Prepare, Launch, and the helper's replacement and way back | `Updater` |
| `internal/ui` | dispatcher, table, tracker of notifications | Run, shutdown, dialogs | pump and dispatcher, pairing question, start of an update; the rest is layout |
| `internal/win32`, `internal/logging` | none of their own | system calls | not modelled |

### How they interact

* The window and the bridge call the scheduler. Each exported method is one
  critical section of `mu`, except Redownload, EditTask and StopAll, which
  leave `mu` to wait for a worker, to delete files or to run a callback.
  `editMu` is what excludes the user's other commands meanwhile; Add, Remove
  and SetMaxRunning do not take it.
* A worker is a goroutine. It takes `mu` to copy its task, in each report, and
  when it has returned. Cancelling is a context; the goroutine ends later.
* Every change arms a timer of 500 ms that saves all tasks, and puts a snapshot
  into the event channel.
* All HTTP parts and FTP transfers share one limiter.
* A connection of the extension has a goroutine that handles its messages and
  one that sends snapshots once a second; both may send a snapshot. A pairing
  asks the user on the UI thread, which is also the thread that saves the
  settings and so stops and starts the bridge.
* M3U8, FFmpeg, BitTorrent and plugin calls each supervise a child process
  through pipes. The BitTorrent runtime lives until its standard input closes,
  so it may survive an application that crashed; the lock of its Bolt database
  is all that keeps its successor away.
* An update leaves the program: a script waits for the process to end, replaces
  its files and starts it again.

### What is hard

Workers that end after the user has already changed his mind; calls that
continue on a copy; slots that torrents give away and take back; waiting for a
goroutine while holding a lock; a process that dies between a change and its
save, inside a transaction, or between a write and its record; a full event
channel; retries; a lazily refilled limiter; remote files that are replaced and
directories that belong to somebody else; two runtimes on the same files;
sessions that outlive their settings; pipes that nobody empties; files that
cannot be replaced. `PROJECT.json` lists these hazards at their lines
with the properties that watch them.

### What makes the parts correct

* Scheduler: no more than `maxRunning` active tasks use a slot; a task never has
  two workers; a status never lies about the worker; a waiting task waits for
  a slot or for its old worker only; what the user paused stays paused; an
  edit stays; files are deleted only when nobody writes them; locks are given
  back and StopAll leaves nothing behind.
* Store: the table is always one complete saved list; a list that could not be
  read is never overwritten; migration loses no password.
* Events: the last state reaches the window, and the pump ends.
* Limiter: it is a token bucket, and it does not stall.
* HTTP and FTP: complete means whole, over pauses, broken transfers, crashes and
  replaced files; a run does not retry for ever without progress. FTP leaves directories of others alone.
* BitTorrent: what is shown as seeding is whole, the piece database is right, one
  runtime writes at a time, uploads are counted once.
* Bridge: open sessions belong to the settings in force; the three copies of the
  settings agree; saving and leaving return; the extension catches up.
* Tools: a call returns, leaves nothing running, and reports success only for a
  whole result.
* Updater: all files or none, and the program never runs on a mixture.

## 2. The models

### `Slots`, `SlotLoops`

`Slots` says in two set expressions what the loops of the scheduler compute:
`Admitted` (scheduleLocked on each waiting task in order, each counting the
slots anew) and `Overflow` (enforceMaxRunningLocked). Identifiers are random and
never reused and `order` is only appended to and deleted from, so a task is its
arrival number. `SlotLoops` is the loops as the code has them: `SlotCount` counts
the running entries of existing tasks that use a slot, `EnforceStep` and `ScheduleStep` are one iteration, and
`Enforced` and `Scheduled` the whole pass as recursive functions. `LoopsComputeSlots` compares the
two; the run `core` checks it and `SchedulerProofs` proves it.

### `Scheduler`

One action per critical section. The long calls are split: `RedownloadBegin`,
`RedownloadCopy`, then `RedownloadAbort` or `RedownloadRequeue`; `EditBegin`,
`EditCopy`, `EditAbort` or `EditCommit`; `StopBegin`, `StopEnd`. The goroutine
is `WorkerBegin`, `Report`, `WorkerReturn`, and `LateReport` for the ticker of
the HTTP worker, which outlives Run. `status`, `usesSlot`, `running`,
`cancelled` and `maxRunning` are the fields of the same names; `worker` is the
goroutine itself, which the code does not store; `cfg` is the one part of
`Stage.State` an edit changes, the file selection of a torrent.

History: `held` are the tasks whose last command was a pause, and `edits` counts the
committed edits. Two ways in which the code loses what the user said are in the
model and have a name, so that the properties can except exactly them (see Findings).
`Unheard` is a TogglePause that EditTask undoes, or that finds the task waiting while
it has a live worker. `overtaken` are the tasks whose selection a worker may write
back although it is older than the last edit: it was started after EditTask had
waited for workers (`ed.started`), and was still at work at the commit, which the
comparison of the task did not notice.

`disk` is what the store holds, `Reboot` a crash or a new start at any moment,
followed by Load; every save that succeeds replaces `disk`. With
`MaxRestarts = 0` nothing reads the store, and its rows are left out.

Abstracted: names, URLs, sizes and progress numbers. EditTask compares the whole
task with its copy; the model compares what it keeps and treats a change of the
numbers as a possible difference (`Touch`). The entry of a removed task that
never began stays in `running` as it does in the code. A worker that is not
cancelled may report, finish or fail at any time; a cancelled one may as well.

### `TaskStore`

Inside Save: DELETE, one INSERT per task, COMMIT, a failure of any of them, and
a crash between them; inside Load: row by row, with the migration of plain
passwords, which calls Save. SQLite's atomic commit and DPAPI are assumed.

### `EventQueue`

`emitLocked` is three selects, so the pump may take an event between them; the
pump, `Post`, the message loop, `Clear` and the closing of the channel are
actions. A snapshot is the number of the change after which it was taken.

### `Limiter`, `TokenBucket`

Time is discrete. The lazily refilled limiter is shown to implement a bucket
that fills at every tick: the mapping `level <- Refilled` is the allowance
the next refill would give. `left` are the bytes of a download's chunk that were
not granted yet: a step that grants n bytes of a chunk takes n bytes out of the
bucket, and no other step but a lower rate takes any. So a poll that granted without
paying, or paid without granting, would not be a step of the bucket.

### `HttpDownload`

The parts of a task with a goroutine each (`LoopHead`, `Respond` or `Refuse`,
`Write`, `Advance`, `Eof` or `Break`, `Wake`), the ticker (`RecordTick`,
`RecordLast`, and `RecordLate` after Run has returned), the run (`Start`,
`Cancel`, `Finish`), a crash and the clean-up of a redownload. The output file is
the set of offsets that hold the right byte. The server is external: it may
refuse, stay silent, break off, answer with less than was asked for, but it serves
right bytes (copyPart checks the offset). A crash, or the end of the program beside a
late ticker, may leave any beginning of the record: restore refuses one that is cut
inside an entry and takes any other for the record of fewer parts. `unseen` are the
faults the code takes in without noticing: an answer to an open range that ends
before the file does, and such a record.

### `FtpListing`, `FtpDownload`

`FtpListing` is the pure part: how a walk through a remote directory becomes a
manifest, as a recursive function that takes safeRelativePath entry by entry with the map
of keys it has seen. `FtpDownload` is a task over its runs: opening a transfer at the length of
`.part` or from zero, bytes, a break or an unconfirmed end, the retry, the
rename, the hash, and for a directory the mark in its root and the choice of
another root. A server may refuse to resume (`RetrRefused`), or answer the resumed
transfer with any error, after which the worker drops `.part` and starts from the
beginning. A file's content is the sequence of the *versions* of its bytes,
so that a file joined from two versions shows; a remote file may be replaced
once, by one of another length. Replacing a file by one of the same length and
time cannot be noticed by FTP and is not in the model. A crash may happen at any
step; the user may edit or remove an output and make, unmark or empty a root
between two runs.

### `BtStorage`, `BtSession`

`BtStorage` holds the bytes (right or wrong, one bit each), the two paths a file may
lie under, what of them is flushed, and the piece database, which is keyed by the
piece alone; its operations are those of `resumeFileStorage`. `BtSession`
adds the runtimes: opening (with the lock), the engine's writes, hashing and
completion, the sampling loop with its states and its counters, the closing,
the application's crash that leaves an orphan, a power loss, an edit of
the selection, and a download anew. The selection and the counter of uploads are in
memory and, as `saved`, in the store, which the scheduler's timer writes at some later
time (`Save`); an application that starts again finds what was saved (`LoadSaved`). The engine is external: it writes into
the pieces of wanted files, hashes what the storage returns, and reports a piece as
known only as the storage says.

### `Bridge`

A connection passes `Hijack`, `Register`, messages and its end; every handler is
an action with what it changes. Between reading the tasks and writing them
(`Compare`, `Write`) either goroutine of a session may be overtaken. SaveSettings is
its steps (stop, start, store, and the way back when one fails), run by the UI
thread, and the question of a pairing is answered by the same thread. Stop takes
the sessions and closes them; the port may be in use. A connection in its handshake is
in nobody's list at that time: it is registered afterwards all the same, and the
history `stranded` keeps its name.

### `Tools`

One call of one of five kinds, its scanner goroutine, its pipe, the program and,
for M3U8, the muxer the program starts. Cancelling kills the process tree
(`taskkill`) or closes the input, by kind. Assumed of the programs: one that ends
well wrote its whole output or nothing new, beside which a file of an earlier run may
lie (`stale`); taskkill works; the runtime reads its task and stops when its input closes.

### `Updater`

Prepare, with its checks of checksum, version, manifest and hashes, is one action on
a directory of its own. The helper's every file operation is an action; any set of
files may be locked by another process, and any unpacking, copying or putting back
may fail. A failure on the way back ends it, and the `finally` block deletes the copies
all the same: the history `lost`.

## 3. Runs

Run them in this directory, for instance `tlc -config core.cfg MCScheduler`.

| run | instance | what it shows |
|---|---|---|
| `core` | 3 tasks, up to 2 stored, one torrent, one task without a worker, limits 1 and 2, all calls but EditTask | slot bound, one worker, true statuses, no idle waiting, no save and no worker after StopAll, redownload only after the old worker, loops compute `Admitted` and `Overflow`; `editMu` is given back |
| `restart` | 1 torrent, slot for it, one edit, one crash, all calls but StopAll | an edit lasts unless overtaken, a pause unless unheard, Load gives back the last state, a waiting task is started |
| `task_store` | 3 tasks, 2 with passwords, 2 revisions | snapshot, migration, a failed Load never writes |
| `event_queue` | channel of 2, 6 changes | the newest state reaches the window, the pump ends |
| `limiter` | 2 clients, rates 0, 1, 2, chunks up to 3 | token bucket, paid for by every grant; no stall for what fits |
| `http` | 4 bytes in 2 parts, and 2 bytes of unknown size; 1 retry, 2 runs | whole files and every byte counted once unless a fault passes unseen; a cancelled run ends, any other unless a part waits for ever |
| `http_plain` | 2 bytes, no ranges | violated: see Findings |
| `ftp` | 8 listings with every kind of collision, files of 2 bytes replaced by 1, 2 retries, 2 runs, 2 faults | no collisions, whole files, foreign directories untouched, loading survives a fault; a cancelled run ends, any other unless it waits or is refused for ever |
| `bt` | 2 files of 1 and 2 bytes, pieces of 2 (the first spans both), 2 runtimes, 1 wrong step, 1 upload, 2 edits or crashes | seeding is whole, the piece database is right, one writer, uploads counted and lost only as far as they were not saved |
| `bridge` | 1 connection, 2 tokens, on and off, 2 saves, 2 failures, 1 change of the tasks | sessions and settings agree but for stranded sessions, Stop returns, the extension catches up |
| `tools` | all 5 kinds, a pipe of 2, 3 writes | nothing left running, success is earned, calls end |
| `updater` | 5 files, 3 of them required, any set locked, 2 disk errors | all or nothing, unless a disk error stops the way back |

Why the bounds suffice: slot competition needs two tasks and a third that is
refused; the limits 1 and 2 exercise both loops; one torrent is enough to give a
slot away and take it back while the others compete; one edit is enough to be
overwritten. A channel of two distinguishes oldest, newest and the one in
between, and six changes overflow it repeatedly. Two parts of two bytes give a
restart inside a part and at its end; a transfer of two bytes can be resumed in the
middle, and a replaced file of one byte is shorter than what lies there. A piece
that spans two files and one that does not are the two cases of the storage. Two
tokens and *off* are all a session can disagree with, and two saves let the second
meet the sessions of the first. A program that writes more than the pipe holds can be
blocked. Two disk errors stop the replacement and then its way back. With two retries an FTP
transfer can be forgiven and refused in turn for ever. Two faults allow a crash followed by a change of the directory.

The bounds named in the modules are `MaxTasks`, `MaxStored`, `MaxEdits`,
`MaxRestarts`, `MaxRev`, `MaxChanges`, `MaxChunk`, `MaxRuns`, `MaxFaults`,
`MaxUpload`, `MaxBad`, `MaxSaves`, `MaxFailures`, `Buffer` and `MaxWrites`;
`MaxRetries` and `RatioLimit` are settings of the program, small here.

StopAll is in `core`. `restart` leaves it out for time only: two of its properties are
theorems with StopAll included, and with it the instance has 2.2 million states, 1.5
million without.

The store of `core` holds no `waiting` task. Load leaves such a task waiting and
schedules nothing, so `WaitsOnlyForSlot` does not hold after a crash that had
saved one; the same is so for a task added while StopAll waits.

Deadlock is checked except where the modelled thing ends or its bounded inputs
are used up (`event_queue`, `ftp`, `bt`, `bridge`, `tools`, `updater`). Symmetry is used
for the two runtimes of `bt`, which has no liveness property.

### Fairness

* Scheduler: the Go runtime runs every runnable goroutine and grants the locks;
  a worker returns once its context is cancelled (`ReturnWhenCancelled`): the
  HTTP, FTP and BT workers select on the context everywhere they wait.
  Nothing is assumed of users, of the save timer or of running downloads.
  `restart` assumes the workers' part only (`WorkerSpec`).
* EventQueue: the emitter, the pump and the message loop go on.
* HttpDownload: what the goroutines do by themselves goes on, and a request or a copy
  breaks off once the context is cancelled. Nothing is assumed of the server, which
  has no time limit, nor of the limiter, where a read longer than the rate waits for ever:
  `RunEnds` therefore promises an end to a cancelled run, and to any other only if no
  part waits for ever.
* FtpDownload: the run goes on (`Step`) but for the transfer of data, which may wait at
  the limiter; dials and replies have deadlines, and a cancelled context ends the wait.
* Limiter: time passes and timers fire.
* Bridge: the steps of a save and of the exit go on, connections finish their
  handshake, the ticker of a session fires, and an extension that stays connected
  reads what it is sent: a write has no deadline, so without that it may block.
  Nothing is assumed of the extension's messages or of the user's answer.
* Tools: the call, its scanner and its cancellation go on; a killed program ends;
  a plugin call has its own time limit; the runtime stops once its input closes.
  Nothing is assumed of a program that runs.

### Findings

`http_plain`: a download from a server without ranges returns before its first
request, because the end -1 counts as reached; the task is completed with an
empty file.

Where the code does less than its documents say, or than one might expect. The first
group is in the models, and the properties except it by a name; each is recorded with its
lines in `hazards`.

* A pause that is lost (`Unheard`). The comment of EditTask says that it "resumes tasks
  that were not explicitly paused" (`internal/core/scheduler.go:338-339`), and
  `docs/DEVELOPMENT.zh-CN.md:125` and `docs/USER_GUIDE.zh-CN.md:73` that an explicitly
  paused task stays paused. EditTask pauses an active task itself and decides to
  resume it before the callback. If the user starts the task during the callback and
  pauses it again, the comparison at the commit sees equal fields, `pauseEpoch` counts
  PauseAll only, and EditTask starts the task.
* Redownload of a *waiting* task leaves it in the queue while its files are deleted, and a
  free slot starts it. Requeueing then shows it as waiting over a live worker, and
  TogglePause pauses a waiting task without cancelling anything (`Unheard` as well).
* A selection that is written back (`overtaken`). A worker that starts after EditTask has
  waited for workers has the old selection. If it is paused before the commit and has
  not returned by then, the comparison finds the task as it was, the edit is
  committed, and the worker's last report puts the old selection back.
* A short answer to an open range, and a record of which a crash has left the first
  entries, complete a download that is not whole (`unseen`). A silent server, and a read
  longer than one second's worth of the limit, keep a run until it is cancelled
  (`Waits`).
* FTP: any error of a resumed transfer drops what there is (`RetrRefused`), and bytes that
  came since the last failure forgive the failures before. With two or more retries a server
  that accepts a few bytes and then refuses the resumption keeps a run for ever.
* A connection in its handshake while the bridge stops is registered afterwards and stays
  (`stranded`); the older of two snapshots sent at once may be the last.
* A crash forgets the uploads that were not saved.
* A file of an earlier run passes for the result of an M3U8 tool that ends well and leaves
  none (`stale`).
* A disk error on the updater's way back ends it, and the copies are deleted (`lost`): the
  directory then is a mixture, which the helper does not start.

The second group is outside the runs:

* Waiting tasks are not scheduled after Load.
* A part that ends at offset 0 collides with `UnknownSize`; a late write of the
  record may follow a Redownload's clean-up (`SlowTicker = TRUE`).
* A selection of a torrent that changes and changes back may find a piece
  complete that lies under the other path (`MoveBack = TRUE`).
* Two browser requests may choose the same free title.
* FFmpeg's report of 99.5 percent may follow the final one; a line of more than
  1 MB stops the reading of N_m3u8DL-RE, and both wait until the call is cancelled.
* Two confirmed updates start two helpers, and a helper that fails does not
  start the program again.

## 4. Proofs

All for every value of the constants that satisfies the modules' ASSUMEs and, where
a bullet names one, a condition of the theorem's own.

* `SchedulerProofs`, slots: `AdmissionBound`, `EnforceBound`. A pass of
  scheduleWaitingLocked never takes the slot holders above the limit, and
  enforceMaxRunningLocked leaves at most the limit. Both go by the latest task of
  the set in question and the cardinality of what is earlier.
* `SchedulerProofs`, loops: `LoopsAlwaysComputeSlots`. The state of each loop after
  task i has a closed form (`EnforceForm`, `ScheduleForm`); one iteration leads from
  one closed form to the next, and the first iteration at which the recursive function
  would differ from it is a contradiction. What makes the iteration right is
  `ManyBefore`: a test that counts the tasks *started* so far decides as the set
  expression does, which counts the tasks *queued* so far.
* `SchedulerProofs`, workers: `TypeCorrect`, `SlotSafety`, and its parts `SlotBoundHolds`,
  `OneWorkerHolds`, `ActiveHasWorkerHolds`, `NoStuckEntryHolds`. The bound
  speaks of statuses while the code counts entries of `running`; `SlotInv` ties
  them together: an active task has an entry (`ActiveHasWorker`), an entry has
  its goroutine while the task exists (`NoStuckEntry`), a goroutine has its entry
  (`OneWorker`), and numbers not handed out are unused (`Fresh`), which is what
  Add needs; a restart needs the same of the store (`FreshDisk`) and that Load
  brings no task back as active. So the bound and the rest hold over crashes and
  restarts too. One lemma covers the starting of workers (`Launch`), used by
  every handler that schedules.
* `SchedulerProofs`, the end and the store: `StopQuiescesHolds`,
  `RestartGivesBackHolds`. `StopInv` says that nothing is active and no timer armed
  from the moment `stopping` is set, not only when StopAll has returned. `RowsSaved`
  is per task: a row is up to date, or its task was cancelled by Redownload or
  EditTask and its worker has not returned. It holds because every other step that
  changes a task arms the timer (lemma `SaveFrame`), and it needs that a row of no
  task is empty (`AbsentRows`).
* `SchedulerProofs`, the queue: `QueueIsServed`, an action property, and
  `WaitsOnlyForSlotHolds`. The first says of each step that it leaves no task waiting
  that could run if there was none before, and of StartAll, SetMaxRunning and Remove
  that they do so whatever they find. The second follows for the time before the
  first restart and a store without waiting tasks (`"waiting" \notin StoredStatus`);
  Load schedules nothing, so neither condition can be dropped.
* `SchedulerProofs`, calls that leave `mu`: `RedownloadAfterExitHolds`,
  `HeldStaysPausedHolds`, `EditSticksHolds`. `RedownloadInv` says who holds `editMu`,
  and that the task whose worker Redownload waits for stays out of the queue.
  `HeldInv` adds that a Redownload is never of a held task and that an edit which
  will resume its task notices a PauseAll by `pauseEpoch` and any other pause by the
  status; the pauses it does not notice are `Unheard`. `StartInv` says that EditTask, once it has
  waited, has seen every goroutine that began to work on its task (`ed.started`); so at a
  commit that leaves the task out of `overtaken` no worker is at work, and `CfgInv`
  follows: the task, a worker's copy and the copy of a Redownload hold the selection
  of the last edit. Neither theorem has a condition on calls, slots or restarts.
* `TaskStoreProofs`: `StoreIsAlwaysASnapshot`, `MigrationIsAlwaysSound`,
  `FailedLoadNeverWrites`. `StoreInv` says what the open transaction has done so far
  (`Transaction`), on whose behalf a Save runs (`WhoSaves`) and that what Load has
  read is what the table holds (`Reading`): the rewrite of the passwords is a Save
  of rows that Load has read, so it is a snapshot only because of the last.
* `SchedulerProofs`, the events: `NewestNeverLost`, `ResendSucceeds`. The strengthening is
  that outside an emission the last event of the channel is the newest state,
  if there is one at all; it is needed because `ui.Run` starts its pump on a
  channel that may already hold events.
* `TransferProofs`, the limiter: `LimiterImplementsBucket`, that is
  `LimiterSpec => Bucket!Spec` under the mapping `level <- Refilled`, with `left` the
  same in both: a poll that grants is the step that takes as many bytes. A tick changes no variable of the code but
  fills the bucket; a poll that grants nothing fills the variable but leaves the
  bucket as it is. Both need that the elapsed time counts for the old rate, which
  SetRate settles first. The invariant adds that the piece `waitLimited` still
  has to ask for is not empty.
* `TransferProofs`, the manifest: `ManifestsAreDisjoint`, for every walk through a
  remote directory. The recursive function that makes the manifest is followed by the
  first entry that would be an exception (`ListedWalk`): the map of keys holds the
  claims of every accepted entry, and safeRelativePath accepts one only apart from them
  (`SafeIsApart`, `AcceptOne`).
* `TransferProofs`, FTP tasks: `FtpInvHolds`, `CompletedIsWhole`, `ForeignRootsStay`,
  `LoadSurvives`, for all lengths of both versions (0 included) and any number of runs,
  retries and faults. `FileInv`: a `.part` has bytes of the second version only when
  it is no longer than that version, which is why a length that fits the first version
  cannot hide a mixture, and a hash is one of a whole file. `RunInv`: the files before the
  current one are whole, and a transfer without a known size has bytes of the current
  version only (`Fresh`), as a run drops what an earlier one left of it. `RootInv`: what a root that is not usable
  has cost. `EndIsWhole` is the heart: what the end of the data accepts is whole.
* `HttpProofs`: `RecordNeverAhead`, `CompletedHasEveryByte`, `CompletedIsWhole`, for every
  size, number of parts and length of the reads. `HttpInv` says that the parts of a run,
  of the record and of every write of it that is under way (`late`) are cut like the task
  and that the file has what they count (`Laid`), and where each goroutine is (`PartInv`).
  `GenerateCuts` is that the parts cover the file without a gap, `CountInv` that the
  number of received bytes is the sum over the parts. All assume `RangesInTime`: every
  stage has ranges and `SlowTicker = FALSE`, and promise nothing once a fault has passed
  `unseen`. `CompletedIsWhole` also assumes `TwoBytes`:
  a file of more than one byte has two for each part, so none ends at offset 0. Without
  each of these TLC finds the property violated (see Findings).
* `BtSessionProofs`: `OneWriterHolds`, `UploadsAreCounted`. The first by
  `HolderWorks`: a runtime that works on the files is the one that holds
  the lock. The second by `Uploads`: what a session has added is what it will
  subtract from the next sample, and neither the counter nor what is saved of it exceeds
  what peers got.
* `BtSessionProofs`, the files: `KnownIsGoodHolds`, `WholeWhenSeedingHolds`, for any
  number and length of files, empty ones included, and any length of the pieces.
  The selection of the task and that of the sessions may differ, when an edit is not saved
  or an orphan goes on. `Told`: a runtime that is yet to open the files was started with
  the selection of the task. The rest of `StoreInv` is about the selection by which the
  files lie (`LaidBy`): a file that was not moved since the last reset lies under one path
  only (`Unmoved`); an open session has that selection and knows what the database
  says (`Sessions`); a piece recorded as
  complete, or about to be, is right *and flushed* where the selection has it, unless
  its files are too short, which the next session notices (`Checkpoint`). *Flushed* is
  what a power loss needs, *too short* what a Redownload that could not remove
  all files needs. `SeedInv` adds the lengths: what Snapshot counts reaches the whole
  selection only with every file in full. Both theorems assume
  `MoveBack = FALSE`; with `TRUE` they are false (see Findings). That every byte
  belongs to one file and one piece (`EntryFile`, `EntryUnique`, `PieceOf`) rests on
  the offsets, a recursive function over the files; these lemmas argue by
  the least file that would be an exception (`LeastNumber`).
* `BridgeProofs`: `BridgeSafety`, `SettingsAlwaysAgree`, `StopEndsSessions`,
  `SessionsAlwaysCurrent`, for any connections, tokens, saves and failures. `SaveInv`
  says for each step of SaveSettings what is applied, stored and in memory;
  `Registered` that an open session is one that Stop will find. `SessionsAlwaysCurrent`
  adds `Current`: connections that are not `stranded` exist only while the bridge
  runs, and what such a session has shown, was given or is being asked for is the token
  that is applied. The other three hold for stranded ones as well.
* `ToolsProofs`: `NothingIsLeft`, `OkIsAlwaysEarned`, for any size of the pipe and
  any output. `ToolsInv` relates the call's place to the child's (`CallAndChild`),
  the muxer to the tool that started it (`MuxerAndTool`), the file to the outcome
  (`FileAndOutcome`: a tool that ended well left a whole file or did not touch it) and says that the terminal message is the last one in the
  pipe (`LastWord`).
* `UpdaterProofs`: `UpdateIsAllOrNothing`, `ProgramRunsOnWhole`, for any manifest, any
  locked files and any number of disk errors. `Forward` says which files are new
  and which copies exist at each step of the replacement, `Back` that the way back
  restores in order what was replaced, `Untouched` that the directory is as before unless
  a disk error has stopped the way back (`lost`), and `HelperWaits` that the program does not
  run meanwhile.

Each of these invariants was checked with TLC on an instance of the module before it
was proved.

Only model-checked:

* liveness and what depends on ENABLED (`LockIsReturned`, `QueueDrains`,
  `WindowCatchesUp`, `PumpEnds`, `SomeoneServed`, `RunEnds`, `StopReturns`,
  `ExtensionCatchesUp`, `CallsEnd`), which the proof system does not reason about.

Every invariant and every action property of a passing run is proved. Facts
about recursive functions (the slot loops, the manifest, the sum over the parts, the
offsets of the files of a torrent) are proved by the least number at which they would
fail, because the library's induction theorems cannot be instantiated here.

## 5. Not modelled

* How a task is made from a source: parsers of URLs, torrents, playlists and
  headers, `DeduplicateTitle`. They keep no state; the one race among them is a
  hazard with a note.
* The seeding time limit, magnet metadata and ports of BitTorrent; the proxy and
  the dialling of FTP and HTTP.
* Progress lines and arguments of the tools; the manifests of plugins.
* The query for the newest release.
* Layout, drawing and sorting of the window, the tracker of notifications.
* `internal/win32`, `internal/logging`: system calls and output.

## 6. Plan

1. Done: all modules above, and the proofs of the safety properties of each.
2. Next: `Shutdown` (the serial executor, `Bridge`, StopAll and `EventQueue`
   composed); the creation of tasks with `DeduplicateTitle`; the tracker of
   notifications.
3. Proofs to come: the abstract specification of the scheduler as a set of slots,
   implemented by `Scheduler`.
