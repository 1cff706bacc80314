------------------------------ MODULE EventQueue ------------------------------
(***************************************************************************)
(* How a change of the tasks reaches the window: emitLocked of             *)
(* internal/core/scheduler.go puts a snapshot into the channel events, the *)
(* pump goroutine of internal/ui/app.go takes it out and posts it to the   *)
(* UI thread, which shows it.                                              *)
(*                                                                         *)
(* A snapshot is the number of the change it was taken after.  emitLocked  *)
(* runs under the scheduler's mu, so there is one emitter, but the pump    *)
(* takes events between its three selects.  StopAll closes the channel     *)
(* under mu.                                                               *)
(***************************************************************************)
EXTENDS Naturals, Sequences

CONSTANTS
  Cap,           \* the capacity of events (16 in NewScheduler)
  MaxChanges     \* bound: how many changes there are

ASSUME QueueAssumption ==
  /\ Cap \in Nat \ {0}
  /\ MaxChanges \in Nat

VARIABLES
  version,   \* the number of the last change of the tasks
  queue,     \* the channel Scheduler.events
  emit,      \* where emitLocked is; mu is held unless it is "idle"
  closed,    \* eventsClosed
  pump,      \* the pump goroutine: "off" before ui.Run starts it, "on", "done"
  posts,     \* closures posted to the UI thread and not run yet
  shown,     \* the snapshot taskModel holds
  window     \* dispatcher.mainWindow: "new" before ui.Run, "open", "cleared"

queueVars == <<version, queue, emit, closed, pump, posts, shown, window>>

-----------------------------------------------------------------------------
\* Faulty variant of Change: the event is given up when the channel is full.
ChangeGivesUp ==
  /\ emit = "idle"
  /\ version < MaxChanges
  /\ version' = version + 1
  /\ queue' = IF ~closed /\ Len(queue) < Cap THEN Append(queue, version') ELSE queue
  /\ UNCHANGED <<emit, closed, pump, posts, shown, window>>

\* A handler changes the tasks and calls emitLocked: return when the channel is
\* closed, else the first select.
Change ==
  /\ emit = "idle"
  /\ version < MaxChanges
  /\ version' = version + 1
  /\ IF closed THEN UNCHANGED <<queue, emit>>
     ELSE IF Len(queue) < Cap THEN queue' = Append(queue, version') /\ UNCHANGED emit
     ELSE emit' = "full" /\ UNCHANGED queue
  /\ UNCHANGED <<closed, pump, posts, shown, window>>

\* The second select: drop the oldest event, if the pump has not taken it.
DropOldest ==
  /\ emit = "full"
  /\ emit' = "dropped"
  /\ queue' = IF queue = <<>> THEN queue ELSE Tail(queue)
  /\ UNCHANGED <<version, closed, pump, posts, shown, window>>

\* Faulty variant of Resend: the third select is missing.
ResendNothing ==
  /\ emit = "dropped"
  /\ emit' = "idle"
  /\ UNCHANGED <<version, queue, closed, pump, posts, shown, window>>

\* The third select: send, or give up.
Resend ==
  /\ emit = "dropped"
  /\ emit' = "idle"
  /\ queue' = IF Len(queue) < Cap THEN Append(queue, version) ELSE queue
  /\ UNCHANGED <<version, closed, pump, posts, shown, window>>

\* The last critical section of StopAll; mu is free.  app.Run and ui.Run call it
\* when there is no window any more, or when ui.Run could not open one.
Close ==
  /\ emit = "idle"
  /\ ~closed
  /\ window # "open"
  /\ closed' = TRUE
  /\ UNCHANGED <<version, queue, emit, pump, posts, shown, window>>

-----------------------------------------------------------------------------
\* ui.Run: show a Snapshot (under mu) and start the pump.  Events of earlier
\* changes may be in the channel already.
StartPump ==
  /\ window = "new"
  /\ emit = "idle" /\ ~closed
  /\ window' = "open"
  /\ pump' = "on"
  /\ shown' = version
  /\ UNCHANGED <<version, queue, emit, closed, posts>>

\* Faulty variant of PumpEvent: Post blocks when the window is cleared.
PumpEventBlocks ==
  /\ pump = "on" /\ window = "open"
  /\ queue # <<>>
  /\ queue' = Tail(queue)
  /\ posts' = Append(posts, Head(queue))
  /\ UNCHANGED <<version, emit, closed, pump, shown, window>>

\* One round of the pump; Post drops the closure when the window is cleared.
PumpEvent ==
  /\ pump = "on"
  /\ queue # <<>>
  /\ queue' = Tail(queue)
  /\ posts' = IF window = "open" THEN Append(posts, Head(queue)) ELSE posts
  /\ UNCHANGED <<version, emit, closed, pump, shown, window>>

\* The range loop ends when the channel is closed and drained.
PumpEnd ==
  /\ pump = "on"
  /\ closed /\ queue = <<>>
  /\ pump' = "done"
  /\ UNCHANGED <<version, queue, emit, closed, posts, shown, window>>

\* The message loop runs a posted closure: taskModel.SetTasks.
Show ==
  /\ window = "open"
  /\ posts # <<>>
  /\ shown' = Head(posts)
  /\ posts' = Tail(posts)
  /\ UNCHANGED <<version, queue, emit, closed, pump, window>>

\* mainWindow.Run returned: app.Clear, and nothing posted runs any more.
ClearWindow ==
  /\ window = "open"
  /\ window' = "cleared"
  /\ UNCHANGED <<version, queue, emit, closed, pump, posts, shown>>

QueueInit ==
  /\ version = 0
  /\ queue = <<>>
  /\ emit = "idle"
  /\ closed = FALSE
  /\ pump = "off"
  /\ posts = <<>>
  /\ shown = 0
  /\ window = "new"

QueueNext ==
  \/ Change \/ DropOldest \/ Resend \/ Close
  \/ StartPump \/ PumpEvent \/ PumpEnd \/ Show \/ ClearWindow

QueueSpec == QueueInit /\ [][QueueNext]_queueVars

\* The goroutine that emits, the pump and the message loop keep running.
FairQueue ==
  /\ QueueSpec
  /\ WF_queueVars(DropOldest \/ Resend)
  /\ WF_queueVars(PumpEvent) /\ WF_queueVars(PumpEnd)
  /\ WF_queueVars(Show)

-----------------------------------------------------------------------------
QueueTypeOK ==
  /\ version \in 0 .. MaxChanges
  /\ queue \in Seq(0 .. MaxChanges)
  /\ Len(queue) <= Cap
  /\ emit \in {"idle", "full", "dropped"}
  /\ closed \in BOOLEAN
  /\ pump \in {"off", "on", "done"}
  /\ posts \in Seq(0 .. MaxChanges)
  /\ shown \in 0 .. MaxChanges
  /\ window \in {"new", "open", "cleared"}

Newest(s, else) == IF s = <<>> THEN else ELSE s[Len(s)]

\* The third select always finds room: nobody but the emitter sends, so the
\* place the second select made is still free, and emitLocked never gives up on
\* the newest state.
RoomToResend == emit = "dropped" => Len(queue) < Cap

\* No terminal state is lost, however far the UI falls behind
\* (docs/DEVELOPMENT.zh-CN.md:84): while the window is open and no emission is
\* under way, the newest state is the last thing on its way to the window, or
\* it is what the window shows.
NewestOnItsWay ==
  window = "open" /\ emit = "idle" =>
    Newest(queue, Newest(posts, shown)) = version

\* When the changes stop, the window shows the last of them, or it is closed.
WindowCatchesUp == [](window = "open" => <>(shown = version \/ window # "open"))

\* Once StopAll has closed the channel the pump drains it and ends, so the
\* shutdown that waits for schedulerEventsDone goes on.
PumpEnds == closed /\ pump = "on" ~> pump = "done"
=============================================================================
