--------------------------------- MODULE Tools ---------------------------------
(***************************************************************************)
(* The programs the workers run as child processes, and the calls that run *)
(* them; kind says which one a behaviour is about:                         *)
(*   "m3u8"    Worker.Run of internal/download/m3u8, for N_m3u8DL-RE       *)
(*   "ffmpeg"  Worker.Run of internal/download/ffmpeg                      *)
(*   "bt"      Worker.Run of internal/btruntime, for cmd/gd3-bt-runtime    *)
(*   "single"  runSingle of internal/btruntime, for the same program       *)
(*   "plugin"  Manager.call of internal/pluginhost                         *)
(*                                                                         *)
(* The programs are external: of them the model has what the calls rely on *)
(* or must survive.  A pipe holds up to Buffer writes, and a program whose *)
(* pipe is full waits.  What a program writes is                           *)
(*   "progress"  something to report                                       *)
(*   "long"      a line longer than the scanner's buffer (m3u8)            *)
(*   "done", "failed"  the terminal message, or the answer                 *)
(*   "torn"      a message cut off by the death of the program             *)
(***************************************************************************)
EXTENDS Naturals, Sequences

CONSTANTS
  Kinds,       \* the kinds a behaviour may be of
  Buffer,      \* bound: how much a pipe holds
  MaxWrites    \* bound: progress messages of the program

AllKinds == {"m3u8", "ffmpeg", "bt", "single", "plugin"}

ASSUME ToolsAssumption ==
  /\ Kinds \subseteq AllKinds
  /\ {Buffer, MaxWrites} \subseteq Nat \ {0}

VARIABLES
  kind,
  ctx,       \* "live" or "cancelled": by the user, or by the deadline of a call
  run,       \* where the call is: "begin", "send", "read", "wait", "killed",
             \* "finish", "returned"; "dead" when this process has died
  inputs,    \* ffmpeg: how many of its two inputs have been fetched
  result,    \* what it returned: "ok", "error", "canceled"
  said,      \* the terminal message it has read, or "torn", or "nothing"
  stdin,     \* "open" or "closed"
  pipe,      \* what the program has written and nobody has read
  reader,    \* the goroutine that reads: "on", "holding" a report, or "off"
  last,      \* the last report: "none", "progress" or "final"
  child,     \* "none", "started", "working", "ending", "exited"
  outcome,   \* how it ended: "none", "ok", "error", "canceled", "crashed", "killed"
  muxer,     \* the ffmpeg that N_m3u8DL-RE has started is alive
  output,    \* a file under the task's name: "none", "stale" (there before), "partial", "whole"
  writes

vars == <<kind, ctx, run, inputs, result, said, stdin, pipe, reader, last,
          child, outcome, muxer, output, writes>>

callVars == <<kind, ctx, run, inputs, result, said, stdin>>
toolVars == <<child, outcome, muxer, output, writes>>

Init ==
  /\ kind \in Kinds
  /\ ctx = "live"
  /\ run = "begin" /\ inputs = 0 /\ result = "none" /\ said = "nothing"
  /\ stdin = "open"
  /\ pipe = <<>>
  /\ reader = "off"
  /\ last = "none"
  /\ child = "none" /\ outcome = "none"
  /\ muxer = FALSE
  /\ output \in {"none", "stale"}
  /\ writes = 0

\* m3u8 and ffmpeg read in goroutines of their own.
Scans == kind \in {"m3u8", "ffmpeg"}

-----------------------------------------------------------------------------
(* The beginning *)

Return(r) == run' = "returned" /\ result' = r

\* The user cancels, or the deadline of a plugin call passes.
Cancel ==
  /\ ctx = "live" /\ run # "returned"
  /\ ctx' = "cancelled"
  /\ UNCHANGED <<kind, inputs, run, result, said, stdin, pipe, reader, last, toolVars>>

\* downloadResource, from the start of the resource; ctx is the request's.
FetchInput ==
  /\ kind = "ffmpeg" /\ run = "begin" /\ inputs < 2 /\ ctx = "live"
  /\ inputs' = inputs + 1
  /\ last' = "progress"
  /\ UNCHANGED <<kind, ctx, run, result, said, stdin, pipe, reader, toolVars>>

\* The program is not there or cannot be started, the directories cannot be
\* made, or an input cannot be fetched.
CannotStart ==
  /\ run = "begin"
  /\ Return(IF ctx = "cancelled" /\ kind = "ffmpeg" THEN "canceled" ELSE "error")
  /\ UNCHANGED <<kind, inputs, ctx, said, stdin, pipe, reader, last, toolVars>>

StartTool ==
  /\ run = "begin"
  /\ kind = "ffmpeg" => inputs = 2
  /\ child' = "started"
  /\ run' = IF kind \in {"bt", "plugin"} THEN "send" ELSE "wait"
  /\ reader' = IF Scans THEN "on" ELSE "off"
  /\ UNCHANGED <<kind, inputs, ctx, result, said, stdin, pipe, last, outcome, muxer, output, writes>>

\* The request is written; a plugin's input is closed then.
Send ==
  /\ run = "send" /\ child # "exited"
  /\ run' = "read"
  /\ stdin' = IF kind = "plugin" THEN "closed" ELSE stdin
  /\ UNCHANGED <<kind, inputs, ctx, result, said, pipe, reader, last, toolVars>>

\* The program has died, or it is killed and waited for.
CannotSend ==
  /\ run = "send"
  /\ child' = "exited"
  /\ outcome' = IF child = "exited" THEN outcome ELSE "killed"
  /\ Return("error")
  /\ UNCHANGED <<kind, inputs, ctx, said, stdin, pipe, reader, last, muxer, output, writes>>

-----------------------------------------------------------------------------
(* Reading *)

\* scanOutput, drainFFmpegProgress; a line that is too long ends the scanner.
Scan ==
  /\ Scans /\ reader = "on" /\ pipe # <<>>
  /\ reader' = IF Head(pipe) = "long" THEN "off" ELSE "holding"
  /\ pipe' = Tail(pipe)
  /\ UNCHANGED <<callVars, last, toolVars>>

ScanReports ==
  /\ reader = "holding"
  /\ last' = "progress"
  /\ reader' = "on"
  /\ UNCHANGED <<callVars, pipe, toolVars>>

\* The program has closed its end, or Wait has closed ours.
ScanEnds ==
  /\ Scans /\ reader = "on" /\ child = "exited"
  /\ reader' = "off"
  /\ UNCHANGED <<callVars, pipe, last, toolVars>>

\* The loop of btruntime's Worker.Run; call reads one line.
Read ==
  /\ run = "read" /\ pipe # <<>>
  /\ pipe' = Tail(pipe)
  /\ IF Head(pipe) = "progress"
     THEN last' = "progress" /\ UNCHANGED <<run, said>>
     ELSE said' = Head(pipe) /\ run' = "wait" /\ UNCHANGED last
  /\ UNCHANGED <<kind, inputs, ctx, result, stdin, reader, toolVars>>

ReadEOF ==
  /\ run = "read" /\ pipe = <<>> /\ child = "exited"
  /\ run' = "wait"
  /\ UNCHANGED <<kind, inputs, ctx, result, said, stdin, pipe, reader, last, toolVars>>

-----------------------------------------------------------------------------
(* Cancelling *)

\* Faulty variant of CloseInput: the input stays open until Done.
KeepInput == run = "wait" /\ stdin' = "closed"

\* btruntime: cancelling, and the end of the loop, close the input.
CloseInput == (ctx = "cancelled" \/ run = "wait") /\ stdin' = "closed"

BtCancel ==
  /\ kind = "bt" /\ run \in {"read", "wait"} /\ stdin = "open"
  /\ CloseInput
  /\ UNCHANGED <<kind, inputs, ctx, run, result, said, pipe, reader, last, toolVars>>

\* Faulty variant of KillTree: Process.Kill.
KillProcess == child' = "exited" /\ UNCHANGED muxer

\* killProcessTree
KillTree == child' = "exited" /\ muxer' = FALSE

M3u8Cancel ==
  /\ kind = "m3u8" /\ run = "wait" /\ ctx = "cancelled"
  /\ IF child = "exited" THEN UNCHANGED toolVars
     ELSE KillTree /\ outcome' = "killed" /\ UNCHANGED <<output, writes>>
  /\ run' = "killed"
  /\ UNCHANGED <<kind, inputs, ctx, result, said, stdin, pipe, reader, last>>

\* exec.CommandContext
CommandCancel ==
  /\ kind \in {"ffmpeg", "single", "plugin"} /\ ctx = "cancelled"
  /\ child \in {"started", "working", "ending"}
  /\ child' = "exited"
  /\ outcome' = "killed"
  /\ UNCHANGED <<callVars, pipe, reader, last, muxer, output, writes>>

-----------------------------------------------------------------------------
(* The end.  In "wait" the call is in Wait, or it selects between the end of *)
(* the program and ctx.                                                      *)

WaitReturns ==
  /\ run = "wait" /\ child = "exited"
  /\ kind = "bt" => stdin = "closed"
  /\ run' = "finish"
  /\ UNCHANGED <<kind, inputs, ctx, result, said, stdin, pipe, reader, last, toolVars>>

\* The runtime's terminal message, without an error, and its exit code
Terminal == said = "done" /\ outcome \in {"ok", "canceled"}

BtReturns ==
  /\ kind = "bt" /\ run = "finish"
  /\ Return(IF ctx = "cancelled" THEN "canceled" ELSE IF Terminal THEN "ok" ELSE "error")
  /\ UNCHANGED <<kind, inputs, ctx, said, stdin, pipe, reader, last, toolVars>>

\* The answer is in a buffer.
SingleReturns ==
  /\ kind = "single" /\ run = "finish"
  /\ Return(IF outcome # "ok" THEN IF ctx = "cancelled" THEN "canceled" ELSE "error"
            ELSE IF pipe = <<"done">> THEN "ok" ELSE "error")
  /\ UNCHANGED <<kind, inputs, ctx, said, stdin, pipe, reader, last, toolVars>>

\* A deadline that has passed is an error, whatever was read.
PluginReturns ==
  /\ kind = "plugin" /\ run = "finish"
  /\ Return(IF ctx = "live" /\ said = "done" /\ outcome = "ok" THEN "ok" ELSE "error")
  /\ UNCHANGED <<kind, inputs, ctx, said, stdin, pipe, reader, last, toolVars>>

\* The scanners have ended; a live recording is finalized.
M3u8Killed ==
  /\ run = "killed" /\ reader = "off"
  /\ Return("canceled")
  /\ UNCHANGED <<kind, inputs, ctx, said, stdin, pipe, reader, last, toolVars>>

\* Faulty variant of Scanned: the scanners are not waited for.
ScannedOrNot == TRUE

Scanned == reader = "off"

\* The program has ended well, and finalizeOutput finds a file, which may be an
\* old one.
Finalize ==
  IF outcome = "ok" /\ output # "none"
  THEN Return("ok") /\ last' = "final"
  ELSE Return("error") /\ UNCHANGED last

M3u8Returns ==
  /\ kind = "m3u8" /\ run = "finish" /\ Scanned
  /\ Finalize
  /\ UNCHANGED <<kind, inputs, ctx, said, stdin, pipe, reader, toolVars>>

\* drainFFmpegProgress is not waited for.
FFmpegReturns ==
  /\ kind = "ffmpeg" /\ run = "finish"
  /\ IF ctx = "cancelled" THEN Return("canceled") /\ UNCHANGED last ELSE Finalize
  /\ UNCHANGED <<kind, inputs, ctx, said, stdin, pipe, reader, toolVars>>

-----------------------------------------------------------------------------
(* The programs *)

Alive == child \in {"started", "working", "ending"}

\* A program whose reader has died writes into nothing.
Room == Len(pipe) < Buffer \/ run = "dead"

Say(m) == pipe' = IF run = "dead" THEN pipe ELSE Append(pipe, m)

\* It has its request.
Begin ==
  /\ child = "started" /\ run # "send"
  /\ child' = "working"
  /\ output' = IF kind = "ffmpeg" THEN "partial" ELSE output
  /\ UNCHANGED <<callVars, pipe, reader, last, outcome, muxer, writes>>

Progress ==
  /\ kind \in {"m3u8", "ffmpeg", "bt"} /\ child = "working"
  /\ Room /\ writes < MaxWrites
  /\ writes' = writes + 1
  /\ \E m \in {"progress"} \cup (IF kind = "m3u8" THEN {"long"} ELSE {}) : Say(m)
  /\ UNCHANGED <<callVars, reader, last, child, outcome, muxer, output>>

MuxerStarts ==
  /\ kind = "m3u8" /\ child = "working" /\ ~muxer
  /\ muxer' = TRUE
  /\ UNCHANGED <<callVars, pipe, reader, last, child, outcome, output, writes>>

MuxerEnds ==
  /\ muxer
  /\ muxer' = FALSE
  /\ UNCHANGED <<callVars, pipe, reader, last, child, outcome, output, writes>>

\* A program that ends well has written the whole file, or none: it wrote
\* nothing, or under a name that nobody looks for.
FileWritten(o) ==
  output' \in CASE o # "ok" -> {output, "partial"}
                [] o = "ok" /\ output = "partial" -> {"whole"}
                [] OTHER -> {output, "whole"}

ToolEnds ==
  /\ Scans /\ child = "working" /\ ~muxer
  /\ \E o \in {"ok", "error"} : outcome' = o /\ FileWritten(o)
  /\ child' = "ending"
  /\ UNCHANGED <<callVars, pipe, reader, last, muxer, writes>>

\* encodeResult; a plugin answers with a result or with an error.
Answers ==
  /\ kind \in {"single", "plugin"} /\ child = "working"
  /\ \E o \in {"ok", "error"} :
       /\ outcome' = o
       /\ Say(IF o = "ok" THEN "done" ELSE "failed")
  /\ child' = "ending"
  /\ UNCHANGED <<callVars, reader, last, muxer, output, writes>>

\* runWorker: the worker's error is reported, a cancelled one has none.
RuntimeEnds(o) ==
  /\ kind = "bt" /\ child = "working" /\ Room
  /\ o = "canceled" => stdin = "closed"
  /\ outcome' = o
  /\ Say(IF o = "error" THEN "failed" ELSE "done")
  /\ child' = "ending"
  /\ UNCHANGED <<callVars, reader, last, muxer, output, writes>>

Exit ==
  /\ child = "ending"
  /\ child' = "exited"
  /\ UNCHANGED <<callVars, pipe, reader, last, outcome, muxer, output, writes>>

\* The program dies by itself, the runtime perhaps within a message.
Crash ==
  /\ Alive
  /\ child' = "exited"
  /\ outcome' = "crashed"
  /\ \/ UNCHANGED pipe
     \/ kind = "bt" /\ Room /\ Say("torn")
  /\ UNCHANGED <<callVars, reader, last, muxer, output, writes>>

\* This process dies: the pipes of the runtime close.
HostDies ==
  /\ kind = "bt" /\ run \in {"send", "read", "wait", "finish"}
  /\ run' = "dead"
  /\ stdin' = "closed"
  /\ pipe' = <<>>
  /\ UNCHANGED <<kind, inputs, ctx, result, said, reader, last, toolVars>>

-----------------------------------------------------------------------------
Call ==
  \/ CannotStart \/ StartTool \/ Send \/ CannotSend
  \/ Read \/ ReadEOF \/ BtCancel \/ M3u8Cancel \/ WaitReturns
  \/ BtReturns \/ SingleReturns \/ PluginReturns
  \/ M3u8Killed \/ M3u8Returns \/ FFmpegReturns

Scanner == Scan \/ ScanReports \/ ScanEnds

RuntimeStops == RuntimeEnds("canceled")

Next ==
  \/ Cancel \/ FetchInput \/ Call \/ Scanner \/ CommandCancel \/ HostDies
  \/ Begin \/ Progress \/ MuxerStarts \/ MuxerEnds \/ ToolEnds \/ Answers
  \/ (\E o \in {"ok", "error", "canceled"} : RuntimeEnds(o))
  \/ Exit \/ Crash

Spec == Init /\ [][Next]_vars

\* The goroutines of the call run, exec kills the program of a context that is
\* done, and a deadline passes.  Of the programs only the runtime is relied on:
\* it reads its task, and stops when its input is closed.
Fairness ==
  /\ WF_vars(Call) /\ WF_vars(Scanner) /\ WF_vars(CommandCancel)
  /\ WF_vars(kind = "plugin" /\ Cancel)
  /\ WF_vars(kind = "bt" /\ Begin) /\ WF_vars(RuntimeStops)
  /\ WF_vars(Exit)

FairSpec == Spec /\ Fairness

-----------------------------------------------------------------------------
(* Properties *)

\* A call that is cancelled returns, one whose program is gone returns, and a
\* plugin call always does; the runtime of a process that died ends too.  A
\* program that cannot write waits for its reader, the reader for the program,
\* Wait for both, and nothing kills the runtime.
CallsEnd ==
  /\ (ctx = "cancelled" \/ child = "exited" \/ kind = "plugin")
       ~> run \in {"returned", "dead"}
  /\ run = "dead" ~> child \in {"none", "exited"}

\* A call that has returned has left nothing running that could go on writing
\* into the task's files, the muxer included, unless the tool crashed.
NothingLeft ==
  run = "returned" /\ outcome # "crashed" => child \in {"none", "exited"} /\ ~muxer

\* A call that returns without an error has the whole result: the file of a tool
\* that ended well, with the final report as m3u8's last one; ffmpeg's file of
\* both inputs; a runtime that finished its work, was not told to stop and
\* whose reports have all been read; an answer of a program that ended well.
\* For the file of m3u8 a stale one is taken as well, when the tool has left none.
OkIsEarned ==
  result = "ok" =>
    /\ outcome = "ok"
    /\ Scans => output = "whole" \/ (kind = "m3u8" /\ output = "stale")
    /\ kind = "m3u8" => last = "final"
    /\ kind = "ffmpeg" => inputs = 2
    /\ kind = "bt" => said = "done" /\ pipe = <<>>
=============================================================================
