------------------------------ MODULE ToolsProofs ------------------------------
(***************************************************************************)
(* A call of a child process leaves nothing running and says "ok" only for *)
(* a whole result, however large the pipe is and however much the program  *)
(* writes: NothingLeft and OkIsEarned of module Tools.                     *)
(***************************************************************************)
EXTENDS Tools, TLAPS

Message == {"progress", "long", "done", "failed", "torn"}

ToolsType ==
  /\ kind \in AllKinds /\ ctx \in {"live", "cancelled"}
  /\ run \in {"begin", "send", "read", "wait", "killed", "finish", "returned", "dead"}
  /\ result \in {"none", "ok", "error", "canceled"}
  /\ said \in Message \cup {"nothing"}
  /\ stdin \in {"open", "closed"}
  /\ pipe \in Seq(Message)
  /\ reader \in {"on", "holding", "off"}
  /\ child \in {"none", "started", "working", "ending", "exited"}
  /\ outcome \in {"none", "ok", "error", "canceled", "crashed", "killed"}
  /\ muxer \in BOOLEAN
  /\ output \in {"none", "stale", "partial", "whole"}

\* Where the call is says whether its program runs.
CallAndChild ==
  /\ run = "begin" => child = "none" /\ reader = "off"
  /\ run \in {"finish", "killed"} => child = "exited"
  /\ run = "returned" => child \in {"none", "exited"}
  /\ run # "returned" => result = "none"
  /\ run = "dead" => kind = "bt"
  /\ run \in {"send", "read"} => kind \in {"bt", "plugin"}
  /\ kind = "m3u8" /\ result = "ok" => reader = "off"
  /\ outcome = "crashed" => child = "exited"
  /\ child \in {"none", "started", "working"} => outcome = "none"

\* Only a crash of N_m3u8DL-RE leaves its muxer without it.
MuxerAndTool ==
  muxer => kind = "m3u8" /\ (child = "working" \/ (child = "exited" /\ outcome = "crashed"))

FileAndOutcome ==
  /\ kind = "m3u8" /\ outcome = "ok" => output # "partial"
  /\ kind = "ffmpeg" /\ child = "working" => output = "partial"
  /\ kind = "ffmpeg" /\ outcome = "ok" => output = "whole"
  /\ kind = "ffmpeg" /\ child # "none" => inputs = 2

Running == child \in {"none", "started", "working"}

\* The runtime's terminal message comes last, and the runtime stops without an
\* error before its work is done only when it was told to.
LastWord ==
  kind = "bt" =>
    /\ Running => said = "nothing" /\ \A i \in 1 .. Len(pipe) : pipe[i] = "progress"
    /\ outcome # "crashed" => \A i \in 1 .. Len(pipe) - 1 : pipe[i] = "progress"
    /\ outcome # "crashed" /\ said # "nothing" => pipe = <<>>
    /\ run \in {"begin", "send", "read"} => said = "nothing"
    /\ run = "wait" => ~Running
    /\ stdin = "closed" => ctx = "cancelled" \/ run = "dead" \/ ~Running
    /\ outcome = "canceled" => ctx = "cancelled" \/ run = "dead"

Rest == ToolsType /\ CallAndChild /\ MuxerAndTool /\ FileAndOutcome /\ OkIsEarned

ToolsInv == Rest /\ LastWord

-----------------------------------------------------------------------------
LEMMA ToolsInitial == Init => ToolsInv
<1> SUFFICES ASSUME Init PROVE ToolsInv
  OBVIOUS
<1>1. ToolsType
  <2>1. kind \in AllKinds /\ pipe \in Seq(Message)
    BY ToolsAssumption DEF Init
  <2>2. muxer \in BOOLEAN
    BY DEF Init
  <2> QED
    BY <2>1, <2>2 DEF Init, ToolsType
<1>2. CallAndChild /\ MuxerAndTool /\ FileAndOutcome /\ OkIsEarned
  BY DEF Init, CallAndChild, MuxerAndTool, FileAndOutcome, OkIsEarned
<1>3. LastWord
  BY DEF Init, LastWord, Running
<1> QED
  BY <1>1, <1>2, <1>3 DEF ToolsInv, Rest

\* What does not touch the runtime's messages
LEMMA CallsKeepRest ==
  ASSUME ToolsInv,
         Cancel \/ FetchInput \/ CannotStart \/ StartTool \/ Send \/ CannotSend
           \/ ReadEOF \/ BtCancel \/ WaitReturns
  PROVE  Rest'
<1> USE DEF ToolsInv, Rest, ToolsType, CallAndChild, MuxerAndTool, FileAndOutcome, OkIsEarned,
    Scans, toolVars
<1>1. CASE Cancel
  BY <1>1 DEF Cancel
<1>2. CASE FetchInput
  BY <1>2 DEF FetchInput
<1>3. CASE CannotStart
  BY <1>3 DEF CannotStart, Return
<1>4. CASE StartTool
  BY <1>4 DEF StartTool
<1>5. CASE Send
  BY <1>5 DEF Send
<1>6. CASE CannotSend
  BY <1>6 DEF CannotSend, Return
<1>7. CASE ReadEOF
  BY <1>7 DEF ReadEOF
<1>8. CASE BtCancel
  BY <1>8 DEF BtCancel, CloseInput
<1>9. CASE WaitReturns
  BY <1>9 DEF WaitReturns
<1> QED
  BY <1>1, <1>2, <1>3, <1>4, <1>5, <1>6, <1>7, <1>8, <1>9

LEMMA ReturnsKeepRest ==
  ASSUME ToolsInv,
         M3u8Cancel \/ CommandCancel \/ BtReturns \/ SingleReturns \/ PluginReturns
           \/ M3u8Killed \/ M3u8Returns \/ FFmpegReturns
  PROVE  Rest'
<1> USE DEF ToolsInv, Rest, ToolsType, CallAndChild, MuxerAndTool, FileAndOutcome, OkIsEarned,
    Scans, toolVars, callVars, Return
<1>1. CASE M3u8Cancel
  BY <1>1 DEF M3u8Cancel, KillTree
<1>2. CASE CommandCancel
  BY <1>2 DEF CommandCancel
<1>3. CASE BtReturns
  BY <1>3 DEF BtReturns, Terminal, LastWord
<1>4. CASE SingleReturns
  BY <1>4 DEF SingleReturns
<1>5. CASE PluginReturns
  BY <1>5 DEF PluginReturns
<1>6. CASE M3u8Killed
  BY <1>6 DEF M3u8Killed
<1>7. CASE M3u8Returns
  BY <1>7 DEF M3u8Returns, Scanned, Finalize
<1>8. CASE FFmpegReturns
  BY <1>8 DEF FFmpegReturns, Finalize
<1> QED
  BY <1>1, <1>2, <1>3, <1>4, <1>5, <1>6, <1>7, <1>8

LEMMA ReadersKeepRest ==
  ASSUME ToolsInv, Scan \/ ScanReports \/ ScanEnds \/ Read
  PROVE  Rest'
<1> USE DEF ToolsInv, Rest, ToolsType, CallAndChild, MuxerAndTool, FileAndOutcome, OkIsEarned,
    Scans, toolVars, callVars
<1>1. CASE Scan
  BY <1>1 DEF Scan
<1>2. CASE ScanReports
  BY <1>2 DEF ScanReports
<1>3. CASE ScanEnds
  BY <1>3 DEF ScanEnds
<1>4. CASE Read
  <2>1. Head(pipe) \in Message /\ pipe' \in Seq(Message)
    BY <1>4 DEF Read
  <2> QED
    BY <1>4, <2>1 DEF Read
<1> QED
  BY <1>1, <1>2, <1>3, <1>4

LEMMA SaidIsMessages ==
  ASSUME ToolsInv, NEW m \in Message, Say(m)
  PROVE  pipe' \in Seq(Message)
BY DEF ToolsInv, Rest, ToolsType, Say

LEMMA ProgramsKeepRest ==
  ASSUME ToolsInv,
         Begin \/ Progress \/ MuxerStarts \/ MuxerEnds \/ ToolEnds \/ Answers
           \/ (\E o \in {"ok", "error", "canceled"} : RuntimeEnds(o))
           \/ Exit \/ Crash \/ HostDies
  PROVE  Rest'
<1> USE DEF ToolsInv, Rest, ToolsType, CallAndChild, MuxerAndTool, FileAndOutcome, OkIsEarned,
    Scans, toolVars, callVars
<1>1. CASE Begin
  BY <1>1 DEF Begin
<1>2. CASE Progress
  <2>1. pipe' \in Seq(Message)
    BY <1>2, SaidIsMessages DEF Progress, Message
  <2> QED
    BY <1>2, <2>1 DEF Progress
<1>3. CASE MuxerStarts
  BY <1>3 DEF MuxerStarts
<1>4. CASE MuxerEnds
  <2>1. muxer' = FALSE /\ UNCHANGED <<callVars, pipe, reader, last, child, outcome, output>>
    BY <1>4 DEF MuxerEnds
  <2>2. MuxerAndTool'
    BY <2>1
  <2>3. muxer' \in BOOLEAN
    BY <2>1
  <2>4. ToolsType'
    BY <2>1, <2>3
  <2>5. CallAndChild' /\ FileAndOutcome' /\ OkIsEarned'
    BY <2>1
  <2> QED
    BY <2>2, <2>4, <2>5
<1>5. CASE ToolEnds
  BY <1>5 DEF ToolEnds, FileWritten
<1>6. CASE Answers
  <2>1. pipe' \in Seq(Message)
    BY <1>6, SaidIsMessages DEF Answers, Message
  <2> QED
    BY <1>6, <2>1 DEF Answers
<1>7. CASE \E o \in {"ok", "error", "canceled"} : RuntimeEnds(o)
  <2>1. pipe' \in Seq(Message)
    BY <1>7, SaidIsMessages DEF RuntimeEnds, Message
  <2> QED
    BY <1>7, <2>1 DEF RuntimeEnds
<1>8. CASE Exit
  BY <1>8 DEF Exit
<1>9. CASE Crash
  <2>1. pipe' \in Seq(Message)
    BY <1>9, SaidIsMessages DEF Crash, Message
  <2> QED
    BY <1>9, <2>1 DEF Crash, Alive
<1>10. CASE HostDies
  BY <1>10 DEF HostDies
<1> QED
  BY <1>1, <1>2, <1>3, <1>4, <1>5, <1>6, <1>7, <1>8, <1>9, <1>10

-----------------------------------------------------------------------------
\* The steps that neither read nor write a message of the runtime
LEMMA OthersKeepLastWord ==
  ASSUME ToolsInv,
         Cancel \/ FetchInput \/ CannotStart \/ StartTool \/ Send \/ CannotSend
           \/ ReadEOF \/ BtCancel \/ WaitReturns \/ M3u8Cancel \/ CommandCancel
           \/ BtReturns \/ SingleReturns \/ PluginReturns
           \/ M3u8Killed \/ M3u8Returns \/ FFmpegReturns \/ Begin \/ Exit
  PROVE  LastWord'
<1> SUFFICES ASSUME kind' = "bt" PROVE LastWord'
  BY DEF LastWord
<1> USE DEF ToolsInv, Rest, ToolsType, CallAndChild, LastWord, Running, toolVars, callVars, Return
<1>1. CASE Cancel \/ FetchInput \/ CannotStart
  BY <1>1 DEF Cancel, FetchInput, CannotStart
<1>2. CASE StartTool \/ Send
  BY <1>2 DEF StartTool, Send
<1>3. CASE CannotSend
  BY <1>3 DEF CannotSend
<1>4. CASE ReadEOF
  BY <1>4 DEF ReadEOF
<1>5. CASE BtCancel
  BY <1>5 DEF BtCancel, CloseInput
<1>6. CASE WaitReturns
  BY <1>6 DEF WaitReturns
<1>7. CASE M3u8Cancel \/ CommandCancel
  BY <1>7 DEF M3u8Cancel, CommandCancel
<1>8. CASE BtReturns
  BY <1>8 DEF BtReturns
<1>9. CASE SingleReturns \/ PluginReturns
  BY <1>9 DEF SingleReturns, PluginReturns
<1>10. CASE M3u8Killed \/ M3u8Returns \/ FFmpegReturns
  BY <1>10 DEF M3u8Killed, M3u8Returns, FFmpegReturns
<1>11. CASE Begin \/ Exit
  BY <1>11 DEF Begin, Exit
<1> QED
  BY <1>1, <1>2, <1>3, <1>4, <1>5, <1>6, <1>7, <1>8, <1>9, <1>10, <1>11

\* Only progress comes before what ends the loop, so that a message that ends
\* it leaves nothing unread.
LEMMA ReadKeepsLastWord == ToolsInv /\ Read => LastWord'
<1> SUFFICES ASSUME ToolsInv, Read, kind = "bt" PROVE LastWord'
  BY DEF Read, LastWord
<1> USE DEF ToolsInv, Rest, ToolsType, CallAndChild, LastWord, Running, toolVars
<1>1. /\ pipe \in Seq(Message) /\ pipe # <<>> /\ pipe' = Tail(pipe) /\ said = "nothing"
      /\ UNCHANGED <<kind, ctx, stdin, child, outcome>>
  BY DEF Read
<1>2. /\ Len(pipe) \in Nat \ {0} /\ Len(pipe') = Len(pipe) - 1
      /\ \A i \in 1 .. Len(pipe') : pipe'[i] = pipe[i + 1]
      /\ Head(pipe) = pipe[1]
  BY <1>1
<1>3. CASE Head(pipe) = "progress"
  <2>1. UNCHANGED <<run, said>>
    BY <1>3 DEF Read
  <2>2. Running => \A i \in 1 .. Len(pipe') : pipe'[i] = "progress"
    BY <1>2
  <2>3. outcome # "crashed" => \A i \in 1 .. Len(pipe') - 1 : pipe'[i] = "progress"
    BY <1>2
  <2> QED
    BY <1>1, <2>1, <2>2, <2>3 DEF Read
<1>4. CASE Head(pipe) # "progress"
  <2>1. said' = Head(pipe) /\ run' = "wait"
    BY <1>4 DEF Read
  <2>2. ~Running
    BY <1>2, <1>4
  <2>3. outcome # "crashed" => Len(pipe) = 1
    BY <1>2, <1>4
  <2>4. outcome # "crashed" => pipe' = <<>>
    BY <1>1, <1>2, <2>3
  <2>5. outcome # "crashed" => \A i \in 1 .. Len(pipe') - 1 : pipe'[i] = "progress"
    BY <1>2, <2>3
  <2> QED
    BY <1>1, <2>1, <2>2, <2>4, <2>5 DEF Read
<1> QED
  BY <1>3, <1>4

LEMMA WritesKeepLastWord ==
  ASSUME ToolsInv,
         Progress \/ (\E o \in {"ok", "error", "canceled"} : RuntimeEnds(o)) \/ Crash \/ HostDies
  PROVE  LastWord'
<1> SUFFICES ASSUME kind' = "bt" PROVE LastWord'
  BY DEF LastWord
<1> USE DEF ToolsInv, Rest, ToolsType, CallAndChild, LastWord, Running, callVars
<1>1. ASSUME NEW m \in Message, Say(m), Running, kind = "bt"
      PROVE  /\ \A i \in 1 .. Len(pipe') - 1 : pipe'[i] = "progress"
             /\ m = "progress" => \A i \in 1 .. Len(pipe') : pipe'[i] = "progress"
  BY <1>1 DEF Say
<1>2. CASE Progress
  <2>1. Say("progress") /\ child = "working" /\ kind = "bt"
    BY <1>2 DEF Progress
  <2>2. \A i \in 1 .. Len(pipe') : pipe'[i] = "progress"
    BY <1>1, <2>1 DEF Message
  <2>3. \A i \in 1 .. Len(pipe') - 1 : pipe'[i] = "progress"
    BY <1>1, <2>1 DEF Message
  <2> QED
    BY <1>2, <2>2, <2>3 DEF Progress
<1>3. CASE \E o \in {"ok", "error", "canceled"} : RuntimeEnds(o)
  <2>1. PICK o \in {"ok", "error", "canceled"} : RuntimeEnds(o)
    BY <1>3
  <2>2. \A i \in 1 .. Len(pipe') - 1 : pipe'[i] = "progress"
    BY <1>1, <2>1 DEF RuntimeEnds, Message
  <2> QED
    BY <2>1, <2>2 DEF RuntimeEnds
<1>4. CASE Crash
  BY <1>4 DEF Crash, Alive
<1>5. CASE HostDies
  BY <1>5 DEF HostDies, toolVars
<1> QED
  BY <1>2, <1>3, <1>4, <1>5

\* The other programs' pipes and files are not the runtime's.
LEMMA ToolsKeepLastWord ==
  ASSUME ToolsInv,
         Scan \/ ScanReports \/ ScanEnds \/ MuxerStarts \/ MuxerEnds \/ ToolEnds \/ Answers
  PROVE  LastWord'
<1> SUFFICES ASSUME kind' = "bt" PROVE LastWord'
  BY DEF LastWord
<1> QED
  BY DEF ToolsInv, LastWord, Running, toolVars, callVars, Scans, MuxerAndTool, Rest,
     Scan, ScanReports, ScanEnds, MuxerStarts, MuxerEnds, ToolEnds, Answers

LEMMA ToolsInductive == ToolsInv /\ [Next]_vars => ToolsInv'
<1> SUFFICES ASSUME ToolsInv, [Next]_vars PROVE ToolsInv'
  OBVIOUS
<1>1. CASE \/ Cancel \/ FetchInput \/ CannotStart \/ StartTool \/ Send \/ CannotSend
           \/ ReadEOF \/ BtCancel \/ WaitReturns
  BY <1>1, CallsKeepRest, OthersKeepLastWord DEF ToolsInv
<1>2. CASE \/ M3u8Cancel \/ CommandCancel \/ BtReturns \/ SingleReturns \/ PluginReturns
           \/ M3u8Killed \/ M3u8Returns \/ FFmpegReturns
  BY <1>2, ReturnsKeepRest, OthersKeepLastWord DEF ToolsInv
<1>3. CASE Scan \/ ScanReports \/ ScanEnds
  BY <1>3, ReadersKeepRest, ToolsKeepLastWord DEF ToolsInv
<1>4. CASE Read
  BY <1>4, ReadersKeepRest, ReadKeepsLastWord DEF ToolsInv
<1>5. CASE Begin \/ Exit
  BY <1>5, ProgramsKeepRest, OthersKeepLastWord DEF ToolsInv
<1>6. CASE MuxerStarts \/ MuxerEnds \/ ToolEnds \/ Answers
  BY <1>6, ProgramsKeepRest, ToolsKeepLastWord DEF ToolsInv
<1>7. CASE Progress \/ (\E o \in {"ok", "error", "canceled"} : RuntimeEnds(o)) \/ Crash \/ HostDies
  BY <1>7, ProgramsKeepRest, WritesKeepLastWord DEF ToolsInv
<1>8. CASE UNCHANGED vars
  BY <1>8 DEF vars, ToolsInv, Rest, ToolsType, CallAndChild, MuxerAndTool, FileAndOutcome,
     OkIsEarned, LastWord, Running, Scans
<1> QED
  BY <1>1, <1>2, <1>3, <1>4, <1>5, <1>6, <1>7, <1>8 DEF Next, Call, Scanner

LEMMA ToolsInvariance == Spec => []ToolsInv
BY ToolsInitial, ToolsInductive, PTL DEF Spec

-----------------------------------------------------------------------------
\* A call that has returned has left no program, unless the tool crashed and
\* its muxer lived on.
THEOREM NothingIsLeft == Spec => []NothingLeft
<1>1. ToolsInv => NothingLeft
  BY DEF ToolsInv, Rest, ToolsType, CallAndChild, MuxerAndTool, NothingLeft
<1> QED
  BY <1>1, ToolsInvariance, PTL

\* Success is reported only for a program that ended well, with all it said
\* read and its file whole, or for m3u8 with a file that was there before.
THEOREM OkIsAlwaysEarned == Spec => []OkIsEarned
<1>1. ToolsInv => OkIsEarned
  BY DEF ToolsInv, Rest
<1> QED
  BY <1>1, ToolsInvariance, PTL

=============================================================================
