----------------------------- MODULE HttpDownload -----------------------------
(***************************************************************************)
(* The HTTP worker (internal/download/http/worker.go): a task is cut into  *)
(* parts, each downloaded by a goroutine of its own with retries, while a  *)
(* ticker goroutine keeps their progress in the record file <output>.ghd,  *)
(* from which the next run resumes.  Run does not wait for the ticker, so  *)
(* a last write of the record may come after Run has returned.             *)
(*                                                                         *)
(* The output file is the set of offsets that hold the right byte.  Served *)
(* bytes are right: copyPart refuses a response that starts elsewhere.     *)
(* Two faults pass the code unseen: an answer to an open range that ends   *)
(* before the file does, and a record that lacks its last entries.         *)
(***************************************************************************)
EXTENDS Integers, Sequences

CONSTANTS
  Stages,        \* tasks: [size, total, range, blocks], as probed and (total) as served
  MaxRetries,    \* Stage.MaxRetries
  MaxChunk,      \* bound: the bytes of one read
  MaxRuns,       \* bound: how often the task is started
  SlowTicker     \* whether a ticker's last write may outlast a Redownload

UnknownSize == 0
NotSupportedSize == -1

Part == [start : Nat, progress : Nat, end : Int]

ASSUME HttpAssumption ==
  /\ Stages \subseteq [size : Nat, total : Nat \ {0}, range : BOOLEAN, blocks : Nat \ {0}]
  /\ \A s \in Stages : s.size \in {0, s.total}
  /\ MaxRetries \in Nat /\ MaxChunk \in Nat \ {0} /\ MaxRuns \in Nat
  /\ SlowTicker \in BOOLEAN

VARIABLES
  stage,       \* the task
  run,         \* "idle", "running", or how the last Run ended
  cancel,      \* the context of the run is cancelled
  parts,       \* the slice parts of Run; gone with the run, as what follows
  pc,          \* where the goroutine of each part is
  made,        \* the part got bytes since its request was made (madeProgress)
  fails,       \* the failures of downloadPart
  reply,       \* the last offset the open response brings, 0 when it is closed
  chunk,       \* bytes written but not yet added to the part's progress
  received,    \* the counter received
  data,        \* the offsets of the output file that are written
  record,      \* the parts in the record file; <<>> when it is missing or empty
  ticking,     \* the ticker goroutine of the run is alive
  late,        \* record writes of earlier runs' tickers still to come
  runs,        \* how often Run was called
  unseen       \* history: the faults this output has taken in unseen

locals == <<parts, pc, made, fails, reply, chunk>>
partVars == <<locals, received, data>>
vars == <<stage, run, cancel, partVars, record, ticking, late, runs, unseen>>

\* The variables of Run vanish; the last report of a completed one has given
\* received away.
EndOfRun ==
  /\ parts' = <<>> /\ pc' = <<>> /\ made' = <<>> /\ fails' = <<>> /\ reply' = <<>> /\ chunk' = <<>>
  /\ received' = IF run' = "completed" THEN received ELSE 0
  /\ cancel' = FALSE
  /\ ticking' = FALSE

Least(a, b) == IF a <= b THEN a ELSE b

\* generate
Generate(s) ==
  LET n == Least(s.blocks, s.size)
      step == s.size \div n
  IN IF ~s.range THEN <<[start |-> 0, progress |-> 0, end |-> NotSupportedSize]>>
     ELSE IF s.size = 0 THEN <<[start |-> 0, progress |-> 0, end |-> UnknownSize]>>
     ELSE [i \in 1 .. n |->
             [start |-> (i - 1) * step, progress |-> (i - 1) * step,
              end |-> IF i = n THEN s.size - 1 ELSE i * step - 1]]

\* The bytes of restored or fresh parts that need not be downloaded
Downloaded(ps) ==
  LET sum[n \in 0 .. Len(ps)] ==
        IF n = 0 THEN 0 ELSE sum[n - 1] + (ps[n].progress - ps[n].start)
  IN  sum[Len(ps)]

-----------------------------------------------------------------------------
(* Run *)

\* What the ticker of the run may be about to write
Writing == IF ticking /\ (stage.range \/ cancel) THEN {parts} ELSE {}

\* What a write of the record leaves that is not finished: restore takes any number
\* of whole entries for a record, and anything else for none.
Torn(written) == UNION {{SubSeq(r, 1, k) : k \in 0 .. Len(r) - 1} : r \in written}

\* The record is kept, empty, or torn.
Taken(r) == unseen' = unseen \cup (IF r \in {record, <<>>} THEN {} ELSE {"torn record"})

Start ==
  /\ run \in {"idle", "paused", "failed"}
  /\ runs < MaxRuns
  /\ run' = "running"
  /\ runs' = runs + 1
  /\ cancel' = FALSE
  /\ \E restored \in {record} \cup Torn(late) :
       /\ parts' = IF restored # <<>> THEN restored ELSE Generate(stage)
       /\ Taken(restored)
  /\ data' = IF stage.range THEN data ELSE {}          \* O_TRUNC
  /\ received' = Downloaded(parts')
  /\ pc' = [i \in DOMAIN parts' |-> "head"]
  /\ made' = [i \in DOMAIN parts' |-> FALSE]
  /\ fails' = [i \in DOMAIN parts' |-> 0]
  /\ reply' = [i \in DOMAIN parts' |-> 0]
  /\ chunk' = [i \in DOMAIN parts' |-> 0]
  /\ ticking' = TRUE
  /\ UNCHANGED <<stage, record, late>>

Cancel ==
  /\ run = "running" /\ ~cancel
  /\ cancel' = TRUE
  /\ UNCHANGED <<stage, run, partVars, record, ticking, late, runs, unseen>>

\* wg.Wait returned.  The ticker sees done, or is about to write once more.
Finish ==
  /\ run = "running"
  /\ \A i \in DOMAIN parts : pc[i] \in {"done", "failed", "stopped"}
  /\ run' = IF cancel THEN "paused"
            ELSE IF \E i \in DOMAIN parts : pc[i] # "done" THEN "failed" ELSE "completed"
  /\ record' = IF run' = "completed" /\ stage.range THEN <<>> ELSE record
  /\ late' \in {late, late \cup Writing}
  /\ EndOfRun
  /\ UNCHANGED <<stage, data, runs, unseen>>

-----------------------------------------------------------------------------
(* The ticker goroutine *)

RecordTick ==
  /\ run = "running" /\ ticking
  /\ stage.range
  /\ record' = parts
  /\ UNCHANGED <<stage, run, cancel, partVars, ticking, late, runs, unseen>>

\* The context is cancelled: write once and end.
RecordLast ==
  /\ run = "running" /\ ticking /\ cancel
  /\ record' = parts
  /\ ticking' = FALSE
  /\ UNCHANGED <<stage, run, cancel, partVars, late, runs, unseen>>

RecordLate ==
  /\ \E r \in late : record' = r /\ late' = late \ {r}
  /\ UNCHANGED <<stage, run, cancel, partVars, ticking, runs, unseen>>

-----------------------------------------------------------------------------
(* downloadPart and copyPart of part i *)

At(i, where) == run = "running" /\ i \in DOMAIN parts /\ pc[i] = where
Goto(i, where) == pc' = [pc EXCEPT ![i] = where]
Closed(i) == [reply EXCEPT ![i] = 0]     \* resp.Body.Close()
runRest == <<stage, run, cancel, record, ticking, late, runs>>
partRest == <<runRest, unseen>>

\* The head of the loop; a part without ranges starts over.
LoopHead(i) ==
  /\ At(i, "head")
  /\ IF stage.range THEN UNCHANGED <<parts, received, data>>
     ELSE /\ parts' = [parts EXCEPT ![i].progress = 0]
          /\ received' = received - parts[i].progress
          /\ data' = {}
  /\ made' = [made EXCEPT ![i] = FALSE]
  /\ Goto(i, IF parts[i].end # UnknownSize /\ parts'[i].progress > parts[i].end
             THEN "done" ELSE "request")
  /\ UNCHANGED <<fails, reply, chunk, partRest>>

\* Faulty variant of Retry: every failure starts a new count.
RetryForever(i, madeProgress) ==
  IF cancel THEN Goto(i, "stopped") /\ UNCHANGED fails
  ELSE Goto(i, "sleep") /\ fails' = [fails EXCEPT ![i] = 1]

\* updateRetryCount after a failure: progress starts a new count.
Retry(i, madeProgress) ==
  LET failures == 1 + (IF madeProgress THEN 0 ELSE fails[i]) IN
  IF cancel THEN Goto(i, "stopped") /\ UNCHANGED fails
  ELSE IF failures > MaxRetries THEN Goto(i, "failed") /\ UNCHANGED fails
  ELSE Goto(i, "sleep") /\ fails' = [fails EXCEPT ![i] = failures]

\* client.Do returned a response copyPart accepts.  It may be shorter than
\* the range asked for, or bring the whole rest of the file.
Respond(i) ==
  /\ At(i, "request")
  /\ parts[i].progress < stage.total
  /\ \E last \in parts[i].progress .. stage.total - 1 :
       /\ parts[i].end # UnknownSize /\ last > parts[i].end => last = stage.total - 1
       /\ reply' = [reply EXCEPT ![i] = last]
  /\ Goto(i, "copy")
  /\ UNCHANGED <<parts, made, fails, chunk, received, data, partRest>>

\* client.Do failed, or copyPart refused the response.
Refuse(i) ==
  /\ At(i, "request")
  /\ Retry(i, FALSE)
  /\ UNCHANGED <<parts, made, reply, chunk, received, data, partRest>>

\* One read of at least a byte, cut at the part's end, and WriteAt
Write(i) ==
  /\ At(i, "copy")
  /\ \E n \in 1 .. MaxChunk :
       LET p == parts[i]
           size == IF stage.range /\ p.end > 0 THEN Least(n, p.end - p.progress + 1) ELSE n
       IN /\ p.progress + n - 1 <= reply[i]
          /\ data' = data \cup (p.progress .. p.progress + size - 1)
          /\ chunk' = [chunk EXCEPT ![i] = size]
  /\ Goto(i, "wrote")
  /\ UNCHANGED <<parts, made, fails, reply, received, partRest>>

\* The bytes are counted, and the part may be done.
Advance(i) ==
  /\ At(i, "wrote")
  /\ parts' = [parts EXCEPT ![i].progress = @ + chunk[i]]
  /\ received' = received + chunk[i]
  /\ chunk' = [chunk EXCEPT ![i] = 0]
  /\ Goto(i, IF stage.range /\ parts[i].end > 0 /\ parts'[i].progress > parts[i].end
             THEN "done" ELSE "copy")
  /\ made' = [made EXCEPT ![i] = TRUE]
  /\ reply' = IF pc'[i] = "done" THEN Closed(i) ELSE reply
  /\ UNCHANGED <<fails, data, partRest>>

\* Faulty variant of PartComplete: the end of the response ends the part.
AlwaysComplete(i) == TRUE

\* validatePartComplete
PartComplete(i) ==
  IF stage.range THEN parts[i].end = UnknownSize \/ parts[i].progress > parts[i].end
  ELSE stage.size > 0 => parts[i].progress >= stage.size

\* The response has ended.  The end of the answer to an open range is taken for
\* the end of the file.
Eof(i) ==
  /\ At(i, "copy")
  /\ parts[i].progress > reply[i]
  /\ IF PartComplete(i) THEN Goto(i, "done") /\ UNCHANGED fails
     ELSE Retry(i, made[i])
  /\ unseen' = unseen \cup (IF parts[i].end = UnknownSize /\ reply[i] < stage.total - 1
                             THEN {"short answer"} ELSE {})
  /\ reply' = Closed(i)
  /\ UNCHANGED <<parts, made, chunk, received, data, runRest>>

\* The connection broke, or the file could not be written.
Break(i) ==
  /\ At(i, "copy")
  /\ Retry(i, made[i])
  /\ reply' = Closed(i)
  /\ UNCHANGED <<parts, made, chunk, received, data, partRest>>

\* sleepBeforeRetry
Wake(i) ==
  /\ At(i, "sleep")
  /\ Goto(i, IF cancel THEN "stopped" ELSE "head")
  /\ UNCHANGED <<parts, made, fails, reply, chunk, received, data, partRest>>

PartStep(i) ==
  \/ LoopHead(i) \/ Respond(i) \/ Refuse(i) \/ Write(i) \/ Advance(i)
  \/ Eof(i) \/ Break(i) \/ Wake(i)

-----------------------------------------------------------------------------
(* Around the run *)

\* The process dies, perhaps inside a write of the record, or before the store
\* learns that the task is complete.
Crash ==
  /\ run' \in CASE run = "running" -> {"paused"}
                [] run = "completed" -> {"completed", "paused"}
                [] OTHER -> {run}
  /\ record' \in {record} \cup Torn(Writing \cup late)
  /\ Taken(record')
  /\ late' = {}
  /\ EndOfRun
  /\ UNCHANGED <<stage, data, runs>>

\* Redownload: CleanupFiles deletes the output and the record.
Cleanup ==
  /\ SlowTicker \/ late = {}
  /\ run \in {"paused", "failed", "completed"}
  /\ run' = "idle"
  /\ data' = {}
  /\ record' = <<>>
  /\ received' = 0
  /\ unseen' = {}
  /\ UNCHANGED <<stage, cancel, locals, ticking, late, runs>>

Init ==
  /\ stage \in Stages
  /\ run = "idle"
  /\ cancel = FALSE
  /\ parts = <<>> /\ pc = <<>> /\ made = <<>> /\ fails = <<>> /\ reply = <<>> /\ chunk = <<>>
  /\ received = 0
  /\ data = {}
  /\ record = <<>>
  /\ ticking = FALSE
  /\ late = {}
  /\ runs = 0
  /\ unseen = {}

Index == UNION {1 .. s.blocks : s \in Stages}

Next ==
  \/ Start \/ Cancel \/ Finish
  \/ RecordTick \/ RecordLast \/ RecordLate
  \/ \E i \in Index : PartStep(i)
  \/ Crash \/ Cleanup

Spec == Init /\ [][Next]_vars

\* What the program does by itself goes on, and a request or a copy, which may wait
\* for the server or at the limiter for as long as they like, breaks off once the
\* context is cancelled.
FairSpec ==
  /\ Spec /\ WF_vars(Finish)
  /\ \A i \in Index : /\ WF_vars(LoopHead(i) \/ Advance(i) \/ Wake(i))
                      /\ WF_vars(cancel /\ (Refuse(i) \/ Break(i)))

-----------------------------------------------------------------------------
Offset == 0 .. stage.total - 1

\* A task that is reported complete has every byte of the file, and each was
\* fetched and counted once, however often it was paused, broke off, crashed and
\* was resumed: the record a run resumes from never runs ahead of the file.  Not
\* so once one of the faults that the code does not see is taken in: an answer to
\* an open range that ends early, or a record of which a crash or a late ticker
\* has left the first entries only.
CompleteIsWhole ==
  run = "completed" /\ unseen = {} => data = Offset /\ received = stage.total

\* A part waits for the server, which has no time limit, or for its turn at the
\* rate limiter, where a read longer than the rate waits for ever.
Waits(i) == run = "running" /\ i \in DOMAIN pc /\ pc[i] \in {"request", "copy"}

\* A cancelled run ends.  Any other ends too, since the retries of a part without
\* progress are bounded, unless one of its parts waits for ever.
RunEnds ==
  /\ run = "running" /\ cancel ~> run # "running"
  /\ (run = "running" ~> run # "running") \/ (\E i \in Index : <>[]Waits(i))
=============================================================================
