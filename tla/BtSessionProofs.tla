---------------------------- MODULE BtSessionProofs ----------------------------
(***************************************************************************)
(* One runtime at a time works on the files of a BitTorrent task, and what *)
(* it uploads is counted once: OneWriter and UploadsCounted of module      *)
(* BtSession.  Where sessions find no file's selection changed twice, the  *)
(* pieces recorded as complete survive every crash (KnownIsGood) and a     *)
(* task shown as seeding has its files whole (WholeWhenSeeding).  All of   *)
(* it for any number of runtimes, crashes and edits, and whatever the      *)
(* files and pieces of the torrent are.                                    *)
(***************************************************************************)
EXTENDS BtSession, FiniteSetTheorems, TLAPS

\* The database is open from OpenCheckpoint to CloseCheckpoint, and only its
\* holder works on files.
HolderWorks ==
  /\ pc \in [Proc -> {"none", "starting", "opened", "live", "closing", "draining"}]
  /\ marking \in [Proc -> SUBSET Piece]
  /\ \A i \in Proc : pc[i] \in {"opened", "live", "closing", "draining"} => holder = i
  /\ \A i \in Proc : marking[i] # {} => pc[i] \in {"live", "closing", "draining"}

\* While a runtime works for the application its uploads are those of the
\* sessions before it and its own.
Uploads ==
  /\ {uploaded, sent, base, session} \subseteq Nat
  /\ mine \in Proc \cup {None}
  /\ saved.uploaded \in Nat /\ before \in Nat
  /\ uploaded <= sent /\ saved.uploaded <= sent + before
  /\ mine # None => uploaded <= base + session /\ base + session <= sent

-----------------------------------------------------------------------------
\* The program counters of other runtimes stay, and a runtime that has gone
\* leaves the database to others.
LEMMA GoneKeeps ==
  ASSUME HolderWorks, NEW i \in Proc, Gone(i)
  PROVE  HolderWorks'
<1>1. /\ pc' \in [Proc -> {"none", "starting", "opened", "live", "closing", "draining"}]
      /\ marking' \in [Proc -> SUBSET Piece]
  BY DEF HolderWorks, Gone
<1>2. pc'[i] = "none" /\ marking'[i] = {}
  BY DEF HolderWorks, Gone
<1>3. \A j \in Proc : j # i => pc'[j] = pc[j] /\ marking'[j] = marking[j]
  BY DEF HolderWorks, Gone
<1>4. \A j \in Proc : j # i /\ holder = j => holder' = j
  BY DEF Gone
<1> QED
  BY <1>1, <1>2, <1>3, <1>4 DEF HolderWorks

\* No step of a runtime takes the database from the one that holds it.
LEMMA RuntimeKeepsHolder ==
  ASSUME HolderWorks, NEW i \in Proc, Runtime(i)
  PROVE  HolderWorks'
<1>1. CASE Start(i)
  BY <1>1 DEF Start, HolderWorks
<1>2. CASE OpenCheckpoint(i)
  <2>1. holder = None /\ holder' = i /\ pc' = [pc EXCEPT ![i] = "opened"] /\ UNCHANGED marking
    BY <1>2 DEF OpenCheckpoint, engine
  <2>2. \A j \in Proc : pc[j] \in {"none", "starting"}
    BY <2>1, SessionAssumption DEF HolderWorks
  <2> QED
    BY <2>1, <2>2 DEF HolderWorks
<1>3. CASE OpenFails(i) \/ CloseCheckpoint(i) \/ RuntimeCrash(i)
  BY <1>3, GoneKeeps DEF OpenFails, CloseCheckpoint, RuntimeCrash
<1>4. CASE AddTorrent(i)
  BY <1>4 DEF AddTorrent, HolderWorks
<1>5. CASE FinishRequest(i)
  BY <1>5 DEF FinishRequest, HolderWorks
<1>6. CASE CommitPiece(i)
  <2>1. marking[i] # {} /\ marking' = [marking EXCEPT ![i] = {}] /\ UNCHANGED <<pc, holder>>
    BY <1>6 DEF CommitPiece
  <2> QED
    BY <2>1 DEF HolderWorks
<1>7. CASE Upload(i)
  BY <1>7 DEF Upload, engine, HolderWorks
<1>8. CASE \E b \in 0 .. Total - 1, ok \in BOOLEAN : Receive(i, b, ok)
  BY <1>8 DEF Receive, HolderWorks
<1>9. CASE \E p \in Piece : HashPiece(i, p)
  <2>1. PICK p \in Piece : HashPiece(i, p)
    BY <1>9
  <2>2. /\ pc[i] \in {"live", "closing"} /\ UNCHANGED <<pc, holder>>
        /\ marking' = [marking EXCEPT ![i] = {p}] \/ marking' = marking
    BY <2>1 DEF HashPiece
  <2> QED
    BY <2>2 DEF HolderWorks
<1>10. CASE Sample(i) \/ SampleFails(i) \/ CtxDone(i)
  <2>1. /\ pc[i] = "live" /\ UNCHANGED <<marking, holder>>
        /\ pc' = [pc EXCEPT ![i] = "closing"] \/ pc' = pc
    BY <1>10 DEF Sample, SampleFails, CtxDone, Close
  <2> QED
    BY <2>1 DEF HolderWorks
<1>11. CASE CloseClient(i)
  BY <1>11 DEF CloseClient, engine, HolderWorks
<1> QED
  BY <1>1, <1>2, <1>3, <1>4, <1>5, <1>6, <1>7, <1>8, <1>9, <1>10, <1>11 DEF Runtime

LEMMA HolderInitial == Init => HolderWorks
BY DEF Init, HolderWorks

LEMMA HolderInductive == HolderWorks /\ [Next]_vars => HolderWorks'
<1> SUFFICES ASSUME HolderWorks, [Next]_vars PROVE HolderWorks'
  OBVIOUS
<1>1. CASE \E i \in Proc : Runtime(i)
  BY <1>1, RuntimeKeepsHolder
<1>2. CASE Cancel \/ Save \/ AppCrash
  BY <1>2 DEF Cancel, Save, AppCrash, engine, HolderWorks
<1>3. CASE PowerLoss
  BY <1>3 DEF PowerLoss, HolderWorks
<1>4. CASE \E s \in SUBSET File : SetFilePriorities(s) \/ Redownload(s)
  BY <1>4 DEF SetFilePriorities, Redownload, engine, HolderWorks
<1>5. CASE UNCHANGED vars
  BY <1>5 DEF vars, engine, HolderWorks
<1> QED
  BY <1>1, <1>2, <1>3, <1>4, <1>5 DEF Next

\* Two runtimes never work on the files of the task, neither the orphan of a
\* crashed application nor its successor's.
THEOREM OneWriterHolds == Spec => []OneWriter
<1>1. HolderWorks => OneWriter
  <2> SUFFICES ASSUME HolderWorks PROVE OneWriter
    OBVIOUS
  <2> DEFINE Writers == {i \in Proc : pc[i] \in {"live", "closing"} \/ marking[i] # {}}
  <2>1. Writers \subseteq {holder}
    BY DEF HolderWorks
  <2>2. IsFiniteSet({holder}) /\ Cardinality({holder}) = 1
    BY FS_Singleton
  <2>3. Cardinality(Writers) <= 1
    BY <2>1, <2>2, FS_Subset
  <2> QED
    BY <2>3 DEF OneWriter
<1> QED
  BY <1>1, HolderInitial, HolderInductive, PTL DEF Spec

-----------------------------------------------------------------------------
\* What leaves the counts of uploads alone
LEMMA CountsStay ==
  ASSUME Uploads, UNCHANGED <<uploaded, sent, stored, base, session>>, mine' \in {mine, None}
  PROVE  Uploads' /\ uploaded' = uploaded
BY DEF Uploads, stored

\* What UploadsCounted says of a step, with the invariant it rests on
CountedStep ==
  /\ uploaded' <= sent'
  /\ uploaded' < uploaded => sent' = 0 \/ (mine' = None /\ uploaded' = saved.uploaded)
UploadStep == Uploads' /\ CountedStep

LEMMA CountsStayStep ==
  ASSUME Uploads, UNCHANGED <<uploaded, sent, stored, base, session>>, mine' \in {mine, None}
  PROVE  UploadStep
BY CountsStay DEF Uploads, UploadStep, CountedStep

LEMMA ReportCounts ==
  ASSUME Uploads, mine # None, uploaded' = base + session, UNCHANGED <<sent, stored, base, session, mine>>
  PROVE  UploadStep
BY DEF Uploads, UploadStep, CountedStep, stored

LEMMA RuntimeCounts ==
  ASSUME Uploads, NEW i \in Proc, Runtime(i)
  PROVE  UploadStep
<1>1. CASE Start(i)
  BY <1>1 DEF Start, Uploads, UploadStep, CountedStep, stored
<1>2. CASE OpenCheckpoint(i) \/ CloseClient(i) \/ AddTorrent(i) \/ FinishRequest(i)
  BY <1>2, CountsStayStep DEF OpenCheckpoint, CloseClient, AddTorrent, FinishRequest, task, counts
<1>3. CASE OpenFails(i) \/ CloseCheckpoint(i) \/ RuntimeCrash(i)
  BY <1>3, CountsStayStep DEF OpenFails, CloseCheckpoint, RuntimeCrash, Gone, task, counts
<1>4. CASE CommitPiece(i)
  BY <1>4, CountsStayStep DEF CommitPiece, task, counts
<1>5. CASE Upload(i)
  BY <1>5 DEF Upload, Uploads, UploadStep, CountedStep, stored
<1>6. CASE \E b \in 0 .. Total - 1, ok \in BOOLEAN : Receive(i, b, ok)
  BY <1>6, CountsStayStep DEF Receive, task
<1>7. CASE \E p \in Piece : HashPiece(i, p)
  BY <1>7, CountsStayStep DEF HashPiece, task, counts
<1>8. CASE Sample(i)
  BY <1>8, ReportCounts, SessionAssumption DEF Sample, Report, counts
<1>9. CASE SampleFails(i)
  BY <1>9, CountsStayStep DEF SampleFails, task
<1>10. CASE CtxDone(i) /\ mine = i
  BY <1>10, ReportCounts, SessionAssumption DEF CtxDone, Report, counts
<1>11. CASE CtxDone(i) /\ mine # i
  BY <1>11, CountsStayStep DEF CtxDone, counts
<1> QED
  BY <1>1, <1>2, <1>3, <1>4, <1>5, <1>6, <1>7, <1>8, <1>9, <1>10, <1>11 DEF Runtime

LEMMA UploadsInductive == Uploads /\ [Next]_vars => UploadStep
<1> SUFFICES ASSUME Uploads, [Next]_vars PROVE UploadStep
  OBVIOUS
<1>1. CASE \E i \in Proc : Runtime(i)
  BY <1>1, RuntimeCounts
<1>2. CASE Cancel
  BY <1>2, CountsStayStep DEF Cancel, task, counts
<1>3. CASE Save
  BY <1>3 DEF Save, Uploads, UploadStep, CountedStep, counts
<1>7. CASE AppCrash \/ PowerLoss
  <2>1. /\ mine' = None /\ UNCHANGED <<base, session, saved>>
        /\ uploaded' = saved.uploaded /\ sent' = sent + before /\ before' = 0
    BY <1>7 DEF AppCrash, PowerLoss, LoadSaved
  <2> QED
    BY <2>1 DEF Uploads, UploadStep, CountedStep
<1>4. CASE \E s \in SUBSET File : SetFilePriorities(s)
  BY <1>4, CountsStayStep DEF SetFilePriorities
<1>5. CASE \E s \in SUBSET File : Redownload(s)
  <2>1. /\ mine = None /\ UNCHANGED <<mine, base, session, saved>>
        /\ \/ uploaded' = 0 /\ sent' = 0 /\ before' = before + sent
           \/ UNCHANGED <<uploaded, sent, before>>
    BY <1>5 DEF Redownload, NoRuntime
  <2> QED
    BY <2>1 DEF Uploads, UploadStep, CountedStep
<1>6. CASE UNCHANGED vars
  BY <1>6, CountsStayStep DEF vars, task, counts
<1> QED
  BY <1>1, <1>2, <1>3, <1>4, <1>5, <1>6, <1>7 DEF Next

LEMMA UploadsInitial == Init => Uploads
<1> SUFFICES ASSUME Init PROVE Uploads
  OBVIOUS
<1>1. uploaded = 0 /\ sent = 0 /\ base = 0 /\ session = 0 /\ mine = None
      /\ saved.uploaded = 0 /\ before = 0
  BY DEF Init
<1> QED
  BY <1>1 DEF Uploads

\* Whatever peers got since the task was last reset is counted at most once,
\* and what was counted is forgotten only by a reset or, when it was not saved, by a
\* crash of the application.
THEOREM UploadsAreCounted == Spec => UploadsCounted
<1>1. Uploads /\ [Next]_vars => Uploads'
  BY UploadsInductive DEF UploadStep
<1>2. Uploads /\ [Next]_vars
        => [CountedStep]_vars
  BY UploadsInductive DEF UploadStep
<1> QED
  BY <1>1, <1>2, UploadsInitial, PTL DEF Spec, UploadsCounted, CountedStep

-----------------------------------------------------------------------------
(* The layout of the torrent: every byte lies in one file and in one piece *)

\* A nonempty set of numbers has a least one.
LEMMA LeastNumber ==
  ASSUME NEW S \in SUBSET Nat, S # {}
  PROVE  \E x \in S : \A y \in S : x <= y
<1> DEFINE R == {ss \in Nat \X Nat : ss[1] < ss[2]}
<1>1. IsWellFoundedOn(R, Nat)
  BY NatLessThanWellFounded DEF OpToRel
<1>2. S \subseteq Nat /\ S # {}
  OBVIOUS
<1> HIDE DEF R
<1>3. PICK x \in S : \A y \in S : ~(<<y, x>> \in R)
  BY <1>1, <1>2, WFMin
<1>4. \A y \in S : x <= y
  <2> SUFFICES ASSUME NEW y \in S PROVE x <= y
    OBVIOUS
  <2>1. x \in Nat /\ y \in Nat
    BY <1>2
  <2>2. ~(y < x)
    BY <1>3, <2>1 DEF R
  <2> QED
    BY <2>1, <2>2
<1> QED
  BY <1>4

\* The files of a torrent are numbered from 1, each with its length.
LEMMA FileLengths ==
  /\ File = 1 .. Len(FileLen) /\ Len(FileLen) \in Nat /\ Len(FileLen) > 0
  /\ \A f \in File : FileLen[f] \in Nat /\ f \in Nat /\ f >= 1 /\ f <= Len(FileLen)
<1>1. FileLen \in Seq(Nat) /\ Len(FileLen) > 0
  BY LayoutAssumption
<1>2. /\ Len(FileLen) \in Nat /\ DOMAIN FileLen = 1 .. Len(FileLen)
      /\ \A f \in 1 .. Len(FileLen) : FileLen[f] \in Nat
  BY <1>1
<1> QED
  BY <1>1, <1>2 DEF File

\* The offsets of the files are defined: each file starts where the one before ends.
LEMMA Offsets ==
  /\ Offset \in [File -> Nat]
  /\ \A f \in File : Offset[f] = IF f = 1 THEN 0 ELSE Offset[f - 1] + FileLen[f - 1]
<1> DEFINE Sums(n, g) == /\ g \in [1 .. n -> Nat]
                         /\ \A k \in 1 .. n : g[k] = IF k = 1 THEN 0 ELSE g[k - 1] + FileLen[k - 1]
           S == {n \in Nat : n <= Len(FileLen) /\ ~\E g : Sums(n, g)}
<1>1. S = {}
  <2> SUFFICES ASSUME S # {}
               PROVE  FALSE
    OBVIOUS
  <2>1. PICK n \in S : \A m \in S : n <= m
    BY LeastNumber
  <2>2. n \in Nat /\ n <= Len(FileLen) /\ ~\E g : Sums(n, g)
    BY <2>1
  <2>3. CASE n = 0
    <3>0. 1 .. 0 = {}
      OBVIOUS
    <3>1. Sums(0, [k \in 1 .. 0 |-> 0])
      BY <3>0
    <3> QED
      BY <2>2, <2>3, <3>1
  <2>4. CASE n # 0
    <3>1. n - 1 \in Nat /\ n - 1 <= Len(FileLen) /\ ~(n <= n - 1)
      BY <2>2, <2>4, FileLengths
    <3>0. n - 1 \notin S
      <4> HIDE DEF S
      <4> QED
        BY <2>1, <3>1
    <3>2. PICK g : Sums(n - 1, g)
      BY <3>0, <3>1
    <3> DEFINE h == [k \in 1 .. n |-> IF k = n THEN (IF n = 1 THEN 0 ELSE g[n - 1] + FileLen[n - 1])
                                      ELSE g[k]]
    <3>3. \A k \in 1 .. n : k \in Nat /\ (k # n => k \in 1 .. n - 1)
      BY <2>2
    <3>4. n # 1 => n - 1 \in 1 .. n - 1 /\ FileLen[n - 1] \in Nat
      BY <2>2, <2>4, FileLengths
    <3>5. h \in [1 .. n -> Nat]
      BY <2>2, <3>2, <3>3, <3>4
    <3>6. ASSUME NEW k \in 1 .. n
          PROVE  h[k] = IF k = 1 THEN 0 ELSE h[k - 1] + FileLen[k - 1]
      <4>1. k # 1 => k - 1 \in 1 .. n /\ k - 1 # n
        BY <2>2, <3>3
      <4>2. CASE k = n
        BY <4>1, <4>2
      <4>3. CASE k # n
        <5>1. k \in 1 .. n - 1
          BY <3>3, <4>3
        <5>2. g[k] = IF k = 1 THEN 0 ELSE g[k - 1] + FileLen[k - 1]
          BY <3>2, <5>1
        <5> QED
          BY <4>1, <4>3, <5>2
      <4> QED
        BY <4>2, <4>3
    <3> HIDE DEF h
    <3>7. Sums(n, h)
      BY <3>5, <3>6
    <3> QED
      BY <2>2, <3>7
  <2> QED
    BY <2>3, <2>4
<1>2. PICK g : Sums(Len(FileLen), g)
  BY SMTT(30), <1>1, FileLengths
<1>3. g = [f \in File |-> IF f = 1 THEN 0 ELSE g[f - 1] + FileLen[f - 1]]
  BY <1>2, FileLengths
<1>4. Offset = [f \in File |-> IF f = 1 THEN 0 ELSE Offset[f - 1] + FileLen[f - 1]]
  BY <1>3 DEF Offset
<1> DEFINE T == {f \in File : Offset[f] \notin Nat}
<1>5. T = {}
  <2> SUFFICES ASSUME T # {}
               PROVE  FALSE
    OBVIOUS
  <2>1. T \in SUBSET Nat
    BY FileLengths
  <2>2. PICK f \in T : \A e \in T : f <= e
    BY <2>1, LeastNumber
  <2>3. f \in File /\ f \in Nat /\ f >= 1 /\ f <= Len(FileLen) /\ Offset[f] \notin Nat
    BY <2>2, FileLengths
  <2>4. Offset[f] = IF f = 1 THEN 0 ELSE Offset[f - 1] + FileLen[f - 1]
    BY <1>4, <2>3
  <2>5. f # 1 => f - 1 \in File /\ f - 1 \notin T
    BY <2>2, <2>3, FileLengths
  <2>6. f # 1 => Offset[f - 1] \in Nat /\ FileLen[f - 1] \in Nat
    BY <2>5, FileLengths
  <2> QED
    BY <2>3, <2>4, <2>6
<1>6. \A f \in File : Offset[f] \in Nat
  BY <1>5
<1>7. \A f \in File : Offset[f] = IF f = 1 THEN 0 ELSE Offset[f - 1] + FileLen[f - 1]
  BY <1>4
<1>8. Offset \in [File -> Nat]
  BY <1>4, <1>6
<1> QED
  BY <1>7, <1>8

\* A file ends before the next ones start.
LEMMA FilesInOrder ==
  ASSUME NEW f \in File, NEW g \in File, f < g
  PROVE  Offset[f] + FileLen[f] <= Offset[g]
<1> DEFINE T == {h \in File : f < h /\ ~(Offset[f] + FileLen[f] <= Offset[h])}
<1> SUFFICES ASSUME T # {}
             PROVE  FALSE
  OBVIOUS
<1>1. T \in SUBSET Nat
  BY FileLengths
<1>2. PICK h \in T : \A e \in T : h <= e
  BY <1>1, LeastNumber
<1>3. /\ h \in File /\ h \in Nat /\ h <= Len(FileLen) /\ f < h /\ f \in Nat /\ f >= 1
      /\ ~(Offset[f] + FileLen[f] <= Offset[h])
  BY <1>2, FileLengths
<1>4. h - 1 \in File /\ h - 1 \notin T /\ h # 1
  BY <1>2, <1>3, FileLengths
<1>5. Offset[h] = Offset[h - 1] + FileLen[h - 1]
  BY <1>3, <1>4, Offsets
<1>6. /\ Offset[f] \in Nat /\ Offset[h - 1] \in Nat /\ Offset[h] \in Nat
      /\ FileLen[f] \in Nat /\ FileLen[h - 1] \in Nat
  BY <1>3, <1>4, Offsets, FileLengths
<1>7. f = h - 1 \/ Offset[f] + FileLen[f] <= Offset[h - 1]
  BY <1>3, <1>4
<1> QED
  BY <1>3, <1>5, <1>6, <1>7

\* The torrent has a length.
LEMMA TotalNat == Total \in Nat
<1>1. Len(FileLen) \in File
  BY FileLengths
<1> QED
  BY <1>1, Offsets, FileLengths DEF Total

\* entryAt finds the file of every byte of the torrent.
LEMMA EntryFile ==
  ASSUME NEW b \in 0 .. Total - 1
  PROVE  EntryAt[b] \in File /\ b \in FileBytes[EntryAt[b]]
<1> DEFINE T == {f \in File : b < Offset[f] + FileLen[f]}
<1>t. b \in Nat /\ b < Total
  BY TotalNat
<1>1. Len(FileLen) \in T
  BY <1>t, FileLengths DEF Total
<1>2. T \in SUBSET Nat
  BY FileLengths
<1>3. PICK f \in T : \A e \in T : f <= e
  BY <1>1, <1>2, LeastNumber
<1>4. f \in File /\ f \in Nat /\ f >= 1 /\ f <= Len(FileLen) /\ b < Offset[f] + FileLen[f]
  BY <1>3, FileLengths
<1>5. Offset[f] <= b
  <2>1. CASE f = 1
    BY <1>4, <1>t, <2>1, Offsets
  <2>2. CASE f # 1
    <3>1. f - 1 \in File /\ f - 1 \notin T
      BY <1>3, <1>4, <2>2, FileLengths
    <3>2. Offset[f] = Offset[f - 1] + FileLen[f - 1]
      BY <1>4, <2>2, Offsets
    <3>3. {Offset[f - 1], FileLen[f - 1]} \subseteq Nat /\ ~(b < Offset[f - 1] + FileLen[f - 1])
      BY SMTT(30), <3>1, Offsets, FileLengths
    <3> QED
      BY <1>t, <3>2, <3>3
  <2> QED
    BY <2>1, <2>2
<1>6. Offset[f] \in Nat /\ FileLen[f] \in Nat
  BY <1>4, Offsets, FileLengths
<1>7. b \in FileBytes[f]
  BY <1>4, <1>5, <1>6, <1>t DEF FileBytes
<1>8. EntryAt[b] = CHOOSE g \in File : b \in FileBytes[g]
  BY DEF EntryAt
<1> QED
  BY <1>4, <1>7, <1>8

\* and no other file has the byte.
LEMMA EntryUnique ==
  ASSUME NEW f \in File, NEW b \in FileBytes[f]
  PROVE  b \in 0 .. Total - 1 /\ EntryAt[b] = f
<1>2. Offset[f] \in Nat /\ FileLen[f] \in Nat /\ b \in Int /\ Offset[f] <= b /\ b < Offset[f] + FileLen[f]
  BY Offsets, FileLengths DEF FileBytes
<1> DEFINE n == Len(FileLen)
<1>3. n \in File /\ f \in Nat /\ n \in Nat /\ f <= n
  BY FileLengths
<1>4. {Offset[n], FileLen[n]} \subseteq Nat
  BY <1>3, Offsets, FileLengths
<1>5. Offset[f] + FileLen[f] <= Offset[n] + FileLen[n]
  <2>1. CASE f = n
    BY <1>2, <2>1
  <2>2. CASE f < n
    BY <1>2, <1>3, <1>4, <2>2, FilesInOrder
  <2> QED
    BY <1>3, <2>1, <2>2
<1>6. b \in 0 .. Total - 1
  BY <1>2, <1>4, <1>5 DEF Total
<1>7. EntryAt[b] \in File /\ b \in FileBytes[EntryAt[b]]
  BY <1>6, EntryFile
<1> DEFINE e == EntryAt[b]
<1>8. {Offset[e], FileLen[e]} \subseteq Nat /\ Offset[e] <= b /\ b < Offset[e] + FileLen[e] /\ e \in Nat
  BY <1>2, <1>7, Offsets, FileLengths DEF FileBytes
<1>9. ~(e < f) /\ ~(f < e)
  <2> HIDE DEF e
  <2>1. e < f => Offset[e] + FileLen[e] <= Offset[f]
    BY <1>7, FilesInOrder DEF e
  <2>2. f < e => Offset[f] + FileLen[f] <= Offset[e]
    BY <1>7, FilesInOrder DEF e
  <2> QED
    BY <1>2, <1>8, <2>1, <2>2
<1> QED
  BY <1>3, <1>6, <1>8, <1>9

\* Every byte lies in a piece.
LEMMA PieceOf ==
  ASSUME NEW b \in 0 .. Total - 1
  PROVE  b \div PieceLen \in Piece /\ b \in PieceBytes[b \div PieceLen]
<1> DEFINE q == b \div PieceLen
           r == (Total - 1) \div PieceLen
<1>1. b \in Nat /\ Total - 1 \in Nat /\ b <= Total - 1 /\ PieceLen \in Nat /\ PieceLen > 0
  BY TotalNat, LayoutAssumption
<1>2. /\ q \in Int /\ q * PieceLen <= b /\ b < (q + 1) * PieceLen
      /\ r \in Int /\ r * PieceLen <= Total - 1 /\ Total - 1 < (r + 1) * PieceLen
  BY <1>1
<1> HIDE DEF q, r
<1>3. 0 <= q /\ q <= r
  BY <1>1, <1>2
<1> QED
  BY <1>2, <1>3 DEF q, r, Piece, PieceBytes

-----------------------------------------------------------------------------
(* What the operations on the files keep *)

\* The shape of the files, the database and what the runtimes know of them.
States == {"unknown", "no", "yes"}
StoreTypes ==
  /\ size \in [File -> [Places -> Int]]
  /\ good \in [File -> [Places -> SUBSET Int]]
  /\ unsynced \subseteq File \X Places \X Int
  /\ db \in [Piece -> States]
  /\ known \in [Proc -> [Piece -> States]]
  /\ ses \in [Proc -> SUBSET File]
  /\ sel \in SUBSET File
  /\ moved \in SUBSET File
  /\ saved.sel \in SUBSET File

\* Byte b is right and flushed, where a session with selection s keeps it.
Safe(s, b) ==
  LET f == EntryAt[b] IN
  b \in good[f][StoragePath(s, f)] /\ <<f, StoragePath(s, f), b>> \notin unsynced
Kept(s, p) == \A b \in PieceBytes[p] : Safe(s, b)

\* where the session does not keep file f
OtherPath(s, f) == IF f \in s THEN "unselected" ELSE "title"

\* A file is stored at one of two places and its other place is the other one.
LEMMA PathTypes ==
  ASSUME NEW s, NEW f
  PROVE  StoragePath(s, f) \in Places /\ OtherPath(s, f) \in Places /\ StoragePath(s, f) # OtherPath(s, f)
BY DEF StoragePath, OtherPath, Places

\* A byte of a piece is a byte of the torrent and of the file entryAt finds.
LEMMA PieceByte ==
  ASSUME NEW p \in Piece, NEW b \in PieceBytes[p]
  PROVE  b \in 0 .. Total - 1 /\ b \in Int /\ EntryAt[b] \in File /\ b \in FileBytes[EntryAt[b]]
         /\ b \div PieceLen = p
<1>1. b \in 0 .. Total - 1 /\ b \div PieceLen = p
  BY DEF PieceBytes
<1> QED
  BY <1>1, EntryFile, TotalNat

\* Writing a byte leaves the others as they are
LEMMA WriteKeeps ==
  ASSUME StoreTypes, NEW s, NEW b \in 0 .. Total - 1, NEW ok \in BOOLEAN, WriteAt(s, b, ok),
         NEW c \in 0 .. Total - 1, c # b, Safe(s, c)
  PROVE  Safe(s, c)'
<1> DEFINE f == EntryAt[b]
           g == EntryAt[c]
<1>1. f \in File /\ g \in File /\ StoragePath(s, f) \in Places /\ StoragePath(s, g) \in Places
  BY EntryFile, PathTypes
<1>2. c \in good[g][StoragePath(s, g)] /\ <<g, StoragePath(s, g), c>> \notin unsynced
  BY DEF Safe
<1>3. /\ good' = [good EXCEPT ![f][StoragePath(s, f)] = IF ok THEN @ \cup {b} ELSE @ \ {b}]
      /\ unsynced' = unsynced \cup {<<f, StoragePath(s, f), b>>}
  BY DEF WriteAt
<1> HIDE DEF f, g
<1>4. c \in good'[g][StoragePath(s, g)]
  BY <1>1, <1>2, <1>3 DEF StoreTypes
<1>5. <<g, StoragePath(s, g), c>> \notin unsynced'
  BY <1>2, <1>3
<1> QED
  BY <1>4, <1>5 DEF Safe, g

\* and touches only the path of the session.
LEMMA WriteOther ==
  ASSUME StoreTypes, NEW s, NEW b \in 0 .. Total - 1, NEW ok \in BOOLEAN, WriteAt(s, b, ok),
         NEW f \in File
  PROVE  size'[f][OtherPath(s, f)] = size[f][OtherPath(s, f)]
<1> DEFINE e == EntryAt[b]
           end == b - Offset[e] + 1
<1>1. e \in File /\ StoragePath(s, e) \in Places /\ OtherPath(s, f) \in Places
      /\ StoragePath(s, f) # OtherPath(s, f)
  BY EntryFile, PathTypes
<1>2. size' = [size EXCEPT ![e][StoragePath(s, e)] = IF @ < end THEN end ELSE @]
  BY DEF WriteAt
<1> HIDE DEF e, end
<1> QED
  BY <1>1, <1>2 DEF StoreTypes

\* Flushing the files of a piece that reads well keeps it, and loses nothing.
LEMMA SyncKeeps ==
  ASSUME NEW s, NEW p \in Piece, ReadsGood(s, p), SyncExtent(s, p), good' = good
  PROVE  Kept(s, p)' /\ \A c : Safe(s, c) => Safe(s, c)'
<1>1. unsynced' \subseteq unsynced
  BY DEF SyncExtent
<1>2. \A c : Safe(s, c) => Safe(s, c)'
  BY <1>1 DEF Safe
<1>3. ASSUME NEW b \in PieceBytes[p]
      PROVE  Safe(s, b)'
  <2> DEFINE f == EntryAt[b]
             u == <<f, StoragePath(s, f), b>>
  <2>1. b \in good[f][StoragePath(s, f)]
    BY DEF ReadsGood
  <2>2. u[1] = EntryAt[b] /\ u[2] = StoragePath(s, u[1])
    OBVIOUS
  <2> HIDE DEF u
  <2>3. u \notin unsynced'
    BY <2>2 DEF SyncExtent
  <2> QED
    BY <2>1, <2>3 DEF Safe, u
<1> QED
  BY <1>2, <1>3 DEF Kept

\* A power loss takes nothing that was flushed.
LEMMA PowerKeeps ==
  ASSUME LosePower, NEW s, NEW c \in 0 .. Total - 1, Safe(s, c)
  PROVE  Safe(s, c)'
<1> DEFINE f == EntryAt[c]
<1>1. f \in File /\ StoragePath(s, f) \in Places
  BY EntryFile, PathTypes
<1>2. PICK lost \in SUBSET unsynced :
        good' = [e \in File |-> [at \in Places |->
                  good[e][at] \ {b \in FileBytes[e] : <<e, at, b>> \in lost}]]
  BY DEF LosePower
<1>3. c \in good[f][StoragePath(s, f)] /\ <<f, StoragePath(s, f), c>> \notin unsynced
  BY DEF Safe
<1> HIDE DEF f
<1>4. c \in good'[f][StoragePath(s, f)]
  BY <1>1, <1>2, <1>3
<1>5. unsynced' = {}
  BY DEF LosePower
<1> QED
  BY <1>4, <1>5 DEF Safe, f

\* Cleaning up takes only the files it removes.
LEMMA RemoveKeeps ==
  ASSUME NEW gone \in SUBSET File, RemoveFiles(gone), NEW s, NEW c \in 0 .. Total - 1,
         EntryAt[c] \notin gone, Safe(s, c)
  PROVE  Safe(s, c)'
<1> DEFINE f == EntryAt[c]
<1>1. f \in File
  BY EntryFile
<1>2. good'[f] = good[f] /\ unsynced' \subseteq unsynced
  BY <1>1 DEF RemoveFiles
<1> QED
  BY <1>2 DEF Safe

\* A step leaves the files, the database and the selection well typed.
LEMMA StoreTypesStep ==
  ASSUME HolderWorks, StoreTypes, [Next]_vars
  PROVE  StoreTypes'
<1>g. ASSUME NEW i \in Proc, Gone(i), UNCHANGED <<disk, db, task>>
      PROVE  StoreTypes'
  BY <1>g DEF Gone, StoreTypes, States, disk, task, stored
<1>1. ASSUME NEW i \in Proc, \/ Start(i) \/ OpenCheckpoint(i) \/ FinishRequest(i) \/ Upload(i)
                             \/ Sample(i) \/ SampleFails(i) \/ CtxDone(i) \/ CloseClient(i)
      PROVE  StoreTypes'
  <2>1. /\ UNCHANGED <<size, good, unsynced, db, sel, moved, saved, known>>
        /\ ses' = ses \/ ses' = [ses EXCEPT ![i] = sel]
    BY <1>1 DEF Start, OpenCheckpoint, FinishRequest, Upload, Sample, SampleFails, CtxDone,
                CloseClient, disk, task, stored, engine
  <2> QED
    BY <2>1 DEF StoreTypes
<1>2. ASSUME NEW i \in Proc, OpenFails(i) \/ CloseCheckpoint(i) \/ RuntimeCrash(i)
      PROVE  StoreTypes'
  BY <1>2, <1>g DEF OpenFails, CloseCheckpoint, RuntimeCrash
<1>3. ASSUME NEW i \in Proc, AddTorrent(i)
      PROVE  StoreTypes'
  <2>1. /\ OpenTorrent(ses[i]) /\ Completion(ses[i]) /\ known' = [known EXCEPT ![i] = db']
        /\ UNCHANGED <<good, unsynced, ses, sel, moved, saved>>
    BY <1>3 DEF AddTorrent, task, stored
  <2>2. size' \in [File -> [Places -> Int]]
    <3> DEFINE New(f, old) == IF old > FileLen[f] THEN FileLen[f]
                              ELSE IF old = Absent /\ FileLen[f] = 0 THEN 0 ELSE old
    <3>1. \A f \in File, old \in Int : New(f, old) \in Int
      BY FileLengths
    <3>2. size' = [f \in File |-> [size[f] EXCEPT ![StoragePath(ses[i], f)] = New(f, @)]]
      BY <2>1 DEF OpenTorrent
    <3> HIDE DEF New
    <3>3. \A f \in File : size[f] \in [Places -> Int] /\ StoragePath(ses[i], f) \in Places
      BY PathTypes DEF StoreTypes
    <3> QED
      BY <3>1, <3>2, <3>3
  <2>3. db' \in [Piece -> States]
    BY <2>1 DEF Completion, StoreTypes, States
  <2>4. known' \in [Proc -> [Piece -> States]]
    BY <2>1, <2>3 DEF StoreTypes
  <2> QED
    BY <2>1, <2>2, <2>3, <2>4 DEF StoreTypes
<1>4. ASSUME NEW i \in Proc, NEW b \in 0 .. Total - 1, NEW ok \in BOOLEAN, Receive(i, b, ok)
      PROVE  StoreTypes'
  <2> DEFINE f == EntryAt[b]
             at == StoragePath(ses[i], f)
             end == b - Offset[f] + 1
  <2>1. /\ UNCHANGED <<db, known, ses, sel, moved, saved>>
        /\ size' = [size EXCEPT ![f][at] = IF @ < end THEN end ELSE @]
        /\ good' = [good EXCEPT ![f][at] = IF ok THEN @ \cup {b} ELSE @ \ {b}]
        /\ unsynced' = unsynced \cup {<<f, at, b>>}
    BY <1>4 DEF Receive, WriteAt, task, stored
  <2>2. f \in File /\ at \in Places /\ end \in Int /\ b \in Int
    <3>1. f \in File /\ b \in Int
      BY EntryFile, TotalNat
    <3>2. Offset[f] \in Nat
      BY <3>1, Offsets
    <3> QED
      BY <3>1, <3>2, PathTypes
  <2> HIDE DEF f, at, end
  <2>3. size' \in [File -> [Places -> Int]]
    BY <2>1, <2>2 DEF StoreTypes
  <2>4. good' \in [File -> [Places -> SUBSET Int]]
    BY <2>1, <2>2 DEF StoreTypes
  <2>5. unsynced' \subseteq File \X Places \X Int
    BY <2>1, <2>2 DEF StoreTypes
  <2> QED
    BY <2>1, <2>3, <2>4, <2>5 DEF StoreTypes
<1>5. ASSUME NEW i \in Proc, NEW p \in Piece, HashPiece(i, p)
      PROVE  StoreTypes'
  <2>1. /\ UNCHANGED <<size, good, ses, sel, moved, saved>> /\ unsynced' \subseteq unsynced
        /\ \/ UNCHANGED <<db, known>>
           \/ db' = [db EXCEPT ![p] = "no"] /\ known' = [known EXCEPT ![i][p] = "no"]
    <3>1. SyncExtent(ses[i], p) => unsynced' \subseteq unsynced
      BY DEF SyncExtent
    <3>2. UNCHANGED <<size, good, ses, sel, moved, saved>>
      BY <1>5 DEF HashPiece, disk, task, stored
    <3>3. \/ SyncExtent(ses[i], p) /\ UNCHANGED <<db, known>>
          \/ /\ UNCHANGED unsynced
             /\ db' = [db EXCEPT ![p] = "no"] /\ known' = [known EXCEPT ![i][p] = "no"]
      BY <1>5 DEF HashPiece, Mark, disk
    <3> QED
      BY <3>1, <3>2, <3>3
  <2>2. db' \in [Piece -> States] /\ known' \in [Proc -> [Piece -> States]]
    <3>1. CASE UNCHANGED <<db, known>>
      BY <3>1 DEF StoreTypes
    <3>2. CASE db' = [db EXCEPT ![p] = "no"] /\ known' = [known EXCEPT ![i][p] = "no"]
      <4>1. "no" \in States
        BY DEF States
      <4> QED
        BY <3>2, <4>1 DEF StoreTypes
    <3> QED
      BY <2>1, <3>1, <3>2
  <2> QED
    BY <2>1, <2>2 DEF StoreTypes
<1>6. ASSUME NEW i \in Proc, CommitPiece(i)
      PROVE  StoreTypes'
  <2>1. PICK p \in marking[i] : /\ db' = [db EXCEPT ![p] = "yes"]
                                /\ known' = [known EXCEPT ![i][p] = "yes"]
                                /\ UNCHANGED <<disk, ses, sel, moved, saved>>
    BY <1>6 DEF CommitPiece, Mark, task, stored
  <2>2. p \in Piece
    BY DEF HolderWorks
  <2> QED
    BY <2>1, <2>2 DEF StoreTypes, States, disk
<1>7. CASE Cancel \/ UNCHANGED vars
  BY <1>7 DEF Cancel, vars, StoreTypes, disk, task, stored, engine
<1>11. CASE Save
  <2>1. UNCHANGED <<size, good, unsynced, db, sel, moved, ses, known>> /\ saved'.sel = sel
    BY <1>11 DEF Save, disk, engine
  <2> QED
    BY <2>1 DEF StoreTypes
<1>12. ASSUME LoadSaved \/ \E t \in SUBSET File : Select(t) /\ saved' = saved
       PROVE  sel' \in SUBSET File /\ moved' \in SUBSET File /\ saved'.sel \in SUBSET File
  BY <1>12 DEF LoadSaved, Select, Changed, StoreTypes
<1>13. CASE AppCrash
  <2>1. UNCHANGED <<size, good, unsynced, db, ses, known>>
    BY <1>13 DEF AppCrash, disk, engine
  <2> QED
    BY <1>12, <1>13, <2>1 DEF StoreTypes, AppCrash
<1>8. CASE PowerLoss
  <2>1. /\ size' = size /\ unsynced' = {} /\ db' = db
        /\ ses' = [i \in Proc |-> {}] /\ known' = [i \in Proc |-> [p \in Piece |-> "unknown"]]
        /\ sel' \in SUBSET File /\ moved' \in SUBSET File /\ saved'.sel \in SUBSET File
    BY <1>8, <1>12 DEF PowerLoss, LosePower
  <2>2. good' \in [File -> [Places -> SUBSET Int]]
    <3>1. PICK lost : good' = [f \in File |-> [at \in Places |->
                         good[f][at] \ {b \in FileBytes[f] : <<f, at, b>> \in lost}]]
      BY <1>8 DEF PowerLoss, LosePower
    <3>2. \A f \in File, at \in Places : good[f][at] \in SUBSET Int
      BY DEF StoreTypes
    <3> QED
      BY <3>1, <3>2
  <2> QED
    BY <2>1, <2>2 DEF StoreTypes, States
<1>9. ASSUME NEW s \in SUBSET File, SetFilePriorities(s)
      PROVE  StoreTypes'
  <2>1. UNCHANGED <<size, good, unsynced, db, ses, known, saved>> /\ Select(s)
    BY <1>9 DEF SetFilePriorities, disk, engine, stored
  <2> QED
    BY <1>12, <2>1 DEF StoreTypes
<1>10. ASSUME NEW s \in SUBSET File, Redownload(s)
       PROVE  StoreTypes'
  <2>1. /\ RemoveFiles(s) /\ UNCHANGED <<sel, ses, known, saved>>
        /\ \/ db' = [p \in Piece |-> "unknown"] /\ moved' = {}
           \/ UNCHANGED <<db, moved>>
    BY <1>10 DEF Redownload, engine
  <2>2. /\ size' \in [File -> [Places -> Int]] /\ good' \in [File -> [Places -> SUBSET Int]]
        /\ unsynced' \subseteq unsynced
    BY <2>1 DEF RemoveFiles, StoreTypes, Absent
  <2> QED
    BY <2>1, <2>2 DEF StoreTypes, States
<1> QED
  BY <1>1, <1>2, <1>3, <1>4, <1>5, <1>6, <1>7, <1>8, <1>9, <1>10, <1>11, <1>13
     DEF Next, Runtime

-----------------------------------------------------------------------------
(* Complete pieces *)

Open == {"live", "closing", "draining"}

\* A runtime that is yet to open the files, and one the application waits for,
\* was started with the selection the task has.
Told ==
  \A i \in Proc : \/ pc[i] \in {"starting", "opened"}
                  \/ mine = i /\ pc[i] # "none"
                  => ses[i] = sel

\* The files lie as the selection s says, which is that of the task but for files
\* moved since the last reset.  Nothing lies where s does not put it: a file that
\* was not moved, or whose move no session has seen, exists under one path only.
Unmoved(s) ==
  /\ Changed(s) \subseteq moved
  /\ \A f \in (File \ moved) \cup Changed(s) : size[f][OtherPath(s, f)] = Absent

\* An engine at work keeps the files so, and knows what the database says.
Sessions(s) ==
  /\ \A i \in Proc : pc[i] \in Open => ses[i] = s /\ known[i] = db
  /\ \A i \in Proc : \A p, q \in marking[i] : p = q

\* A piece the database calls complete is right and flushed where s puts it,
\* unless its files are too short, which the next session will find out; so is a
\* piece that is being marked.
Checkpoint(s) ==
  /\ \A p \in Piece : db[p] = "yes" /\ (CheckExtent(s, p) \/ \E i \in Proc : pc[i] \in Open)
                        => Kept(s, p)
  /\ \A i \in Proc : \A p \in marking[i] : Kept(s, p)

LaidBy(s) == Unmoved(s) /\ Sessions(s) /\ Checkpoint(s)
StoreInv == Told /\ \E s \in SUBSET File : LaidBy(s)

\* A step that touches neither the files, the database nor the selection, and
\* lets no runtime join the open ones.
LEMMA LaidStays ==
  ASSUME NEW s, LaidBy(s), UNCHANGED <<size, good, unsynced, db, sel, moved>>,
         \A i \in Proc : pc'[i] \in Open =>
                           pc[i] \in Open /\ known'[i] = known[i] /\ ses'[i] = ses[i],
         \A i \in Proc : marking'[i] \subseteq marking[i]
  PROVE  LaidBy(s)'
<1>1. Unmoved(s)'
  BY DEF LaidBy, Unmoved, Changed
<1>2. Sessions(s)'
  BY DEF LaidBy, Sessions
<1>3. /\ \A p : Kept(s, p)' <=> Kept(s, p)
      /\ \A p : CheckExtent(s, p)' <=> CheckExtent(s, p)
  BY DEF Kept, Safe, CheckExtent
<1>4. Checkpoint(s)'
  BY <1>3 DEF LaidBy, Checkpoint
<1> QED
  BY <1>1, <1>2, <1>4 DEF LaidBy

\* An open runtime holds the database: there is no other.
LEMMA OneOpen ==
  ASSUME HolderWorks, NEW i \in Proc, pc[i] \in Open \cup {"opened"},
         NEW j \in Proc, pc[j] \in Open \/ marking[j] # {}
  PROVE  i = j
BY DEF HolderWorks, Open

\* A byte of a piece whose extent is there lies in a file that exists.
LEMMA ExtentExists ==
  ASSUME NEW s, NEW p \in Piece, CheckExtent(s, p), NEW b \in PieceBytes[p]
  PROVE  size[EntryAt[b]][StoragePath(s, EntryAt[b])] # Absent
<1> DEFINE f == EntryAt[b]
<1>1. f \in File /\ b \in FileBytes[f] /\ b \in Int
  BY PieceByte
<1>2. Offset[f] \in Nat /\ Offset[f] <= b
  BY <1>1, Offsets, FileLengths DEF FileBytes
<1>3. size[f][StoragePath(s, f)] > b - Offset[f]
  BY DEF CheckExtent
<1> QED
  BY <1>1, <1>2, <1>3 DEF Absent

\* Between sessions the files may as well lie as the task's selection says: a
\* file that was moved has nothing where it is moved to, so its pieces fail the
\* test of their extent; the others stay where they are.
LEMMA Settle ==
  ASSUME NEW s, LaidBy(s), \A i \in Proc : pc[i] \notin Open /\ marking[i] = {}
  PROVE  LaidBy(sel)
<1>1. \A f : /\ f \in Changed(s) => StoragePath(sel, f) = OtherPath(s, f)
             /\ f \notin Changed(s) => /\ StoragePath(sel, f) = StoragePath(s, f)
                                       /\ OtherPath(sel, f) = OtherPath(s, f)
  BY DEF Changed, StoragePath, OtherPath
<1>2. Changed(sel) = {}
  BY DEF Changed
<1>3. Unmoved(sel)
  BY <1>1, <1>2 DEF LaidBy, Unmoved
<1>4. Sessions(sel)
  BY DEF Sessions
<1>5. ASSUME NEW p \in Piece, db[p] = "yes", CheckExtent(sel, p)
      PROVE  Kept(sel, p)
  <2>1. ASSUME NEW b \in PieceBytes[p]
        PROVE  StoragePath(sel, EntryAt[b]) = StoragePath(s, EntryAt[b])
    <3>1. size[EntryAt[b]][StoragePath(sel, EntryAt[b])] # Absent /\ EntryAt[b] \in File
      BY <1>5, ExtentExists, PieceByte
    <3>2. EntryAt[b] \notin Changed(s)
      BY <1>1, <3>1 DEF LaidBy, Unmoved
    <3> QED
      BY <1>1, <3>2
  <2>2. CheckExtent(s, p)
    BY <1>5, <2>1 DEF CheckExtent
  <2>3. Kept(s, p)
    BY <1>5, <2>2 DEF LaidBy, Checkpoint
  <2> QED
    BY <2>1, <2>3 DEF Kept, Safe
<1>6. Checkpoint(sel)
  BY <1>5 DEF Checkpoint
<1> QED
  BY <1>3, <1>4, <1>6 DEF LaidBy

\* The selection of a file changes at most once: the files lie as before
LEMMA SelectUnmoved ==
  ASSUME MoveBack = FALSE, StoreTypes, NEW s \in SUBSET File, Unmoved(s),
         NEW t \in SUBSET File, Select(t), size' = size
  PROVE  Unmoved(s)'
<1>1. /\ sel' = t /\ moved' = moved \cup Changed(t)
      /\ t = sel \/ Changed(t) \cap moved = {}
  BY DEF Select
<1>2. Changed(s)' \subseteq Changed(s) \cup Changed(t) /\ Changed(s)' \subseteq File
  BY <1>1 DEF Changed, StoreTypes
<1>3. Changed(s)' \subseteq moved'
  BY <1>1, <1>2 DEF Unmoved
<1>4. ASSUME NEW f \in (File \ moved') \cup Changed(s)'
      PROVE  f \in (File \ moved) \cup Changed(s)
  <2>1. CASE t = sel
    BY <1>1, <1>4, <2>1 DEF Changed
  <2>2. CASE Changed(t) \cap moved = {}
    BY <1>1, <1>2, <1>4, <2>2
  <2> QED
    BY <1>1, <2>1, <2>2
<1> QED
  BY <1>3, <1>4 DEF Unmoved

\* and so do the pieces.
LEMMA SelectKeeps ==
  ASSUME MoveBack = FALSE, StoreTypes, NEW s \in SUBSET File, LaidBy(s), NEW t \in SUBSET File, Select(t),
         UNCHANGED <<size, good, unsynced, db, pc, ses, known, marking>>
  PROVE  LaidBy(s)'
<1>5. Unmoved(s)'
  BY SelectUnmoved DEF LaidBy
<1>6. Sessions(s)'
  BY DEF LaidBy, Sessions
<1>7. /\ \A p : Kept(s, p)' <=> Kept(s, p)
      /\ \A p : CheckExtent(s, p)' <=> CheckExtent(s, p)
  BY DEF Kept, Safe, CheckExtent
<1>8. Checkpoint(s)'
  BY <1>7 DEF LaidBy, Checkpoint
<1> QED
  BY <1>5, <1>6, <1>8 DEF LaidBy

\* AddTorrent: the completion of the checkpoint is taken over, and creating the
\* empty files disturbs no piece.
LEMMA AddKeepsStore ==
  ASSUME HolderWorks, StoreTypes, NEW i \in Proc, AddTorrent(i),
         NEW s, s = ses[i], LaidBy(s), Changed(s) = {}
  PROVE  LaidBy(s)'
<1>1. /\ pc[i] = "opened" /\ pc' = [pc EXCEPT ![i] = "live"]
      /\ OpenTorrent(s) /\ Completion(s) /\ known' = [known EXCEPT ![i] = db']
      /\ UNCHANGED <<good, unsynced, ses, sel, moved, marking>>
  BY DEF AddTorrent, task, stored
<1>3. \A j \in Proc : j # i => pc[j] \notin Open /\ marking[j] = {} /\ pc'[j] = pc[j]
  BY <1>1, OneOpen DEF HolderWorks
<1>4. \A f \in File : size'[f][OtherPath(s, f)] = size[f][OtherPath(s, f)]
  <2> SUFFICES ASSUME NEW f \in File
               PROVE  size'[f][OtherPath(s, f)] = size[f][OtherPath(s, f)]
    OBVIOUS
  <2>1. OtherPath(s, f) \in Places /\ StoragePath(s, f) # OtherPath(s, f)
    BY PathTypes
  <2> DEFINE new == IF size[f][StoragePath(s, f)] > FileLen[f] THEN FileLen[f]
                    ELSE IF size[f][StoragePath(s, f)] = Absent /\ FileLen[f] = 0 THEN 0
                    ELSE size[f][StoragePath(s, f)]
  <2>2. size'[f] = [size[f] EXCEPT ![StoragePath(s, f)] = new]
    BY <1>1 DEF OpenTorrent
  <2> HIDE DEF new
  <2>3. size[f] \in [Places -> Int]
    BY DEF StoreTypes
  <2> QED
    BY <2>1, <2>2, <2>3
<1>5. Unmoved(s)'
  BY <1>1, <1>4 DEF LaidBy, Unmoved, Changed
<1>6. Sessions(s)'
  <2>1. \A j \in Proc : pc'[j] \in Open => ses'[j] = s /\ known'[j] = db'
    BY <1>1, <1>3 DEF StoreTypes
  <2> QED
    BY <1>1, <2>1 DEF LaidBy, Sessions
<1>7. \A p : Kept(s, p)' <=> Kept(s, p)
  BY <1>1 DEF Kept, Safe
<1>8. ASSUME NEW p \in Piece, db'[p] = "yes"
      PROVE  Kept(s, p)
  <2>1. db[p] = "yes" /\ CheckExtent(s, p)
    BY <1>1, <1>8 DEF Completion
  <2> QED
    BY <2>1 DEF LaidBy, Checkpoint
<1>9. Checkpoint(s)'
  BY <1>1, <1>7, <1>8 DEF LaidBy, Checkpoint
<1> QED
  BY <1>5, <1>6, <1>9 DEF LaidBy

\* A block is only written to a piece that is not recorded as complete.
LEMMA ReceiveKeepsStore ==
  ASSUME HolderWorks, StoreTypes, NEW s \in SUBSET File, LaidBy(s), NEW i \in Proc,
         NEW b \in 0 .. Total - 1,
         NEW ok \in BOOLEAN, Receive(i, b, ok)
  PROVE  LaidBy(s)'
<1>1. /\ pc[i] \in Open /\ WriteAt(s, b, ok)
      /\ UNCHANGED <<db, sel, moved, pc, ses, known, marking>>
  BY DEF Receive, task, LaidBy, Sessions, Open
<1>2. PICK p \in Piece : b \in PieceBytes[p] /\ known[i][p] = "no" /\ marking[i] # {p}
  BY DEF Receive, Wanted
<1>3. db[p] = "no"
  BY <1>1, <1>2 DEF LaidBy, Sessions
<1>4. ASSUME NEW q \in Piece, q # p, Kept(s, q)
      PROVE  Kept(s, q)'
  <2>2. ASSUME NEW c \in PieceBytes[q]
        PROVE  Safe(s, c)'
    <3>1. c \in 0 .. Total - 1 /\ c # b
      BY <1>2, <1>4, PieceByte
    <3>2. Safe(s, c)
      BY <1>4 DEF Kept
    <3> QED
      BY <1>1, <3>1, <3>2, WriteKeeps
  <2> QED
    BY <2>2 DEF Kept
<1>5. ASSUME NEW j \in Proc, NEW q \in marking[j]
      PROVE  q \in Piece /\ q # p
  <2>1. q \in Piece /\ j = i
    BY <1>1, OneOpen DEF HolderWorks
  <2>2. marking[i] = {q}
    BY <2>1 DEF LaidBy, Sessions
  <2> QED
    BY <1>2, <2>1, <2>2
<1>6. Checkpoint(s)'
  BY <1>1, <1>3, <1>4, <1>5 DEF LaidBy, Checkpoint
<1>7. Unmoved(s)'
  <2>1. \A f \in File : size'[f][OtherPath(s, f)] = size[f][OtherPath(s, f)]
    BY <1>1, WriteOther
  <2>2. Changed(s)' = Changed(s) /\ moved' = moved
    BY <1>1 DEF Changed
  <2>3. Changed(s) \subseteq File
    BY DEF Changed, StoreTypes
  <2> QED
    BY <2>1, <2>2, <2>3 DEF LaidBy, Unmoved
<1>8. Sessions(s)'
  BY <1>1 DEF LaidBy, Sessions
<1> QED
  BY <1>6, <1>7, <1>8 DEF LaidBy

\* A piece that passes its hash is on the way to the checkpoint; one that fails
\* loses its record.
LEMMA HashKeepsStore ==
  ASSUME HolderWorks, StoreTypes, NEW s, LaidBy(s), NEW i \in Proc, NEW p \in Piece,
         HashPiece(i, p)
  PROVE  LaidBy(s)'
<1>1. /\ pc[i] \in Open /\ ses[i] = s /\ marking[i] = {} /\ known[i] = db /\ known[i][p] # "yes"
      /\ UNCHANGED <<size, good, sel, moved, pc, ses>>
  BY DEF HashPiece, task, disk, LaidBy, Sessions, Open
<1>3. \A j \in Proc : j # i => pc[j] \notin Open /\ marking[j] = {}
  BY <1>1, OneOpen
<1>4. Unmoved(s)'
  BY <1>1 DEF LaidBy, Unmoved, Changed
<1>5. CASE ReadsGood(s, p)
  <2>1. /\ SyncExtent(s, p) /\ marking' = [marking EXCEPT ![i] = {p}]
        /\ UNCHANGED <<db, known>>
    BY <1>1, <1>5 DEF HashPiece
  <2>2. Kept(s, p)' /\ \A c : Safe(s, c) => Safe(s, c)'
    BY <1>1, <1>5, <2>1, SyncKeeps
  <2>3. \A q : Kept(s, q) => Kept(s, q)'
    BY <2>2 DEF Kept
  <2>4. \A j \in Proc : marking'[j] = IF j = i THEN {p} ELSE {}
    BY <1>3, <2>1 DEF HolderWorks
  <2>5. Sessions(s)'
    BY <1>1, <2>1, <2>4 DEF LaidBy, Sessions
  <2>6. \A q \in Piece : db[q] = "yes" => Kept(s, q)
    BY <1>1 DEF LaidBy, Checkpoint
  <2>7. Checkpoint(s)'
    BY <1>1, <2>1, <2>2, <2>3, <2>4, <2>6 DEF Checkpoint
  <2> QED
    BY <1>4, <2>5, <2>7 DEF LaidBy
<1>6. CASE ~ReadsGood(s, p)
  <2>1. /\ db' = [db EXCEPT ![p] = "no"] /\ known' = [known EXCEPT ![i][p] = "no"]
        /\ UNCHANGED <<unsynced, marking>>
    BY <1>1, <1>6 DEF HashPiece, Mark, disk
  <2>2. known'[i] = db'
    BY <1>1, <2>1 DEF StoreTypes
  <2>3. Sessions(s)'
    BY <1>1, <1>3, <2>1, <2>2 DEF LaidBy, Sessions
  <2>4. \A q : Kept(s, q)' <=> Kept(s, q)
    BY <1>1, <2>1 DEF Kept, Safe
  <2>5. \A q \in Piece : db'[q] = "yes" => db[q] = "yes"
    BY <2>1 DEF StoreTypes
  <2>6. \A q \in Piece : CheckExtent(s, q)' <=> CheckExtent(s, q)
    BY <1>1 DEF CheckExtent
  <2>7. Checkpoint(s)'
    BY <1>1, <2>1, <2>4, <2>5, <2>6 DEF LaidBy, Checkpoint
  <2> QED
    BY <1>4, <2>3, <2>7 DEF LaidBy
<1> QED
  BY <1>5, <1>6

\* MarkComplete records a piece after its files have been synced.
LEMMA CommitKeepsStore ==
  ASSUME HolderWorks, StoreTypes, NEW s, LaidBy(s), NEW i \in Proc, CommitPiece(i)
  PROVE  LaidBy(s)'
<1>1. PICK p \in marking[i] :
        /\ db' = [db EXCEPT ![p] = "yes"] /\ known' = [known EXCEPT ![i][p] = "yes"]
        /\ marking' = [marking EXCEPT ![i] = {}]
        /\ UNCHANGED <<size, good, unsynced, sel, moved, pc, ses>>
  BY DEF CommitPiece, Mark, task, disk
<1>2. /\ p \in Piece /\ pc[i] \in Open /\ known[i] = db /\ Kept(s, p)
      /\ \A j \in Proc : j # i => pc[j] \notin Open /\ marking[j] = {}
  <2>1. p \in Piece /\ pc[i] \in Open
    BY <1>1 DEF HolderWorks, Open
  <2>2. \A j \in Proc : j # i => pc[j] \notin Open /\ marking[j] = {}
    BY <2>1, OneOpen
  <2> QED
    BY <2>1, <2>2 DEF LaidBy, Sessions, Checkpoint
<1>3. Unmoved(s)'
  BY <1>1 DEF LaidBy, Unmoved, Changed
<1>4. known'[i] = db' /\ \A j \in Proc : marking'[j] = {}
  BY <1>1, <1>2 DEF StoreTypes, HolderWorks
<1>5. Sessions(s)'
  BY <1>1, <1>2, <1>4 DEF LaidBy, Sessions
<1>6. \A q : Kept(s, q)' <=> Kept(s, q)
  BY <1>1 DEF Kept, Safe
<1>7. \A q \in Piece : db'[q] = "yes" => Kept(s, q)
  BY <1>1, <1>2 DEF StoreTypes, LaidBy, Checkpoint
<1>8. Checkpoint(s)'
  BY <1>1, <1>4, <1>6, <1>7 DEF Checkpoint
<1> QED
  BY <1>3, <1>5, <1>8 DEF LaidBy

\* A power loss costs only bytes that were not synced, and a recorded piece has
\* none of those.  What the task is then loaded with may undo one edit.
LEMMA PowerKeepsStore ==
  ASSUME MoveBack = FALSE, StoreTypes, NEW s \in SUBSET File, LaidBy(s), PowerLoss
  PROVE  LaidBy(s)'
<1>1. /\ LosePower /\ UNCHANGED <<size, db>> /\ Select(saved.sel)
      /\ pc' = [i \in Proc |-> "none"] /\ marking' = [i \in Proc |-> {}]
  BY DEF PowerLoss, LosePower, LoadSaved
<1>2. Unmoved(s)' /\ Sessions(s)'
  <2>1. PICK t \in SUBSET File : t = saved.sel
    BY DEF StoreTypes
  <2>2. Unmoved(s)'
    BY <1>1, <2>1, SelectUnmoved DEF LaidBy
  <2> QED
    BY <1>1, <2>2 DEF Sessions, Open
<1>3. ASSUME NEW p \in Piece, Kept(s, p)
      PROVE  Kept(s, p)'
  <2>1. \A c \in PieceBytes[p] : Safe(s, c)'
    BY <1>1, <1>3, PieceByte, PowerKeeps DEF Kept
  <2> QED
    BY <2>1 DEF Kept
<1>4. \A p \in Piece : CheckExtent(s, p)' <=> CheckExtent(s, p)
  BY <1>1 DEF CheckExtent
<1>5. Checkpoint(s)'
  BY <1>1, <1>3, <1>4 DEF LaidBy, Checkpoint, Open
<1> QED
  BY <1>2, <1>5 DEF LaidBy

\* Redownload forgets the checkpoint when it removes every file; a piece of a
\* file removed before another could not be fails its length check.
LEMMA RedownloadKeepsStore ==
  ASSUME HolderWorks, StoreTypes, NEW s \in SUBSET File, LaidBy(s),
         NEW gone \in SUBSET File, Redownload(gone)
  PROVE  \E x \in SUBSET File : LaidBy(x)'
<1>1. /\ \A i \in Proc : pc[i] = "none" /\ marking[i] = {}
      /\ RemoveFiles(gone) /\ UNCHANGED <<sel, pc, ses, known, marking>>
      /\ \/ gone = File /\ db' = [p \in Piece |-> "unknown"] /\ moved' = {}
         \/ UNCHANGED <<db, moved>>
  BY DEF Redownload, NoRuntime, HolderWorks, engine
<1>2. \A x : Sessions(x)'
  BY <1>1 DEF Sessions, Open
<1>3. \A f \in File : /\ f \in gone => \A at \in Places : size'[f][at] = Absent
                      /\ f \notin gone => size'[f] = size[f]
  BY <1>1 DEF RemoveFiles
<1>4. CASE gone = File /\ db' = [p \in Piece |-> "unknown"] /\ moved' = {}
  <2>1. PICK x \in SUBSET File : x = sel
    BY DEF StoreTypes
  <2>2. Unmoved(x)'
    BY <1>1, <1>3, <1>4, <2>1, PathTypes DEF Unmoved, Changed
  <2>3. Checkpoint(x)'
    BY <1>1, <1>4 DEF Checkpoint
  <2> QED
    BY <1>2, <2>2, <2>3 DEF LaidBy
<1>5. CASE UNCHANGED <<db, moved>>
  <2>1. Unmoved(s)'
    <3>1. Changed(s)' = Changed(s) /\ Changed(s) \subseteq File
      BY <1>1 DEF Changed, StoreTypes
    <3> QED
      BY <1>3, <1>5, <3>1, PathTypes DEF LaidBy, Unmoved
  <2>2. ASSUME NEW p \in Piece, db[p] = "yes", CheckExtent(s, p)'
        PROVE  Kept(s, p)'
    <3>1. ASSUME NEW b \in PieceBytes[p]
          PROVE  EntryAt[b] \in File \ gone /\ b \in 0 .. Total - 1
      <4> DEFINE f == EntryAt[b]
      <4>1. f \in File /\ b \in FileBytes[f] /\ b \in Int /\ b \in 0 .. Total - 1
        BY PieceByte
      <4>2. Offset[f] \in Nat /\ Offset[f] <= b
        BY <4>1, Offsets, FileLengths DEF FileBytes
      <4>3. size'[f][StoragePath(s, f)] > b - Offset[f]
        BY <2>2 DEF CheckExtent
      <4>4. size'[f][StoragePath(s, f)] # Absent
        BY <4>1, <4>2, <4>3 DEF Absent
      <4> QED
        BY <1>3, <4>1, <4>4, PathTypes
    <3>2. CheckExtent(s, p)
      BY <1>3, <2>2, <3>1 DEF CheckExtent
    <3>3. Kept(s, p)
      BY <2>2, <3>2 DEF LaidBy, Checkpoint
    <3>4. \A b \in PieceBytes[p] : Safe(s, b)'
      BY <1>1, <3>1, <3>3, RemoveKeeps DEF Kept
    <3> QED
      BY <3>4 DEF Kept
  <2>3. Checkpoint(s)'
    BY <1>1, <1>5, <2>2 DEF Checkpoint, Open
  <2> QED
    BY <1>2, <2>1, <2>3 DEF LaidBy
<1> QED
  BY <1>1, <1>4, <1>5

\* Nobody is told a selection that the task no longer has when it opens.
LEMMA ToldStep ==
  ASSUME MoveBack = FALSE, HolderWorks, StoreTypes, Told, [Next]_vars
  PROVE  Told'
<1>1. ASSUME NEW i \in Proc, Start(i)
      PROVE  Told'
  <2>1. /\ mine' = i /\ pc' = [pc EXCEPT ![i] = "starting"] /\ ses' = [ses EXCEPT ![i] = sel]
        /\ sel' = sel
    BY <1>1 DEF Start
  <2>2. ses'[i] = sel /\ \A j \in Proc : j # i => pc'[j] = pc[j] /\ ses'[j] = ses[j]
    BY <2>1 DEF HolderWorks, StoreTypes
  <2> QED
    BY <2>1, <2>2 DEF Told
<1>2. ASSUME NEW i \in Proc, \/ OpenCheckpoint(i) \/ AddTorrent(i) \/ FinishRequest(i) \/ Upload(i)
                             \/ Sample(i) \/ SampleFails(i) \/ CtxDone(i) \/ CloseClient(i)
      PROVE  Told'
  <2>1. UNCHANGED <<sel, ses, mine>>
    BY <1>2 DEF OpenCheckpoint, AddTorrent, FinishRequest, Upload, Sample, SampleFails, CtxDone,
                CloseClient, task, engine
  <2>2. \/ pc' = pc
        \/ pc[i] = "starting" /\ pc' = [pc EXCEPT ![i] = "opened"]
        \/ pc[i] # "none" /\ \E at \in Open : pc' = [pc EXCEPT ![i] = at]
    BY <1>2 DEF OpenCheckpoint, AddTorrent, FinishRequest, Upload, Sample, SampleFails, CtxDone,
                CloseClient, Close, Open
  <2>3. \A j \in Proc : /\ pc'[j] \in {"starting", "opened"} => pc[j] \in {"starting", "opened"}
                        /\ pc'[j] # "none" => pc[j] # "none"
    BY <2>2 DEF HolderWorks, Open
  <2> QED
    BY <2>1, <2>3 DEF Told
<1>3. ASSUME NEW i \in Proc, OpenFails(i) \/ CloseCheckpoint(i) \/ RuntimeCrash(i)
      PROVE  Told'
  <2>1. Gone(i) /\ sel' = sel
    BY <1>3 DEF OpenFails, CloseCheckpoint, RuntimeCrash, task
  <2>2. /\ pc'[i] = "none" /\ mine' \in {mine, None}
        /\ \A j \in Proc : j # i => pc'[j] = pc[j] /\ ses'[j] = ses[j]
    BY <2>1 DEF Gone, HolderWorks, StoreTypes
  <2> QED
    BY <2>1, <2>2, SessionAssumption DEF Told
<1>4. ASSUME NEW i \in Proc, \/ CommitPiece(i)
                             \/ \E b \in 0 .. Total - 1, ok \in BOOLEAN : Receive(i, b, ok)
                             \/ \E p \in Piece : HashPiece(i, p)
      PROVE  Told'
  <2>1. UNCHANGED <<sel, ses, pc, mine>>
    BY <1>4 DEF CommitPiece, Receive, HashPiece, task
  <2> QED
    BY <2>1 DEF Told
<1>5. CASE Cancel \/ Save \/ UNCHANGED vars \/ \E s \in SUBSET File : Redownload(s)
  <2>1. UNCHANGED <<sel, ses, pc, mine>>
    BY <1>5 DEF Cancel, Save, Redownload, vars, task, engine
  <2> QED
    BY <2>1 DEF Told
<1>6. ASSUME NEW t, Select(t), mine' = None, UNCHANGED <<pc, ses>>
      PROVE  Told'
  <2>1. sel' = sel \/ \A i \in Proc : pc[i] \notin {"starting", "opened"}
    BY <1>6 DEF Select, Opening
  <2> QED
    BY <1>6, <2>1, SessionAssumption DEF Told
<1>7. CASE AppCrash \/ \E s \in SUBSET File : SetFilePriorities(s)
  <2>1. mine' = None /\ UNCHANGED <<pc, ses>> /\ \E t : Select(t)
    BY <1>7 DEF AppCrash, SetFilePriorities, LoadSaved, engine
  <2> QED
    BY <1>6, <2>1
<1>8. CASE PowerLoss
  BY <1>8, SessionAssumption DEF PowerLoss, Told
<1> QED
  BY <1>1, <1>2, <1>3, <1>4, <1>5, <1>7, <1>8 DEF Next, Runtime

\* The invariant of the storage is inductive where sessions find no file's
\* selection changed twice.
LEMMA StoreStep ==
  ASSUME MoveBack = FALSE, HolderWorks, StoreTypes, StoreInv, [Next]_vars
  PROVE  StoreInv'
<1> SUFFICES \E x \in SUBSET File : LaidBy(x)'
  BY ToldStep DEF StoreInv
<1>s. PICK s \in SUBSET File : LaidBy(s)
  BY DEF StoreInv
<1> SUFFICES ASSUME ~LaidBy(s)'
             PROVE  \E x \in SUBSET File : LaidBy(x)'
  OBVIOUS
<1>1. ASSUME NEW i \in Proc, Start(i)
      PROVE  FALSE
  <2>1. /\ pc[i] = "none" /\ pc' = [pc EXCEPT ![i] = "starting"] /\ ses' = [ses EXCEPT ![i] = sel]
        /\ UNCHANGED <<size, good, unsynced, db, sel, moved, known, marking>>
    BY <1>1 DEF Start, disk
  <2>2. \A j \in Proc : pc'[j] \in Open => pc[j] \in Open /\ ses'[j] = ses[j]
    BY <2>1 DEF HolderWorks, StoreTypes, Open
  <2> QED
    BY <1>s, <2>1, <2>2, LaidStays
<1>2. ASSUME NEW i \in Proc, \/ OpenCheckpoint(i) \/ FinishRequest(i) \/ Upload(i)
                             \/ Sample(i) \/ SampleFails(i) \/ CtxDone(i) \/ CloseClient(i)
      PROVE  FALSE
  <2>1. UNCHANGED <<size, good, unsynced, db, sel, moved, known, marking, ses>>
    BY <1>2 DEF OpenCheckpoint, FinishRequest, Upload, Sample, SampleFails, CtxDone, CloseClient,
                disk, task, engine
  <2>2. \/ pc' = pc
        \/ pc' = [pc EXCEPT ![i] = "opened"]
        \/ pc[i] \in Open /\ pc' = [pc EXCEPT ![i] = "closing"]
        \/ pc[i] \in Open /\ pc' = [pc EXCEPT ![i] = "draining"]
    BY <1>2 DEF OpenCheckpoint, FinishRequest, Upload, Sample, SampleFails, CtxDone, CloseClient,
                Close, Open
  <2>3. \A j \in Proc : pc'[j] \in Open => pc[j] \in Open
    BY <2>2 DEF HolderWorks, Open
  <2> QED
    BY <1>s, <2>1, <2>3, LaidStays
<1>3. ASSUME NEW i \in Proc, OpenFails(i) \/ CloseCheckpoint(i) \/ RuntimeCrash(i)
      PROVE  FALSE
  <2>1. Gone(i) /\ UNCHANGED <<size, good, unsynced, db, sel, moved>>
    BY <1>3 DEF OpenFails, CloseCheckpoint, RuntimeCrash, disk, task
  <2>2. /\ pc'[i] = "none" /\ marking'[i] = {}
        /\ \A j \in Proc : j # i => /\ pc'[j] = pc[j] /\ marking'[j] = marking[j]
                                    /\ known'[j] = known[j] /\ ses'[j] = ses[j]
    BY <2>1 DEF Gone, HolderWorks, StoreTypes
  <2>3. \A j \in Proc : pc'[j] \in Open =>
                           pc[j] \in Open /\ known'[j] = known[j] /\ ses'[j] = ses[j]
    BY <2>2 DEF Open
  <2> QED
    BY <1>s, <2>1, <2>2, <2>3, LaidStays
<1>4. CASE Cancel \/ Save \/ UNCHANGED vars
  <2>1. UNCHANGED <<size, good, unsynced, db, sel, moved, known, marking, ses, pc>>
    BY <1>4 DEF Cancel, Save, vars, disk, task, engine
  <2> QED
    BY <1>s, <2>1, LaidStays
<1>5. ASSUME NEW i \in Proc, AddTorrent(i)
      PROVE  \E x \in SUBSET File : LaidBy(x)'
  <2>1. PICK x \in SUBSET File : x = sel
    BY DEF StoreTypes
  <2>2. \A j \in Proc : pc[j] \notin Open /\ marking[j] = {}
    BY <1>5, OneOpen DEF AddTorrent, HolderWorks, Open
  <2>3. LaidBy(x)
    BY <1>s, <2>1, <2>2, Settle
  <2>4. x = ses[i] /\ Changed(x) = {}
    BY <1>5, <2>1 DEF StoreInv, Told, AddTorrent, Changed
  <2>5. LaidBy(x)'
    BY <1>5, <2>3, <2>4, AddKeepsStore
  <2> QED
    BY <2>5
<1>6. CASE AppCrash \/ \E t \in SUBSET File : SetFilePriorities(t)
  <2>1. UNCHANGED <<size, good, unsynced, db, pc, ses, known, marking>>
    BY <1>6 DEF AppCrash, SetFilePriorities, disk, engine
  <2>2. PICK t \in SUBSET File : Select(t)
    BY <1>6 DEF AppCrash, SetFilePriorities, LoadSaved, StoreTypes
  <2> QED
    BY <1>s, <2>1, <2>2, SelectKeeps
<1>7. ASSUME NEW i \in Proc, \/ CommitPiece(i)
                             \/ \E b \in 0 .. Total - 1, ok \in BOOLEAN : Receive(i, b, ok)
                             \/ \E p \in Piece : HashPiece(i, p)
      PROVE  FALSE
  BY <1>s, <1>7, CommitKeepsStore, ReceiveKeepsStore, HashKeepsStore
<1>8. CASE PowerLoss
  BY <1>s, <1>8, PowerKeepsStore
<1>9. ASSUME NEW gone \in SUBSET File, Redownload(gone)
      PROVE  \E x \in SUBSET File : LaidBy(x)'
  BY <1>s, <1>9, RedownloadKeepsStore
<1> QED
  BY <1>1, <1>2, <1>3, <1>4, <1>5, <1>6, <1>7, <1>8, <1>9 DEF Next, Runtime

\* A new task has no files and no checkpoint.
LEMMA StoreInitial == Init => StoreTypes /\ StoreInv
<1> SUFFICES ASSUME Init PROVE StoreTypes /\ StoreInv
  OBVIOUS
<1>1. StoreTypes
  <2>1. /\ size = [f \in File |-> [at \in Places |-> Absent]]
        /\ good = [f \in File |-> [at \in Places |-> {}]]
        /\ unsynced = {} /\ sel \in SUBSET File /\ moved = {} /\ ses = [i \in Proc |-> {}]
        /\ saved.sel = sel
    BY DEF Init
  <2>2. size \in [File -> [Places -> Int]] /\ good \in [File -> [Places -> SUBSET Int]]
    BY <2>1 DEF Absent
  <2>3. db \in [Piece -> States] /\ known \in [Proc -> [Piece -> States]]
    BY DEF Init, States
  <2> QED
    BY <2>1, <2>2, <2>3 DEF StoreTypes
<1>2. PICK x \in SUBSET File : x = sel
  BY <1>1 DEF StoreTypes
<1>3. Unmoved(x)
  BY <1>2, PathTypes DEF Init, Unmoved, Changed
<1>4. Told /\ Sessions(x) /\ Checkpoint(x)
  BY SessionAssumption DEF Init, Told, Sessions, Checkpoint, Open
<1> QED
  BY <1>1, <1>3, <1>4 DEF StoreInv, LaidBy

\* What a runtime takes for a complete piece, shows as received and offers to
\* peers is right, through pauses, edits, crashes of either process, power losses
\* and downloads anew, for any layout of files and pieces, as long as the
\* selection that sessions find of a file changes at most once between two resets.
THEOREM KnownIsGoodHolds ==
  ASSUME MoveBack = FALSE
  PROVE  Spec => []KnownIsGood
<1> DEFINE I == HolderWorks /\ StoreTypes /\ StoreInv
<1>1. Init => I
  BY HolderInitial, StoreInitial
<1>2. I /\ [Next]_vars => I'
  BY HolderInductive, StoreTypesStep, StoreStep
<1>3. I => KnownIsGood
  <2> SUFFICES ASSUME I, NEW i \in Proc, NEW p \in Piece,
                      pc[i] \in {"live", "closing"}, known[i][p] = "yes"
               PROVE  ReadsGood(ses[i], p)
    BY DEF KnownIsGood
  <2>1. PICK s \in SUBSET File : LaidBy(s)
    BY DEF StoreInv
  <2>2. ses[i] = s /\ db[p] = "yes" /\ pc[i] \in Open
    BY <2>1 DEF LaidBy, Sessions, Open
  <2>3. Kept(s, p)
    BY <2>1, <2>2 DEF LaidBy, Checkpoint
  <2> QED
    BY <2>2, <2>3 DEF Kept, Safe, ReadsGood
<1> QED
  BY <1>1, <1>2, <1>3, PTL DEF Spec

-----------------------------------------------------------------------------
(* Seeding *)

\* Before the torrent is added the task is shown as being checked.  While it is
\* shown as seeding, every selected file has its full size under the title and
\* all its pieces are known; an empty file exists in every open session.
SeedInv ==
  /\ \A f \in File, at \in Places : size[f][at] >= Absent
  /\ \A i \in Proc : mine = i /\ pc[i] \in {"starting", "opened"} => phase = "checking"
  /\ \A i \in Proc : pc[i] \in Open =>
       \A f \in File : FileLen[f] = 0 => size[f][StoragePath(ses[i], f)] = 0
  /\ \A i \in Proc : pc[i] = "live" /\ mine = i /\ phase = "seeding" =>
       \A f \in sel : /\ size[f]["title"] = FileLen[f]
                      /\ \A b \in FileBytes[f] : known[i][b \div PieceLen] = "yes"

\* What Snapshot counts as received is the whole selection only when every byte
\* of it lies in a known piece and the files have their size.
LEMMA CompleteIsKnown ==
  ASSUME StoreTypes, SeedInv, NEW i \in Proc, pc[i] \in Open, ses[i] = sel, Complete(i),
         NEW f \in sel
  PROVE  /\ size[f]["title"] = FileLen[f]
         /\ \A b \in FileBytes[f] : known[i][b \div PieceLen] = "yes"
<1>1. f \in File /\ FileLen[f] \in Nat /\ Offset[f] \in Nat /\ StoragePath(sel, f) = "title"
  BY FileLengths, Offsets DEF StoreTypes, StoragePath
<1> DEFINE K == {b \in FileBytes[f] : known[i][b \div PieceLen] = "yes"}
<1>2. SnapshotBytes(i, f) = FileLen[f]
  BY DEF Complete
<1>3. FileBytes[f] = Offset[f] .. Offset[f] + FileLen[f] - 1
  BY <1>1 DEF FileBytes
<1>4. CASE FileLen[f] = 0
  <2>1. FileBytes[f] = {}
    BY <1>1, <1>3, <1>4
  <2> QED
    BY <1>1, <1>4, <2>1 DEF SeedInv
<1>5. CASE FileLen[f] > 0
  <2>1. Verified(i, f) = FileLen[f] /\ size[f]["title"] = FileLen[f]
    BY <1>1, <1>2, <1>5 DEF SnapshotBytes
  <2>2. IsFiniteSet(FileBytes[f]) /\ Cardinality(FileBytes[f]) = FileLen[f]
    <3>1. Offset[f] \in Int /\ Offset[f] + FileLen[f] - 1 \in Int
      BY <1>1
    <3>2. /\ IsFiniteSet(FileBytes[f])
          /\ Cardinality(FileBytes[f]) = Offset[f] + FileLen[f] - 1 - Offset[f] + 1
      BY <1>1, <1>3, <1>5, <3>1, FS_Interval
    <3> QED
      BY <1>1, <3>2
  <2>3. K \in SUBSET FileBytes[f] /\ Cardinality(K) = Cardinality(FileBytes[f])
    BY <2>1, <2>2 DEF Verified
  <2> HIDE DEF K
  <2>4. K = FileBytes[f]
    BY <2>2, <2>3, FS_Subset
  <2> QED
    BY <2>1, <2>4 DEF K
<1> QED
  BY <1>1, <1>4, <1>5

\* A step that leaves the files, what is known and the phase alone, and lets no
\* runtime be live or open that was not.
LEMMA SeedStays ==
  ASSUME SeedInv, UNCHANGED <<size, sel, phase>>, mine' \in {mine, None},
         \A i \in Proc : pc'[i] \in Open => pc[i] \in Open /\ ses'[i] = ses[i],
         \A i \in Proc : pc'[i] = "live" => pc[i] = "live" /\ known'[i] = known[i],
         \A i \in Proc : pc'[i] \in {"starting", "opened"} => pc[i] \in {"starting", "opened"}
  PROVE  SeedInv'
<1>1. \A i \in Proc : mine' = i => mine = i
  BY SessionAssumption
<1> QED
  BY <1>1 DEF SeedInv

\* Nothing is claimed of a runtime the application does not wait for.
LEMMA SeedLeft ==
  ASSUME SeedInv, UNCHANGED <<size, ses, pc>>, mine' = None
  PROVE  SeedInv'
BY SessionAssumption DEF SeedInv

\* Only Snapshot shows the task as seeding, and nothing removes a piece or a
\* file of a session that is shown so.
LEMMA SeedStep ==
  ASSUME HolderWorks, StoreTypes, StoreInv, SeedInv, [Next]_vars
  PROVE  SeedInv'
<1>p. pc \in [Proc -> {"none", "starting", "opened", "live", "closing", "draining"}]
  BY DEF HolderWorks
<1>1. ASSUME NEW i \in Proc, Start(i)
      PROVE  SeedInv'
  <2>1. /\ mine = None /\ mine' = i /\ pc[i] = "none" /\ pc' = [pc EXCEPT ![i] = "starting"]
        /\ ses' = [ses EXCEPT ![i] = sel] /\ phase' = "checking" /\ UNCHANGED <<size, sel, known>>
    BY <1>1 DEF Start, disk
  <2>2. \A j \in Proc : pc'[j] \in Open => pc[j] \in Open /\ ses'[j] = ses[j]
    BY <1>p, <2>1 DEF Open, StoreTypes
  <2>3. pc'[i] = "starting"
    BY <1>p, <2>1
  <2> QED
    BY <2>1, <2>2, <2>3 DEF SeedInv
<1>2. ASSUME NEW i \in Proc, \/ OpenCheckpoint(i) \/ FinishRequest(i) \/ Upload(i)
                             \/ SampleFails(i) \/ CloseClient(i)
      PROVE  SeedInv'
  <2>1. UNCHANGED <<size, sel, phase, known, mine, ses>>
    BY <1>2 DEF OpenCheckpoint, FinishRequest, Upload, SampleFails, CloseClient, disk, task, engine
  <2>2. \/ pc' = pc
        \/ pc[i] = "starting" /\ pc' = [pc EXCEPT ![i] = "opened"]
        \/ pc[i] \in Open /\ pc' = [pc EXCEPT ![i] = "closing"]
        \/ pc[i] \in Open /\ pc' = [pc EXCEPT ![i] = "draining"]
    BY <1>2 DEF OpenCheckpoint, FinishRequest, Upload, SampleFails, CloseClient, Close, Open
  <2>3. \A j \in Proc : /\ pc'[j] \in Open => pc[j] \in Open
                        /\ pc'[j] = "live" => pc[j] = "live"
                        /\ pc'[j] \in {"starting", "opened"} => pc[j] \in {"starting", "opened"}
    BY <1>p, <2>2 DEF Open
  <2> QED
    BY <2>1, <2>3, SeedStays
<1>3. ASSUME NEW i \in Proc, OpenFails(i) \/ CloseCheckpoint(i) \/ RuntimeCrash(i)
      PROVE  SeedInv'
  <2>1. Gone(i) /\ UNCHANGED <<size, sel, phase>>
    BY <1>3 DEF OpenFails, CloseCheckpoint, RuntimeCrash, disk, task
  <2>2. /\ pc'[i] = "none" /\ mine' \in {mine, None}
        /\ \A j \in Proc : j # i => pc'[j] = pc[j] /\ known'[j] = known[j] /\ ses'[j] = ses[j]
    BY <2>1 DEF Gone, HolderWorks, StoreTypes
  <2> QED
    BY <2>1, <2>2, SeedStays DEF Open
<1>4. ASSUME NEW i \in Proc, AddTorrent(i)
      PROVE  SeedInv'
  <2>1. /\ pc[i] = "opened" /\ pc' = [pc EXCEPT ![i] = "live"]
        /\ OpenTorrent(ses[i]) /\ UNCHANGED <<sel, phase, mine, ses>>
    BY <1>4 DEF AddTorrent, task, stored
  <2>2. \A j \in Proc : j # i => pc'[j] = pc[j] /\ pc[j] \notin Open
    BY <1>p, <2>1, OneOpen
  <2>3. ASSUME NEW f \in File
        PROVE  /\ \A at \in Places : size'[f][at] >= Absent
               /\ FileLen[f] = 0 => size'[f][StoragePath(ses[i], f)] = 0
    <3> DEFINE at == StoragePath(ses[i], f)
               new == IF size[f][at] > FileLen[f] THEN FileLen[f]
                      ELSE IF size[f][at] = Absent /\ FileLen[f] = 0 THEN 0 ELSE size[f][at]
    <3>1. /\ at \in Places /\ FileLen[f] \in Nat /\ size[f] \in [Places -> Int]
          /\ \A x \in Places : size[f][x] >= Absent
      BY PathTypes, FileLengths DEF StoreTypes, SeedInv
    <3>2. size'[f] = [size[f] EXCEPT ![at] = new]
      BY <2>1 DEF OpenTorrent
    <3>3. size[f][at] \in Int /\ size[f][at] >= -1
      BY <3>1 DEF Absent
    <3>4. new >= -1 /\ (FileLen[f] = 0 => new = 0)
      BY <3>1, <3>3 DEF Absent
    <3> HIDE DEF at, new
    <3> QED
      BY <3>1, <3>2, <3>4 DEF Absent, at
  <2>4. pc'[i] = "live" /\ (mine = i => phase = "checking")
    BY <1>p, <2>1 DEF SeedInv
  <2>5. \A j \in Proc : mine' = j /\ pc'[j] \in {"starting", "opened"} => phase' = "checking"
    BY <2>1, <2>2, <2>4 DEF SeedInv
  <2>6. \A j \in Proc : ~(pc'[j] = "live" /\ mine' = j /\ phase' = "seeding")
    BY <2>1, <2>2, <2>4 DEF Open
  <2>7. \A j \in Proc : pc'[j] \in Open => j = i
    BY <2>2
  <2> QED
    BY <2>1, <2>3, <2>5, <2>6, <2>7 DEF SeedInv
<1>5. ASSUME NEW i \in Proc, NEW b \in 0 .. Total - 1, NEW ok \in BOOLEAN, Receive(i, b, ok)
      PROVE  SeedInv'
  <2> DEFINE e == EntryAt[b]
             at == StoragePath(ses[i], e)
             end == b - Offset[e] + 1
  <2>1. /\ pc[i] \in Open /\ UNCHANGED <<sel, phase, mine, pc, known, ses>>
        /\ size' = [size EXCEPT ![e][at] = IF @ < end THEN end ELSE @]
    BY <1>5 DEF Receive, WriteAt, task, Open
  <2>2. PICK p \in Piece : b \in PieceBytes[p] /\ known[i][p] = "no"
    BY <1>5 DEF Receive, Wanted
  <2>3. b \div PieceLen = p
    BY <2>2, PieceByte
  <2>4. e \in File /\ at \in Places /\ b \in FileBytes[e] /\ FileLen[e] # 0 /\ end \in Int /\ end >= 1
    <3>1. e \in File /\ b \in FileBytes[e] /\ b \in Int
      BY EntryFile, TotalNat
    <3>2. Offset[e] \in Nat /\ FileLen[e] \in Nat
      BY <3>1, Offsets, FileLengths
    <3>3. Offset[e] <= b /\ b <= Offset[e] + FileLen[e] - 1
      BY <3>1, <3>2 DEF FileBytes
    <3> QED
      BY <3>1, <3>2, <3>3, PathTypes
  <2>5. \A j \in Proc : pc[j] \in Open => j = i
    BY <2>1, OneOpen
  <2> HIDE DEF e, at, end
  <2>6. \A f \in File, x \in Places : size'[f][x] = IF f = e /\ x = at THEN
                                        (IF size[e][at] < end THEN end ELSE size[e][at])
                                      ELSE size[f][x]
    BY <2>1, <2>4 DEF StoreTypes
  <2>7. \A f \in File, x \in Places : size'[f][x] >= Absent
    <3>1. \A f \in File, x \in Places : size[f][x] \in Int /\ size[f][x] >= Absent
      BY DEF StoreTypes, SeedInv
    <3> QED
      BY <2>4, <2>6, <3>1 DEF Absent
  <2>8. ASSUME NEW f \in File, FileLen[f] = 0
        PROVE  size'[f][StoragePath(ses[i], f)] = 0
    BY <2>1, <2>4, <2>6, <2>8, PathTypes DEF SeedInv
  <2>9. ASSUME NEW j \in Proc, pc[j] = "live", mine = j, phase = "seeding", NEW f \in sel
        PROVE  size'[f]["title"] = FileLen[f]
    <3>1. j = i
      BY <2>1, <2>9, OneOpen DEF Open
    <3>2. /\ size[f]["title"] = FileLen[f] /\ f \in File
          /\ \A c \in FileBytes[f] : known[i][c \div PieceLen] = "yes"
      BY <2>9, <3>1 DEF SeedInv, StoreTypes
    <3>3. f # e
      BY <2>2, <2>3, <2>4, <3>2
    <3> QED
      BY <2>6, <3>2, <3>3 DEF Places
  <2> QED
    BY <2>1, <2>5, <2>7, <2>8, <2>9 DEF SeedInv
<1>6. ASSUME NEW i \in Proc, CommitPiece(i) \/ \E p \in Piece : HashPiece(i, p)
      PROVE  SeedInv'
  <2>1. /\ UNCHANGED <<size, sel, phase, mine, pc, ses>>
        /\ \/ known' = known
           \/ \E p \in Piece : known' = [known EXCEPT ![i][p] = "yes"]
           \/ \E p \in Piece : known[i][p] # "yes" /\ known' = [known EXCEPT ![i][p] = "no"]
    <3>1. CASE CommitPiece(i)
      BY <3>1 DEF CommitPiece, HolderWorks, disk, task
    <3>2. CASE \E p \in Piece : HashPiece(i, p)
      BY <3>2 DEF HashPiece, disk, task
    <3> QED
      BY <1>6, <3>1, <3>2
  <2>2. \A j \in Proc, p \in Piece : known[j][p] = "yes" => known'[j][p] = "yes"
    BY <2>1 DEF StoreTypes
  <2>3. ASSUME NEW j \in Proc, NEW f \in sel, NEW b \in FileBytes[f],
               known[j][b \div PieceLen] = "yes"
        PROVE  known'[j][b \div PieceLen] = "yes"
    BY <2>2, <2>3, EntryUnique, PieceOf DEF StoreTypes
  <2> QED
    BY <2>1, <2>3 DEF SeedInv
<1>7. ASSUME NEW i \in Proc, Sample(i)
      PROVE  SeedInv'
  <2>1. /\ pc[i] = "live" /\ mine = i /\ UNCHANGED <<size, sel, mine, known, ses>>
        /\ phase' = IF Complete(i) THEN "seeding" ELSE "downloading"
        /\ pc' = pc \/ pc' = [pc EXCEPT ![i] = "closing"]
        /\ ses[i] = sel /\ pc[i] \in Open
    BY <1>7 DEF Sample, Report, Close, disk, StoreInv, Told, Open
  <2>2. \A j \in Proc : /\ pc'[j] \in Open => pc[j] \in Open
                        /\ j = i => pc'[j] \in {"live", "closing"}
    BY <1>p, <2>1 DEF Open
  <2>3. phase' = "seeding" =>
          \A f \in sel : /\ size[f]["title"] = FileLen[f]
                         /\ \A b \in FileBytes[f] : known[i][b \div PieceLen] = "yes"
    BY <2>1, CompleteIsKnown
  <2> QED
    BY <2>1, <2>2, <2>3 DEF SeedInv
<1>8. ASSUME NEW i \in Proc, CtxDone(i)
      PROVE  SeedInv'
  <2>1. /\ pc[i] = "live" /\ UNCHANGED <<size, sel, mine, known, ses>>
        /\ phase' = phase \/ mine = i
        /\ pc' = [pc EXCEPT ![i] = "closing"]
    BY <1>8 DEF CtxDone, Close, disk
  <2>2. pc'[i] = "closing" /\ \A j \in Proc : j # i => pc'[j] = pc[j]
    BY <1>p, <2>1
  <2> QED
    BY <2>1, <2>2 DEF SeedInv, Open
<1>9. CASE Cancel \/ Save \/ UNCHANGED vars
  <2>1. UNCHANGED <<size, sel, phase, known, pc, ses, mine>>
    BY <1>9 DEF Cancel, Save, vars, disk, task, engine
  <2> QED
    BY <2>1, SeedStays
<1>13. CASE AppCrash \/ \E s \in SUBSET File : SetFilePriorities(s)
  <2>1. UNCHANGED <<size, ses, pc>> /\ mine' = None
    BY <1>13 DEF AppCrash, SetFilePriorities, disk, engine
  <2> QED
    BY <2>1, SeedLeft
<1>10. ASSUME \A f \in File, at \in Places : size'[f][at] >= Absent, \A i \in Proc : pc'[i] = "none"
       PROVE  SeedInv'
  BY <1>10 DEF SeedInv, Open
<1>11. CASE PowerLoss
  <2>1. size' = size /\ \A i \in Proc : pc'[i] = "none"
    BY <1>11 DEF PowerLoss, LosePower
  <2> QED
    BY <1>10, <2>1 DEF SeedInv
<1>12. ASSUME NEW s \in SUBSET File, Redownload(s)
       PROVE  SeedInv'
  <2>1. RemoveFiles(s) /\ \A i \in Proc : pc'[i] = "none"
    BY <1>12 DEF Redownload, NoRuntime
  <2>2. \A f \in File, at \in Places : size'[f][at] >= Absent
    BY <2>1 DEF RemoveFiles, SeedInv, Absent
  <2> QED
    BY <1>10, <2>1, <2>2
<1> QED
  BY <1>1, <1>2, <1>3, <1>4, <1>5, <1>6, <1>7, <1>8, <1>9, <1>11, <1>12,
     <1>13 DEF Next, Runtime

\* A task shown as seeding has every selected file in full length and with the
\* right bytes under its title, under the same condition on the selection.
THEOREM WholeWhenSeedingHolds ==
  ASSUME MoveBack = FALSE
  PROVE  Spec => []WholeWhenSeeding
<1> DEFINE I == HolderWorks /\ StoreTypes /\ StoreInv /\ SeedInv
<1>1. Init => I
  <2>1. ASSUME Init
        PROVE  SeedInv
    <3>1. \A f \in File, at \in Places : size[f][at] = Absent
      BY <2>1 DEF Init
    <3>2. \A i \in Proc : pc[i] = "none"
      BY <2>1 DEF Init
    <3>3. Absent >= Absent
      BY DEF Absent
    <3> QED
      BY <3>1, <3>2, <3>3 DEF SeedInv, Open
  <2> QED
    BY <2>1, HolderInitial, StoreInitial
<1>2. I /\ [Next]_vars => I'
  BY HolderInductive, StoreTypesStep, StoreStep, SeedStep
<1>3. I => WholeWhenSeeding
  <2> SUFFICES ASSUME I, NEW i \in Proc, pc[i] = "live", mine = i, phase = "seeding", NEW f \in sel
               PROVE  size[f]["title"] = FileLen[f] /\ FileBytes[f] \subseteq good[f]["title"]
    BY DEF WholeWhenSeeding
  <2>1. /\ size[f]["title"] = FileLen[f] /\ f \in File
        /\ \A b \in FileBytes[f] : known[i][b \div PieceLen] = "yes"
    BY DEF SeedInv, StoreTypes
  <2>3. PICK s \in SUBSET File : LaidBy(s)
    BY DEF StoreInv
  <2>4. ses[i] = sel /\ s = sel
    BY <2>3 DEF StoreInv, Told, LaidBy, Sessions, Open
  <2>2. ASSUME NEW b \in FileBytes[f]
        PROVE  b \in good[f]["title"]
    <3> DEFINE p == b \div PieceLen
    <3>1. b \in 0 .. Total - 1 /\ EntryAt[b] = f
      BY <2>1, EntryUnique
    <3>2. p \in Piece /\ b \in PieceBytes[p]
      BY <3>1, PieceOf
    <3>3. db[p] = "yes"
      BY <2>1, <2>3 DEF LaidBy, Sessions, Open
    <3> HIDE DEF p
    <3>4. Kept(sel, p)
      BY <2>3, <2>4, <3>2, <3>3 DEF LaidBy, Checkpoint, Open
    <3> QED
      BY <3>1, <3>2, <3>4 DEF Kept, Safe, StoragePath
  <2> QED
    BY <2>1, <2>2
<1> QED
  BY <1>1, <1>2, <1>3, PTL DEF Spec
=============================================================================
