------------------------------ MODULE HttpProofs ------------------------------
(***************************************************************************)
(* Theorems about the HTTP worker (HttpDownload), for every size, every    *)
(* number of parts, all lengths of reads and all bounds: what the record   *)
(* counts is in the file, and a completed download is whole.               *)
(***************************************************************************)
EXTENDS HttpDownload, WellFoundedInduction, SequenceTheorems, TLAPS

\* Parts that are cut like those of the task s, and of which the file, with the bytes d,
\* has what they count as downloaded
LaidIn(ps, s, d) ==
  LET cut == Generate(s)
  IN  /\ ps \in Seq(Part) /\ Len(ps) = Len(cut)
      /\ \A i \in DOMAIN ps :
           /\ ps[i].start = cut[i].start /\ ps[i].end = cut[i].end
           /\ ps[i].start <= ps[i].progress /\ ps[i].progress <= s.total
           /\ ps[i].end # UnknownSize => ps[i].progress <= ps[i].end + 1
           /\ ps[i].start .. ps[i].progress - 1 \subseteq d
Laid(ps) == LaidIn(ps, stage, data)

Places == {"head", "request", "copy", "wrote", "sleep", "done", "failed", "stopped"}

\* Where the goroutine of a part is
PartInv(i) ==
  LET p == parts[i]
  IN  /\ pc[i] \in {"copy", "wrote"} => reply[i] < stage.total
      /\ pc[i] = "wrote" =>
           /\ p.progress .. p.progress + chunk[i] - 1 \subseteq data
           /\ p.progress + chunk[i] <= stage.total
           /\ p.end # UnknownSize => p.progress + chunk[i] <= p.end + 1
      /\ pc[i] = "done" => p.progress = IF p.end = UnknownSize THEN stage.total ELSE p.end + 1

RunningInv ==
  /\ Laid(parts)
  /\ pc \in [DOMAIN parts -> Places]
  /\ reply \in [DOMAIN parts -> Nat] /\ chunk \in [DOMAIN parts -> Nat]
  /\ \A i \in DOMAIN parts : PartInv(i)

HttpInv ==
  /\ stage \in Stages /\ stage.range /\ ~SlowTicker
  /\ data \subseteq Offset
  /\ record = <<>> \/ Laid(record)
  /\ \A r \in late : Laid(r)
  /\ run = "running" => RunningInv
  /\ run = "completed" => data = Offset

\* No part of a task of many parts ends at offset 0, which means an unknown end: a file
\* of known size has at least two bytes for each of its parts.
TwoBytes(s) == s.size <= 1 \/ s.size >= 2 * s.blocks

\* What is counted
CountInv ==
  /\ run = "running" => received = Downloaded(parts)
  /\ run = "completed" => received = stage.total

-----------------------------------------------------------------------------
(* How a task is cut into parts *)

\* A nonempty set of numbers has a least one.
LEMMA LeastNumber ==
  ASSUME NEW S \in SUBSET Nat, S # {}
  PROVE  \E x \in S : \A y \in S : x <= y
<1> DEFINE R == {ss \in Nat \X Nat : ss[1] < ss[2]}
<1>1. IsWellFoundedOn(R, Nat)
  BY NatLessThanWellFounded DEF OpToRel
<1>2. S \subseteq Nat /\ S # {}
  OBVIOUS
<1> HIDE DEF R
<1>3. PICK x \in S : \A y \in S : ~(<<y, x>> \in R)
  BY <1>1, <1>2, WFMin
<1>4. \A y \in S : x <= y
  <2> SUFFICES ASSUME NEW y \in S PROVE x <= y
    OBVIOUS
  <2>1. x \in Nat /\ y \in Nat
    BY <1>2
  <2>2. ~(y < x)
    BY <1>3, <2>1 DEF R
  <2> QED
    BY <2>1, <2>2
<1> QED
  BY <1>4

\* The quotient that cuts a file: all the arithmetic that is not linear.
LEMMA Quotient ==
  ASSUME NEW a \in Nat, NEW n \in Nat \ {0}
  PROVE  /\ a \div n \in Nat
         /\ n * (a \div n) <= a
         /\ n <= a => a \div n >= 1
         /\ 2 * n <= a => a \div n >= 2
OBVIOUS

\* The offsets at which the parts start are multiples of the step.
LEMMA Multiples ==
  ASSUME NEW k \in Nat, NEW step \in Nat
  PROVE  /\ k * step \in Nat /\ (k + 1) * step = k * step + step
         /\ 0 * step = 0
OBVIOUS

\* A shorter stretch of parts is shorter.
LEMMA MultiplesGrow ==
  ASSUME NEW k \in Nat, NEW n \in Nat, NEW step \in Nat, k <= n
  PROVE  k * step <= n * step
OBVIOUS

\* The parts of a task, in order and without a gap
Cut(g, s) ==
  /\ g \in Seq(Part) /\ Len(g) >= 1
  /\ g[1].start = 0
  /\ \A i \in 1 .. Len(g) : g[i].progress = g[i].start /\ g[i].start <= g[i].end /\ g[i].end < s.total
  /\ s.size = 0 => Len(g) = 1 /\ g[1].end = UnknownSize
  /\ s.size # 0 =>
       /\ g[Len(g)].end = s.total - 1
       /\ \A i \in 1 .. Len(g) - 1 : g[i + 1].start = g[i].end + 1
  /\ TwoBytes(s) => Len(g) = 1 \/ \A i \in 1 .. Len(g) : g[i].end # UnknownSize

\* generate cuts every task so.
LEMMA GenerateCuts ==
  ASSUME NEW s \in Stages, s.range
  PROVE  Cut(Generate(s), s)
<1> DEFINE n == Least(s.blocks, s.size)
           step == s.size \div n
           g == Generate(s)
<1>1. /\ s.size \in Nat /\ s.total \in Nat /\ s.total >= 1 /\ s.blocks \in Nat /\ s.blocks >= 1
      /\ s.size \in {0, s.total}
  BY HttpAssumption
<1>2. CASE s.size = 0
  <2>1. g = <<[start |-> 0, progress |-> 0, end |-> UnknownSize]>>
    BY <1>2 DEF Generate
  <2>2. [start |-> 0, progress |-> 0, end |-> UnknownSize] \in Part
    BY DEF Part, UnknownSize
  <2>3. g \in Seq(Part) /\ Len(g) = 1 /\ g[1] = [start |-> 0, progress |-> 0, end |-> UnknownSize]
    BY <2>1, <2>2
  <2> HIDE DEF g
  <2>4. \A i \in 1 .. Len(g) : i = 1
    BY <2>3
  <2>5. Cut(g, s)
    BY <1>1, <1>2, <2>3, <2>4 DEF Cut, UnknownSize
  <2> QED
    BY <2>5 DEF g
<1>3. CASE s.size # 0
  <2>1. s.size = s.total /\ n \in Nat /\ n >= 1 /\ n <= s.size
    BY <1>1, <1>3 DEF Least
  <2>2. n # 0 /\ n \in Nat \ {0}
    BY <2>1
  <2> HIDE DEF n
  <2>3. step \in Nat /\ step >= 1 /\ n * step <= s.size
    BY <1>1, <2>1, <2>2, Quotient
  <2>4. TwoBytes(s) => n = 1 \/ step >= 2
    <3>1. CASE s.size <= 1
      BY <1>1, <2>1, <3>1
    <3>2. CASE s.size >= 2 * s.blocks
      <4>1. n = s.blocks
        BY <1>1, <3>2 DEF n, Least
      <4> QED
        BY <1>1, <2>2, <3>2, <4>1, Quotient
    <3> QED
      BY <3>1, <3>2 DEF TwoBytes
  <2>5. g = [i \in 1 .. n |->
             [start |-> (i - 1) * step, progress |-> (i - 1) * step,
              end |-> IF i = n THEN s.size - 1 ELSE i * step - 1]]
    BY <1>3 DEF Generate, n
  <2> HIDE DEF g, step
  <2>6. ASSUME NEW i \in 1 .. n
        PROVE  /\ (i - 1) * step \in Nat /\ i * step \in Nat /\ i * step = (i - 1) * step + step
               /\ i * step <= n * step /\ n * step \in Nat
    <3>1. i \in Nat /\ i - 1 \in Nat /\ (i - 1) + 1 = i /\ i <= n
      BY <2>1
    <3> QED
      BY <2>1, <2>3, <3>1, Multiples, MultiplesGrow
  <2>7. ASSUME NEW i \in 1 .. n
        PROVE  /\ g[i] \in Part
               /\ g[i].progress = g[i].start /\ g[i].start = (i - 1) * step
               /\ g[i].end = IF i = n THEN s.size - 1 ELSE i * step - 1
               /\ g[i].start <= g[i].end /\ g[i].end < s.total
               /\ TwoBytes(s) /\ n # 1 => g[i].end # UnknownSize
    <3>1. /\ g[i].progress = g[i].start /\ g[i].start = (i - 1) * step
          /\ g[i].end = IF i = n THEN s.size - 1 ELSE i * step - 1
      BY <2>5
    <3>2. g[i] \in Part
      BY <1>1, <2>5, <2>6 DEF Part
    <3>3. g[i].start <= g[i].end /\ g[i].end < s.total
      <4> DEFINE a == (i - 1) * step
                 b == i * step
                 c == n * step
      <4>1. a \in Nat /\ b \in Nat /\ b = a + step /\ b <= c /\ c \in Nat /\ c <= s.size
        BY <2>3, <2>6
      <4>2. g[i].start = a /\ g[i].end = IF i = n THEN s.size - 1 ELSE b - 1
        BY <3>1
      <4> HIDE DEF a, b, c
      <4> QED
        BY <1>1, <2>1, <2>3, <4>1, <4>2
    <3>4. TwoBytes(s) /\ n # 1 => g[i].end # UnknownSize
      BY <1>1, <2>1, <2>3, <2>4, <2>6, <3>1 DEF UnknownSize
    <3> QED
      BY <3>1, <3>2, <3>3, <3>4
  <2>8. g \in Seq(Part) /\ Len(g) = n
    <3>1. \A i \in 1 .. n : g[i] \in Part
      BY <2>7
    <3> QED
      BY <2>1, <2>5, <3>1
  <2>9. g[1].start = 0
    <3>1. 1 \in 1 .. n /\ 1 - 1 = 0
      BY <2>1
    <3> QED
      BY <2>3, <2>7, <3>1, Multiples
  <2>10. g[n].end = s.total - 1
    <3>1. n \in 1 .. n
      BY <2>1
    <3> QED
      BY <2>1, <2>7, <3>1
  <2>11. ASSUME NEW i \in 1 .. n - 1
         PROVE  g[i + 1].start = g[i].end + 1
    <3>1. i \in 1 .. n /\ i + 1 \in 1 .. n /\ i # n /\ (i + 1) - 1 = i
      BY <2>1
    <3>2. g[i + 1].start = i * step /\ g[i].end = i * step - 1
      BY <2>7, <3>1
    <3> QED
      BY <2>6, <3>1, <3>2
  <2>12. Cut(g, s)
    BY <1>3, <2>1, <2>7, <2>8, <2>9, <2>10, <2>11 DEF Cut
  <2> QED
    BY <2>12 DEF g
<1> QED
  BY <1>2, <1>3

-----------------------------------------------------------------------------
(* The bytes *)

\* What the parts of a run or of a record have of the cut
LEMMA LaidParts ==
  ASSUME stage \in Stages, stage.range, NEW ps, Laid(ps)
  PROVE  /\ ps \in Seq(Part) /\ Len(ps) = Len(Generate(stage)) /\ Len(ps) \in Nat /\ Len(ps) >= 1
         /\ DOMAIN ps = 1 .. Len(ps)
         /\ stage.total \in Nat /\ stage.total >= 1
         /\ \A i \in 1 .. Len(ps) :
              /\ ps[i] \in Part
              /\ ps[i].start \in Nat /\ ps[i].progress \in Nat /\ ps[i].end \in Nat
              /\ ps[i].start = Generate(stage)[i].start /\ ps[i].end = Generate(stage)[i].end
              /\ ps[i].start <= ps[i].end /\ ps[i].end < stage.total
              /\ ps[i].start <= ps[i].progress /\ ps[i].progress <= stage.total
              /\ ps[i].end # UnknownSize => ps[i].progress <= ps[i].end + 1
              /\ ps[i].start .. ps[i].progress - 1 \subseteq data
<1> DEFINE g == Generate(stage)
<1>1. Cut(g, stage)
  BY GenerateCuts
<1>2. stage.total \in Nat /\ stage.total >= 1
  BY HttpAssumption
<1>3. /\ ps \in Seq(Part) /\ Len(ps) = Len(g)
      /\ \A i \in DOMAIN ps :
           /\ ps[i].start = g[i].start /\ ps[i].end = g[i].end
           /\ ps[i].start <= ps[i].progress /\ ps[i].progress <= stage.total
           /\ ps[i].end # UnknownSize => ps[i].progress <= ps[i].end + 1
           /\ ps[i].start .. ps[i].progress - 1 \subseteq data
  BY DEF Laid, LaidIn
<1> HIDE DEF g
<1>4. Len(ps) \in Nat /\ Len(ps) >= 1 /\ DOMAIN ps = 1 .. Len(ps) /\ \A i \in 1 .. Len(ps) : ps[i] \in Part
  BY <1>1, <1>3 DEF Cut
<1>5. ASSUME NEW i \in 1 .. Len(ps)
      PROVE  /\ ps[i].start \in Nat /\ ps[i].progress \in Nat /\ ps[i].end \in Nat
             /\ ps[i].start <= ps[i].end /\ ps[i].end < stage.total
  <2>1. ps[i].start \in Nat /\ ps[i].progress \in Nat /\ ps[i].end \in Int
    BY <1>4 DEF Part
  <2>2. ps[i].start = g[i].start /\ ps[i].end = g[i].end /\ g[i].start <= g[i].end /\ g[i].end < stage.total
    BY <1>1, <1>3, <1>4 DEF Cut
  <2> QED
    BY <2>1, <2>2
<1> QED
  BY <1>2, <1>3, <1>4, <1>5 DEF g

\* Where every part of a run is done
Done(ps) ==
  \A i \in DOMAIN ps : ps[i].progress = IF ps[i].end = UnknownSize THEN stage.total ELSE ps[i].end + 1

\* the file has every byte.
LEMMA DoneIsAll ==
  ASSUME stage \in Stages, stage.range, NEW ps, Laid(ps), Done(ps), data \subseteq Offset
  PROVE  data = Offset
<1> SUFFICES ASSUME NEW b \in Offset PROVE b \in data
  OBVIOUS
<1> DEFINE g == Generate(stage)
           n == Len(ps)
<1>1. Cut(g, stage)
  BY GenerateCuts
<1>2. /\ n = Len(g) /\ n \in Nat /\ n >= 1 /\ DOMAIN ps = 1 .. n
      /\ stage.total \in Nat /\ stage.total >= 1
      /\ \A i \in 1 .. n :
              /\ ps[i].start \in Nat /\ ps[i].progress \in Nat /\ ps[i].end \in Nat
              /\ ps[i].start = g[i].start /\ ps[i].end = g[i].end
              /\ ps[i].start <= ps[i].end /\ ps[i].end < stage.total
              /\ ps[i].start .. ps[i].progress - 1 \subseteq data
  BY LaidParts
<1>3. \A i \in 1 .. n : ps[i].progress = IF ps[i].end = UnknownSize THEN stage.total ELSE ps[i].end + 1
  BY <1>2 DEF Done
<1>4. b \in Nat /\ b < stage.total
  BY <1>2 DEF Offset
<1> HIDE DEF g, n
<1>5. ASSUME NEW i \in 1 .. n, ps[i].end = UnknownSize
      PROVE  b \in data
  <2>1. ps[i].start = 0 /\ ps[i].progress = stage.total
    BY <1>2, <1>3, <1>5 DEF UnknownSize
  <2>2. b \in ps[i].start .. ps[i].progress - 1
    BY <1>2, <1>4, <2>1
  <2> QED
    BY <1>2, <2>2
<1>6. CASE stage.size = 0
  <2>1. 1 \in 1 .. n /\ ps[1].end = UnknownSize
    BY <1>1, <1>2, <1>6 DEF Cut
  <2> QED
    BY <1>5, <2>1
<1>7. CASE stage.size # 0
  <2> DEFINE S == {i \in 1 .. n : b <= ps[i].end}
  <2>1. n \in S
    BY <1>1, <1>2, <1>4, <1>7 DEF Cut
  <2>2. S \in SUBSET Nat
    OBVIOUS
  <2>3. PICK i \in S : \A j \in S : i <= j
    BY <2>1, <2>2, LeastNumber
  <2>4. i \in 1 .. n /\ b <= ps[i].end
    BY <2>3
  <2>5. ps[i].start <= b
    <3>1. CASE i = 1
      BY <1>1, <1>2, <1>4, <2>4, <3>1 DEF Cut
    <3>2. CASE i # 1
      <4>1. i - 1 \in 1 .. n - 1 /\ i - 1 \in 1 .. n /\ (i - 1) + 1 = i /\ ~(i <= i - 1)
        BY <1>2, <2>4, <3>2
      <4>2. ~(b <= ps[i - 1].end)
        BY <2>3, <4>1
      <4>3. g[(i - 1) + 1].start = g[i - 1].end + 1
        BY <1>1, <1>2, <1>7, <4>1 DEF Cut
      <4>4. ps[i].start = ps[i - 1].end + 1
        BY <1>2, <2>4, <4>1, <4>3
      <4> QED
        BY <1>2, <1>4, <2>4, <4>1, <4>2, <4>4
    <3> QED
      BY <3>1, <3>2
  <2>6. CASE ps[i].end # UnknownSize
    <3>1. ps[i].progress = ps[i].end + 1
      BY <1>3, <2>4, <2>6
    <3>2. b \in ps[i].start .. ps[i].progress - 1
      BY <1>2, <1>4, <2>4, <2>5, <3>1
    <3> QED
      BY <1>2, <2>4, <3>2
  <2> QED
    BY <1>5, <2>4, <2>6
<1> QED
  BY <1>6, <1>7

\* Bytes that are written later do no harm to a record.
LEMMA LaidGrows ==
  ASSUME NEW ps, NEW s, NEW d, NEW e, LaidIn(ps, s, d), d \subseteq e
  PROVE  LaidIn(ps, s, e)
  BY DEF LaidIn

\* Fresh parts need no bytes.
LEMMA FreshLaid ==
  ASSUME stage \in Stages, stage.range
  PROVE  Laid(Generate(stage)) /\ Generate(stage) # <<>>
<1> DEFINE g == Generate(stage)
<1>1. Cut(g, stage)
  BY GenerateCuts
<1>2. stage.total \in Nat
  BY HttpAssumption
<1>g. g = Generate(stage)
  OBVIOUS
<1> HIDE DEF g
<1>3. g \in Seq(Part) /\ DOMAIN g = 1 .. Len(g) /\ Len(g) >= 1
  BY <1>1 DEF Cut
<1>4. ASSUME NEW i \in DOMAIN g
      PROVE  /\ g[i].start <= g[i].progress /\ g[i].progress <= stage.total
             /\ g[i].end # UnknownSize => g[i].progress <= g[i].end + 1
             /\ g[i].start .. g[i].progress - 1 \subseteq data
  <2>0. g[i] \in Part
    BY <1>3
  <2>1. g[i].start \in Nat /\ g[i].progress \in Nat /\ g[i].end \in Int
    BY <2>0 DEF Part
  <2>2. g[i].progress = g[i].start /\ g[i].start <= g[i].end /\ g[i].end < stage.total
    BY <1>1, <1>3 DEF Cut
  <2>3. g[i].start .. g[i].progress - 1 = {}
    BY <2>1, <2>2
  <2> QED
    BY <1>2, <2>1, <2>2, <2>3
<1>5. LaidIn(g, stage, data)
  BY <1>3, <1>4, <1>g DEF LaidIn
<1>6. g # <<>>
  BY <1>3
<1> QED
  BY <1>5, <1>6, <1>g DEF Laid

\* A step of one part leaves the others where they are.
LEMMA OtherParts ==
  ASSUME HttpInv, run = "running", NEW i \in DOMAIN parts,
         stage' = stage, data \subseteq data', LaidIn(parts', stage, data'),
         DOMAIN parts' = DOMAIN parts,
         pc' \in [DOMAIN parts -> Places],
         reply' \in [DOMAIN parts -> Nat], chunk' \in [DOMAIN parts -> Nat],
         \A j \in DOMAIN parts \ {i} :
           parts'[j] = parts[j] /\ pc'[j] = pc[j] /\ reply'[j] = reply[j] /\ chunk'[j] = chunk[j],
         PartInv(i)'
  PROVE  RunningInv'
<1>1. ASSUME NEW j \in DOMAIN parts, j # i
      PROVE  PartInv(j)'
  <2>1. PartInv(j)
    BY DEF HttpInv, RunningInv
  <2> QED
    BY <1>1, <2>1 DEF PartInv
<1> QED
  BY <1>1 DEF RunningInv, Laid

\* The part that is at work, as the invariant has it
LEMMA WorkingPart ==
  ASSUME HttpInv, run = "running", NEW i \in DOMAIN parts
  PROVE  /\ LaidIn(parts, stage, data) /\ parts \in Seq(Part)
         /\ pc \in [DOMAIN parts -> Places] /\ reply \in [DOMAIN parts -> Nat] /\ chunk \in [DOMAIN parts -> Nat]
         /\ PartInv(i) /\ reply[i] \in Nat /\ chunk[i] \in Nat
         /\ stage.total \in Nat /\ stage.total >= 1 /\ stage.range
         /\ parts[i] \in Part
         /\ parts[i].start \in Nat /\ parts[i].progress \in Nat /\ parts[i].end \in Nat
         /\ parts[i].end < stage.total /\ parts[i].start <= parts[i].progress
         /\ parts[i].progress <= stage.total
         /\ parts[i].end # UnknownSize => parts[i].progress <= parts[i].end + 1
<1>1. stage \in Stages /\ stage.range /\ RunningInv
  BY DEF HttpInv
<1>2. Laid(parts) /\ pc \in [DOMAIN parts -> Places] /\ PartInv(i)
      /\ reply \in [DOMAIN parts -> Nat] /\ chunk \in [DOMAIN parts -> Nat]
  BY <1>1 DEF RunningInv
<1> QED
  BY <1>1, <1>2, LaidParts DEF Laid

\* A step that moves a goroutine only
LEMMA MovesInv ==
  ASSUME HttpInv, run = "running", NEW i \in DOMAIN parts, NEW where \in Places,
         UNCHANGED <<stage, data, parts, chunk>>, pc' = [pc EXCEPT ![i] = where],
         reply' \in [DOMAIN parts -> Nat], \A j \in DOMAIN parts \ {i} : reply'[j] = reply[j],
         where = "done" => parts[i].progress = IF parts[i].end = UnknownSize THEN stage.total ELSE parts[i].end + 1,
         where = "copy" => reply'[i] < stage.total,
         where # "wrote"
  PROVE  RunningInv'
<1>1. LaidIn(parts, stage, data) /\ pc \in [DOMAIN parts -> Places] /\ chunk \in [DOMAIN parts -> Nat]
  BY WorkingPart
<1>2. pc' \in [DOMAIN parts -> Places] /\ pc'[i] = where /\ \A j \in DOMAIN parts \ {i} : pc'[j] = pc[j]
  BY <1>1
<1>3. PartInv(i)'
  BY <1>2 DEF PartInv
<1> QED
  BY <1>1, <1>2, <1>3, OtherParts

\* A failure sends the goroutine to its pause, or ends it.
LEMMA RetryMoves ==
  ASSUME NEW i \in DOMAIN parts, NEW m, Retry(i, m)
  PROVE  \E where \in {"stopped", "failed", "sleep"} : pc' = [pc EXCEPT ![i] = where]
  BY DEF Retry, Goto

\* What a goroutine of a part does to the file, and what it does not
Grows ==
  /\ data \subseteq data' /\ data' \subseteq Offset
  /\ UNCHANGED <<stage, run, record, late>>

\* One read and write: the bytes follow those of the part, up to its end.
LEMMA WriteInv ==
  ASSUME HttpInv, NEW i, Write(i)
  PROVE  RunningInv' /\ Grows
<1>1. /\ run = "running" /\ i \in DOMAIN parts /\ pc[i] = "copy"
      /\ UNCHANGED <<stage, run, record, late, parts, reply>> /\ pc' = [pc EXCEPT ![i] = "wrote"]
  BY DEF Write, At, Goto, partRest, runRest
<1> DEFINE p == parts[i]
<1>2. PICK n \in 1 .. MaxChunk :
        LET size == IF stage.range /\ p.end > 0 THEN Least(n, p.end - p.progress + 1) ELSE n
        IN  /\ p.progress + n - 1 <= reply[i]
            /\ data' = data \cup (p.progress .. p.progress + size - 1)
            /\ chunk' = [chunk EXCEPT ![i] = size]
  BY DEF Write
<1> DEFINE size == IF stage.range /\ p.end > 0 THEN Least(n, p.end - p.progress + 1) ELSE n
<1>3. /\ p.progress + n - 1 <= reply[i]
      /\ data' = data \cup (p.progress .. p.progress + size - 1)
      /\ chunk' = [chunk EXCEPT ![i] = size]
  BY <1>2
<1>4. n \in Nat /\ n >= 1
  BY HttpAssumption
<1>5. /\ LaidIn(parts, stage, data) /\ pc \in [DOMAIN parts -> Places]
      /\ reply \in [DOMAIN parts -> Nat] /\ chunk \in [DOMAIN parts -> Nat]
      /\ PartInv(i) /\ reply[i] \in Nat /\ stage.total \in Nat /\ stage.range
      /\ p.progress \in Nat /\ p.end \in Nat /\ p.end < stage.total
      /\ p.end # UnknownSize => p.progress <= p.end + 1
  BY <1>1, WorkingPart
<1>6. reply[i] < stage.total
  BY <1>1, <1>5 DEF PartInv
<1> HIDE DEF p
<1>7. /\ size \in Nat /\ p.progress + size <= stage.total
      /\ p.end # UnknownSize => p.progress + size <= p.end + 1
  BY <1>3, <1>4, <1>5, <1>6 DEF Least, UnknownSize
<1> HIDE DEF size
<1>8. data \subseteq data' /\ data' \subseteq Offset
  <2>1. p.progress .. p.progress + size - 1 \subseteq Offset
    BY <1>5, <1>7 DEF Offset
  <2>2. data \subseteq Offset
    BY DEF HttpInv
  <2> QED
    BY <1>3, <2>1, <2>2
<1>9. LaidIn(parts', stage, data')
  BY <1>1, <1>5, <1>8, LaidGrows
<1>10. /\ pc' \in [DOMAIN parts -> Places] /\ pc'[i] = "wrote"
       /\ chunk' \in [DOMAIN parts -> Nat] /\ chunk'[i] = size
       /\ \A j \in DOMAIN parts \ {i} : pc'[j] = pc[j] /\ chunk'[j] = chunk[j]
  BY <1>1, <1>3, <1>5, <1>7 DEF Places
<1>11. PartInv(i)'
  <2>1. /\ p.progress .. p.progress + size - 1 \subseteq data'
    BY <1>3
  <2> QED
    BY <1>1, <1>6, <1>7, <1>10, <2>1 DEF PartInv, p
<1>12. RunningInv'
  BY <1>1, <1>5, <1>8, <1>9, <1>10, <1>11, OtherParts
<1> QED
  BY <1>1, <1>8, <1>12 DEF Grows

\* A part with more progress, and the parts with it
LEMMA Progressed ==
  ASSUME NEW p \in Part, NEW c \in Nat
  PROVE  LET q == [p EXCEPT !.progress = p.progress + c]
         IN  q \in Part /\ q.start = p.start /\ q.end = p.end /\ q.progress = p.progress + c
  BY DEF Part

\* A goroutine changes its own part and leaves the others.
LEMMA OneReplaced ==
  ASSUME NEW S, NEW s \in Seq(S), NEW i \in DOMAIN s, NEW q \in S
  PROVE  LET t == [s EXCEPT ![i] = q]
         IN  t \in Seq(S) /\ Len(t) = Len(s) /\ DOMAIN t = DOMAIN s /\ t[i] = q
             /\ \A j \in DOMAIN s \ {i} : t[j] = s[j]
  BY ExceptSeq

\* The progress of a part grows over bytes that are written.
LEMMA AdvanceInv ==
  ASSUME HttpInv, NEW i, Advance(i)
  PROVE  RunningInv' /\ Grows
<1>1. /\ run = "running" /\ i \in DOMAIN parts /\ pc[i] = "wrote"
      /\ UNCHANGED <<stage, run, record, late, data>>
      /\ parts' = [parts EXCEPT ![i].progress = @ + chunk[i]]
      /\ chunk' = [chunk EXCEPT ![i] = 0]
      /\ pc' = [pc EXCEPT ![i] = IF stage.range /\ parts[i].end > 0 /\ parts'[i].progress > parts[i].end
                                 THEN "done" ELSE "copy"]
      /\ reply' = IF pc'[i] = "done" THEN [reply EXCEPT ![i] = 0] ELSE reply
  BY DEF Advance, At, Goto, Closed, partRest, runRest
<1> DEFINE p == parts[i]
           q == [p EXCEPT !.progress = p.progress + chunk[i]]
<1>2. /\ LaidIn(parts, stage, data) /\ parts \in Seq(Part)
      /\ pc \in [DOMAIN parts -> Places] /\ reply \in [DOMAIN parts -> Nat] /\ chunk \in [DOMAIN parts -> Nat]
      /\ PartInv(i) /\ chunk[i] \in Nat /\ stage.total \in Nat /\ stage.range /\ p \in Part
      /\ p.start \in Nat /\ p.progress \in Nat /\ p.end \in Nat /\ p.start <= p.progress
  BY <1>1, WorkingPart
<1>3. /\ p.progress .. p.progress + chunk[i] - 1 \subseteq data
      /\ p.progress + chunk[i] <= stage.total
      /\ p.end # UnknownSize => p.progress + chunk[i] <= p.end + 1
      /\ reply[i] < stage.total
  BY <1>1, <1>2 DEF PartInv
<1>4. /\ q \in Part /\ q.start = p.start /\ q.end = p.end /\ q.progress = p.progress + chunk[i]
  <2> HIDE DEF p
  <2> QED
    BY <1>2, Progressed
<1>5. parts' = [parts EXCEPT ![i] = q]
  BY <1>1
<1>6. parts' \in Seq(Part) /\ Len(parts') = Len(parts) /\ DOMAIN parts' = DOMAIN parts /\ parts'[i] = q
      /\ \A j \in DOMAIN parts \ {i} : parts'[j] = parts[j]
  <2>1. parts \in Seq(Part) /\ i \in DOMAIN parts /\ q \in Part
    BY <1>1, <1>2, <1>4
  <2> HIDE DEF q
  <2> QED
    BY <1>5, <2>1, OneReplaced
<1> HIDE DEF p, q
<1>7. q.start .. q.progress - 1 \subseteq data
  <2>1. p.start .. p.progress - 1 \subseteq data
    BY <1>1, <1>2 DEF LaidIn, p
  <2>2. q.start .. q.progress - 1 \subseteq (p.start .. p.progress - 1) \cup (p.progress .. p.progress + chunk[i] - 1)
    BY <1>2, <1>4
  <2> QED
    BY <1>3, <2>1, <2>2
<1>8. LaidIn(parts', stage, data')
  <2> DEFINE g == Generate(stage)
  <2>1. /\ Len(parts) = Len(g)
        /\ \A j \in DOMAIN parts :
           /\ parts[j].start = g[j].start /\ parts[j].end = g[j].end
           /\ parts[j].start <= parts[j].progress /\ parts[j].progress <= stage.total
           /\ parts[j].end # UnknownSize => parts[j].progress <= parts[j].end + 1
           /\ parts[j].start .. parts[j].progress - 1 \subseteq data
    BY <1>2 DEF LaidIn
  <2> HIDE DEF g
  <2>2. /\ q.start = g[i].start /\ q.end = g[i].end
        /\ q.start <= q.progress /\ q.progress <= stage.total
        /\ q.end # UnknownSize => q.progress <= q.end + 1
    BY <1>1, <1>2, <1>3, <1>4, <2>1 DEF p
  <2>3. ASSUME NEW j \in DOMAIN parts'
        PROVE  /\ parts'[j].start = g[j].start /\ parts'[j].end = g[j].end
               /\ parts'[j].start <= parts'[j].progress /\ parts'[j].progress <= stage.total
               /\ parts'[j].end # UnknownSize => parts'[j].progress <= parts'[j].end + 1
               /\ parts'[j].start .. parts'[j].progress - 1 \subseteq data'
    <3>1. CASE j = i
      BY <1>1, <1>6, <1>7, <2>2, <3>1
    <3>2. CASE j # i
      BY <1>1, <1>6, <2>1, <3>2
    <3> QED
      BY <3>1, <3>2
  <2> QED
    BY <1>6, <2>1, <2>3 DEF LaidIn, g
<1>9. /\ pc' \in [DOMAIN parts -> Places] /\ chunk' \in [DOMAIN parts -> Nat]
      /\ reply' \in [DOMAIN parts -> Nat]
      /\ \A j \in DOMAIN parts \ {i} : pc'[j] = pc[j] /\ chunk'[j] = chunk[j] /\ reply'[j] = reply[j]
      /\ pc'[i] = IF stage.range /\ p.end > 0 /\ q.progress > p.end THEN "done" ELSE "copy"
      /\ pc'[i] # "done" => reply'[i] = reply[i]
  BY <1>1, <1>2, <1>6 DEF Places, p
<1>10. PartInv(i)'
  <2>1. pc'[i] = "done" => q.progress = q.end + 1 /\ q.end # UnknownSize
    BY <1>2, <1>3, <1>4, <1>9 DEF UnknownSize
  <2>2. pc'[i] = "copy" => reply'[i] < stage.total
    BY <1>3, <1>4, <1>9
  <2>3. pc'[i] \in {"done", "copy"}
    BY <1>9
  <2> QED
    BY <1>1, <1>6, <2>1, <2>2, <2>3 DEF PartInv
<1>11. RunningInv'
  BY <1>1, <1>6, <1>8, <1>9, <1>10, OtherParts
<1> QED
  BY <1>1, <1>11 DEF Grows, HttpInv

\* The steps of a goroutine that leave the file and the progress alone
LEMMA MoveInv ==
  ASSUME HttpInv, NEW i,
         LoopHead(i) \/ Respond(i) \/ Refuse(i) \/ Eof(i) \/ Break(i) \/ Wake(i),
         unseen' = {}
  PROVE  RunningInv' /\ Grows /\ UNCHANGED <<parts, received>>
<1>1. run = "running" /\ i \in DOMAIN parts
  BY DEF LoopHead, Respond, Refuse, Eof, Break, Wake, At
<1> DEFINE p == parts[i]
<1>2. /\ PartInv(i) /\ reply \in [DOMAIN parts -> Nat] /\ stage.total \in Nat /\ stage.total >= 1
      /\ stage.range /\ p.progress \in Nat /\ p.end \in Nat /\ p.progress <= stage.total
      /\ p.end # UnknownSize => p.progress <= p.end + 1
  BY <1>1, WorkingPart
<1> HIDE DEF p
<1>3. UNCHANGED <<stage, run, record, late, parts, received, data, chunk>>
  BY <1>2 DEF LoopHead, Respond, Refuse, Eof, Break, Wake, partRest, runRest
<1>4. Grows
  BY <1>3 DEF Grows, HttpInv
<1>a. [reply EXCEPT ![i] = 0] \in [DOMAIN parts -> Nat]
  BY <1>2
<1>5. CASE LoopHead(i)
  <2> DEFINE where == IF p.end # UnknownSize /\ p.progress > p.end THEN "done" ELSE "request"
  <2>1. pc' = [pc EXCEPT ![i] = where] /\ reply' = reply
    BY <1>3, <1>5 DEF LoopHead, Goto, p
  <2>2. where \in Places /\ where \notin {"copy", "wrote"}
        /\ (where = "done" => p.progress = IF p.end = UnknownSize THEN stage.total ELSE p.end + 1)
    BY <1>2 DEF Places
  <2> HIDE DEF where
  <2> QED
    BY <1>1, <1>2, <1>3, <1>4, <2>1, <2>2, MovesInv DEF p
<1>6. CASE Respond(i)
  <2>1. PICK last \in p.progress .. stage.total - 1 :
          reply' = [reply EXCEPT ![i] = last]
    BY <1>6 DEF Respond, p
  <2>2. pc' = [pc EXCEPT ![i] = "copy"]
    BY <1>6 DEF Respond, Goto
  <2>3. last \in Nat /\ last < stage.total
    BY <1>2, <2>1
  <2>4. /\ reply' \in [DOMAIN parts -> Nat] /\ reply'[i] = last
        /\ \A j \in DOMAIN parts \ {i} : reply'[j] = reply[j]
    BY <1>1, <1>2, <2>1, <2>3
  <2>5. "copy" \in Places
    BY DEF Places
  <2> QED
    BY <1>1, <1>3, <1>4, <2>1, <2>2, <2>3, <2>4, <2>5, MovesInv DEF p
<1>7. CASE Refuse(i) \/ Break(i) \/ (Eof(i) /\ ~PartComplete(i))
  <2>1. PICK where \in {"stopped", "failed", "sleep"} : pc' = [pc EXCEPT ![i] = where]
    BY <1>1, <1>7, RetryMoves DEF Refuse, Break, Eof
  <2>2. where \in Places /\ where \notin {"copy", "wrote", "done"}
    BY DEF Places
  <2>3. reply' \in {reply, [reply EXCEPT ![i] = 0]}
    BY <1>7 DEF Refuse, Break, Eof, Closed
  <2>4. reply' \in [DOMAIN parts -> Nat] /\ \A j \in DOMAIN parts \ {i} : reply'[j] = reply[j]
    BY <1>2, <1>a, <2>3
  <2> QED
    BY <1>1, <1>3, <1>4, <2>1, <2>2, <2>4, MovesInv
<1>8. CASE Eof(i) /\ PartComplete(i)
  <2>1. pc' = [pc EXCEPT ![i] = "done"] /\ reply' = [reply EXCEPT ![i] = 0] /\ pc[i] = "copy"
        /\ p.progress > reply[i]
    BY <1>8 DEF Eof, Goto, Closed, At, p
  <2>2. p.end = UnknownSize \/ p.progress > p.end
    BY <1>2, <1>8 DEF PartComplete, p
  <2>3. p.end = UnknownSize => reply[i] = stage.total - 1
    <3>1. reply[i] \in Nat /\ reply[i] < stage.total
      BY <1>1, <1>2, <2>1 DEF PartInv
    <3>2. ~(p.end = UnknownSize /\ reply[i] < stage.total - 1)
      BY <1>8 DEF Eof, p
    <3> QED
      BY <1>2, <3>1, <3>2
  <2>4. p.progress = IF p.end = UnknownSize THEN stage.total ELSE p.end + 1
    BY <1>2, <2>1, <2>2, <2>3
  <2>5. "done" \in Places /\ \A j \in DOMAIN parts \ {i} : reply'[j] = reply[j]
    BY <1>2, <2>1 DEF Places
  <2> QED
    BY <1>1, <1>3, <1>4, <1>a, <2>1, <2>4, <2>5, MovesInv DEF p
<1>9. CASE Wake(i)
  <2> DEFINE where == IF cancel THEN "stopped" ELSE "head"
  <2>1. pc' = [pc EXCEPT ![i] = where] /\ reply' = reply
    BY <1>9 DEF Wake, Goto
  <2>2. where \in Places /\ where \notin {"copy", "wrote", "done"}
    BY DEF Places
  <2> HIDE DEF where
  <2> QED
    BY <1>1, <1>2, <1>3, <1>4, <2>1, <2>2, MovesInv
<1> QED
  BY <1>5, <1>6, <1>7, <1>8, <1>9

\* Before the first run there is no record and no output file.
LEMMA HttpInitial == Init /\ ~SlowTicker /\ (\A s \in Stages : s.range) => HttpInv
  BY DEF Init, HttpInv

\* The file, the record and the writes of the record still to come stay in step with
\* each other, whatever happens but the faults that the code does not see.
LEMMA HttpInductive == HttpInv /\ [Next]_vars /\ unseen' = {} => HttpInv'
<1> SUFFICES ASSUME HttpInv, [Next]_vars, unseen' = {} PROVE HttpInv'
  OBVIOUS
<1>0. /\ stage \in Stages /\ stage.range /\ ~SlowTicker /\ data \subseteq Offset
      /\ record = <<>> \/ LaidIn(record, stage, data)
      /\ \A r \in late : LaidIn(r, stage, data)
      /\ run = "running" => RunningInv /\ LaidIn(parts, stage, data)
      /\ run = "completed" => data = Offset
  BY DEF HttpInv, RunningInv, Laid
<1>1. CASE Start
  <2>1. UNCHANGED <<stage, data, record, late>> /\ run' = "running"
    BY <1>0, <1>1 DEF Start
  <2>2. LaidIn(parts', stage, data) /\ parts' \in Seq(Part)
    <3>1. PICK restored \in {record} \cup Torn(late) :
            /\ parts' = IF restored # <<>> THEN restored ELSE Generate(stage)
            /\ Taken(restored)
      BY <1>1 DEF Start
    <3>2. restored \in {record, <<>>}
      BY <3>1 DEF Taken
    <3>2a. restored = <<>> \/ LaidIn(restored, stage, data)
      BY <1>0, <3>2
    <3>3. LaidIn(parts', stage, data)
      BY <1>0, <3>1, <3>2a, FreshLaid DEF Laid
    <3> QED
      BY <3>3 DEF LaidIn
  <2>3. /\ pc' = [i \in DOMAIN parts' |-> "head"]
        /\ reply' = [i \in DOMAIN parts' |-> 0] /\ chunk' = [i \in DOMAIN parts' |-> 0]
    BY <1>1 DEF Start
  <2>4. RunningInv'
    BY <2>1, <2>2, <2>3 DEF RunningInv, Laid, Places, PartInv
  <2> QED
    BY <1>0, <2>1, <2>4 DEF HttpInv, Laid, Offset
<1>2. CASE Finish
  <2>1. /\ run = "running" /\ UNCHANGED <<stage, data>> /\ record' \in {record, <<>>}
        /\ \A r \in late' : r \in late \/ r = parts
        /\ run' # "running"
    BY <1>2 DEF Finish, Writing
  <2>2. ASSUME run' = "completed"
        PROVE  data = Offset
    <3>1. \A i \in DOMAIN parts : pc[i] = "done"
      BY <1>2, <2>2 DEF Finish
    <3>2. Done(parts)
      BY <1>0, <2>1, <3>1 DEF RunningInv, PartInv, Done
    <3> QED
      BY <1>0, <2>1, <3>2, DoneIsAll DEF Laid
  <2> QED
    BY <1>0, <2>1, <2>2 DEF HttpInv, Laid, Offset
<1>3. CASE Cancel
  <2>1. UNCHANGED <<stage, run, parts, pc, reply, chunk, data, record, late>>
    BY <1>3 DEF Cancel, partVars, locals
  <2> QED
    BY <1>0, <2>1 DEF HttpInv, RunningInv, PartInv, Laid, Offset
<1>4. CASE RecordTick \/ RecordLast
  <2>1. /\ UNCHANGED <<stage, run, parts, pc, reply, chunk, data, late>> /\ record' = parts
        /\ run = "running"
    BY <1>4 DEF RecordTick, RecordLast, partVars, locals
  <2> QED
    BY <1>0, <2>1 DEF HttpInv, RunningInv, PartInv, Laid, Offset
<1>5. CASE RecordLate
  <2>1. /\ UNCHANGED <<stage, run, parts, pc, reply, chunk, data>> /\ record' \in late
        /\ late' \subseteq late
    BY <1>5 DEF RecordLate, partVars, locals
  <2> QED
    BY <1>0, <2>1 DEF HttpInv, RunningInv, PartInv, Laid, Offset
<1>6. ASSUME NEW i \in Index, PartStep(i)
      PROVE  HttpInv'
  <2>1. RunningInv' /\ Grows
    BY <1>6, MoveInv, WriteInv, AdvanceInv DEF PartStep
  <2>2. run = "running"
    BY <1>6 DEF PartStep, LoopHead, Respond, Refuse, Write, Advance, Eof, Break, Wake, At
  <2>3. /\ record' = <<>> \/ LaidIn(record', stage', data')
        /\ \A r \in late' : LaidIn(r, stage', data')
    BY <1>0, <2>1, LaidGrows DEF Grows
  <2> QED
    BY <1>0, <2>1, <2>2, <2>3 DEF HttpInv, Grows, Laid, Offset
<1>7. CASE Crash
  <2>1. /\ UNCHANGED <<stage, data>> /\ record' \in {record, <<>>} /\ late' = {}
        /\ run' # "running" /\ (run' = "completed" => run = "completed")
    BY <1>7 DEF Crash, Taken
  <2> QED
    BY <1>0, <2>1 DEF HttpInv, Laid, Offset
<1>8. CASE Cleanup
  <2>1. /\ UNCHANGED <<stage, late>> /\ record' = <<>> /\ late = {} /\ run' = "idle" /\ data' = {}
    BY <1>0, <1>8 DEF Cleanup
  <2> QED
    BY <1>0, <2>1 DEF HttpInv, Laid, Offset
<1>9. CASE UNCHANGED vars
  <2>1. UNCHANGED <<stage, run, parts, pc, reply, chunk, data, record, late>>
    BY <1>9 DEF vars, partVars, locals
  <2> QED
    BY <1>0, <2>1 DEF HttpInv, RunningInv, PartInv, Laid, Offset
<1> QED
  BY <1>1, <1>2, <1>3, <1>4, <1>5, <1>6, <1>7, <1>8, <1>9 DEF Next

-----------------------------------------------------------------------------
(* The counter *)

\* The loop that adds up what the first n parts have
Summed(f, ps, n) ==
  /\ f \in [0 .. n -> Int]
  /\ f[0] = 0
  /\ \A k \in 1 .. n : f[k] = f[k - 1] + (ps[k].progress - ps[k].start)

\* The fields of a part are numbers.
LEMMA PartFields ==
  ASSUME NEW ps \in Seq(Part), NEW k \in 1 .. Len(ps)
  PROVE  ps[k].start \in Nat /\ ps[k].progress \in Nat /\ ps[k].end \in Int
<1>1. ps[k] \in Part
  OBVIOUS
<1> QED
  BY <1>1 DEF Part

\* The loop over the parts has a result: the recursive function that adds their
\* progress exists, by the first part for which it would not.
LEMMA SumExists ==
  ASSUME NEW ps \in Seq(Part)
  PROVE  \E f : Summed(f, ps, Len(ps)) /\ Downloaded(ps) = f[Len(ps)]
<1> DEFINE N == Len(ps)
           S == {n \in Nat : n <= N /\ ~\E f : Summed(f, ps, n)}
<1>0. N \in Nat
  OBVIOUS
<1>1. S = {}
  <2> SUFFICES ASSUME S # {}
               PROVE  FALSE
    OBVIOUS
  <2>1. PICK n \in S : \A m \in S : n <= m
    BY LeastNumber
  <2>2. n \in Nat /\ n <= N /\ ~\E f : Summed(f, ps, n)
    BY <2>1
  <2>3. CASE n = 0
    <3>1. Summed([k \in 0 .. 0 |-> 0], ps, 0)
      BY DEF Summed
    <3> QED
      BY <2>2, <2>3, <3>1
  <2>4. CASE n # 0
    <3>1. n - 1 \in Nat /\ n - 1 <= N /\ ~(n <= n - 1) /\ n \in 1 .. N
      BY <1>0, <2>2, <2>4
    <3>2. n - 1 \notin S
      <4> HIDE DEF S
      <4> QED
        BY <2>1, <3>1
    <3>3. PICK g : Summed(g, ps, n - 1)
      BY <3>1, <3>2
    <3> DEFINE d == ps[n].progress - ps[n].start
               h == [k \in 0 .. n |-> IF k = n THEN g[n - 1] + d ELSE g[k]]
    <3>a. d \in Int
      BY <3>1, PartFields
    <3>b. d = ps[n].progress - ps[n].start
      OBVIOUS
    <3> HIDE DEF d
    <3>4. h \in [0 .. n -> Int] /\ h[0] = 0
      BY <2>2, <2>4, <3>1, <3>3, <3>a DEF Summed
    <3>5. ASSUME NEW k \in 1 .. n
          PROVE  h[k] = h[k - 1] + (ps[k].progress - ps[k].start)
      <4>1. k \in 0 .. n /\ k - 1 \in 0 .. n /\ k - 1 # n
        BY <2>2
      <4>2. h[k - 1] = g[k - 1]
        BY <4>1
      <4>3. CASE k = n
        BY <3>b, <4>1, <4>2, <4>3
      <4>4. CASE k # n
        <5>1. k \in 1 .. n - 1 /\ h[k] = g[k]
          BY <2>2, <4>1, <4>4
        <5> QED
          BY <3>3, <4>2, <5>1 DEF Summed
      <4> QED
        BY <4>3, <4>4
    <3> HIDE DEF h
    <3>6. Summed(h, ps, n)
      BY <3>4, <3>5 DEF Summed
    <3> QED
      BY <2>2, <3>6
  <2> QED
    BY <2>3, <2>4
<1>2. PICK g : Summed(g, ps, N)
  BY <1>0, <1>1
<1> DEFINE F(l) == [n \in 0 .. N |-> IF n = 0 THEN 0 ELSE l[n - 1] + (ps[n].progress - ps[n].start)]
           sum == CHOOSE l : l = F(l)
<1>3. g = F(g)
  <2>1. \A n \in 0 .. N : g[n] = IF n = 0 THEN 0 ELSE g[n - 1] + (ps[n].progress - ps[n].start)
    BY <1>0, <1>2 DEF Summed
  <2>2. g = [n \in 0 .. N |-> g[n]]
    BY <1>2 DEF Summed
  <2> QED
    BY <2>1, <2>2
<1>4. sum = F(sum)
  BY <1>3
<1>5. Downloaded(ps) = sum[N]
  BY DEF Downloaded
<1> HIDE DEF sum
<1>6. /\ DOMAIN sum = 0 .. N /\ sum[0] = 0
      /\ \A k \in 1 .. N : sum[k] = sum[k - 1] + (ps[k].progress - ps[k].start)
  BY <1>0, <1>4
<1> DEFINE T == {k \in 0 .. N : sum[k] \notin Int}
<1>7. T = {}
  <2> SUFFICES ASSUME T # {} PROVE FALSE
    OBVIOUS
  <2>0. T \in SUBSET Nat
    OBVIOUS
  <2>1. PICK k \in T : \A m \in T : k <= m
    BY <2>0, LeastNumber
  <2>2. k \in 0 .. N /\ sum[k] \notin Int /\ k # 0
    BY <1>6, <2>1
  <2>3. k \in 1 .. N /\ k - 1 \in 0 .. N /\ ~(k <= k - 1)
    BY <1>0, <2>2
  <2>4. sum[k - 1] \in Int
    BY <2>1, <2>3
  <2>5. ps[k].progress \in Nat /\ ps[k].start \in Nat
    BY <2>3, PartFields
  <2>6. sum[k] = sum[k - 1] + (ps[k].progress - ps[k].start)
    BY <1>6, <2>3
  <2> QED
    BY <2>2, <2>4, <2>5, <2>6
<1>8. Summed(sum, ps, N)
  <2>1. sum = [k \in 0 .. N |-> sum[k]]
    BY <1>4
  <2>2. sum \in [0 .. N -> Int]
    BY <1>7, <2>1
  <2> QED
    BY <1>6, <2>2 DEF Summed
<1> QED
  BY <1>5, <1>8

\* What one part gets more, all get more.
LEMMA SumAdvances ==
  ASSUME NEW ps \in Seq(Part), NEW qs \in Seq(Part), Len(qs) = Len(ps),
         NEW i \in 1 .. Len(ps), NEW c \in Nat,
         qs[i].start = ps[i].start, qs[i].progress = ps[i].progress + c,
         \A j \in 1 .. Len(ps) : j # i => qs[j] = ps[j]
  PROVE  Downloaded(qs) = Downloaded(ps) + c
<1> DEFINE n == Len(ps)
<1>0. n \in Nat /\ i \in Nat /\ i >= 1 /\ i <= n
  OBVIOUS
<1>1. PICK f : Summed(f, ps, n) /\ Downloaded(ps) = f[n]
  BY SumExists
<1>2. PICK h : Summed(h, qs, n) /\ Downloaded(qs) = h[n]
  BY SumExists
<1> HIDE DEF n
<1> DEFINE d(k) == IF k < i THEN 0 ELSE c
           T == {k \in 0 .. n : h[k] # f[k] + d(k)}
<1>3. T = {}
  <2> SUFFICES ASSUME T # {} PROVE FALSE
    OBVIOUS
  <2>0. T \in SUBSET Nat
    OBVIOUS
  <2>1. PICK k \in T : \A m \in T : k <= m
    BY <2>0, LeastNumber
  <2>2. k \in 0 .. n /\ h[k] # f[k] + d(k)
    BY <2>1
  <2>3. k # 0
    BY <1>0, <1>1, <1>2, <2>2 DEF Summed
  <2>4. k \in 1 .. n /\ k - 1 \in 0 .. n /\ ~(k <= k - 1)
    BY <1>0, <2>2, <2>3
  <2>5. h[k - 1] = f[k - 1] + d(k - 1)
    BY <2>1, <2>4
  <2>6. /\ h[k] = h[k - 1] + (qs[k].progress - qs[k].start)
        /\ f[k] = f[k - 1] + (ps[k].progress - ps[k].start)
        /\ f[k - 1] \in Int /\ h[k - 1] \in Int
    BY <1>1, <1>2, <2>4 DEF Summed
  <2>7. /\ ps[k].progress \in Nat /\ ps[k].start \in Nat
    BY <2>4, PartFields DEF n
  <2>8. CASE k = i
    BY SMTT(40), <1>0, <2>2, <2>5, <2>6, <2>7, <2>8
  <2>9. CASE k # i
    <3>1. qs[k].progress = ps[k].progress /\ qs[k].start = ps[k].start
      BY <2>4, <2>9 DEF n
    <3>2. h[k] = h[k - 1] + (ps[k].progress - ps[k].start)
      BY <2>6, <3>1
    <3>3. CASE k < i
      BY SMTT(40), <1>0, <2>2, <2>4, <2>5, <2>6, <2>7, <3>2, <3>3
    <3>4. CASE k > i
      BY SMTT(40), <1>0, <2>2, <2>4, <2>5, <2>6, <2>7, <3>2, <3>4
    <3> QED
      BY <1>0, <2>4, <2>9, <3>3, <3>4
  <2> QED
    BY <2>8, <2>9
<1>4. h[n] = f[n] + c
  <2>1. n \in 0 .. n /\ d(n) = c
    BY <1>0
  <2> QED
    BY <1>3, <2>1
<1> QED
  BY <1>1, <1>2, <1>4

\* The parts of a whole file add up to its length.
LEMMA SumOfDone ==
  ASSUME stage \in Stages, stage.range, TwoBytes(stage), NEW ps, Laid(ps), Done(ps)
  PROVE  Downloaded(ps) = stage.total
<1> DEFINE g == Generate(stage)
           n == Len(ps)
<1>1. Cut(g, stage)
  BY GenerateCuts
<1>2. /\ ps \in Seq(Part) /\ n = Len(g) /\ n \in Nat /\ n >= 1 /\ DOMAIN ps = 1 .. n
      /\ stage.total \in Nat /\ stage.total >= 1
      /\ \A i \in 1 .. n :
              /\ ps[i].start \in Nat /\ ps[i].progress \in Nat /\ ps[i].end \in Nat
              /\ ps[i].start = g[i].start /\ ps[i].end = g[i].end
              /\ ps[i].start <= ps[i].end
  BY LaidParts
<1>3. \A i \in 1 .. n : ps[i].progress = IF ps[i].end = UnknownSize THEN stage.total ELSE ps[i].end + 1
  BY <1>2 DEF Done
<1>4. PICK f : Summed(f, ps, n) /\ Downloaded(ps) = f[n]
  BY <1>2, SumExists
<1> HIDE DEF g, n
<1>5. 1 \in 1 .. n /\ n \in 1 .. n /\ f[1] = ps[1].progress /\ ps[1].start = 0
  <2>1. 1 \in 1 .. n /\ n \in 1 .. n /\ 1 - 1 = 0
    BY <1>2
  <2>2. ps[1].start = 0
    BY <1>1, <1>2, <2>1 DEF Cut
  <2>3. f[1] = f[0] + (ps[1].progress - ps[1].start) /\ f[0] = 0
    BY <1>4, <2>1 DEF Summed
  <2> QED
    BY <1>2, <2>1, <2>2, <2>3
<1>6. CASE n = 1 /\ ps[1].end = UnknownSize
  BY <1>3, <1>4, <1>5, <1>6
<1>7. CASE ~(n = 1 /\ ps[1].end = UnknownSize)
  <2>1. stage.size # 0 /\ \A i \in 1 .. n : ps[i].end # UnknownSize
    <3>1. stage.size # 0
      BY <1>1, <1>2, <1>5, <1>7 DEF Cut
    <3>2. n = 1 \/ \A i \in 1 .. n : ps[i].end # UnknownSize
      BY <1>1, <1>2 DEF Cut
    <3>3. n = 1 => \A i \in 1 .. n : ps[i].end # UnknownSize
      BY <1>7
    <3> QED
      BY <3>1, <3>2, <3>3
  <2> DEFINE T == {k \in 1 .. n : f[k] # ps[k].end + 1}
  <2>2. T = {}
    <3> SUFFICES ASSUME T # {} PROVE FALSE
      OBVIOUS
    <3>0. T \in SUBSET Nat
      OBVIOUS
    <3>1. PICK k \in T : \A m \in T : k <= m
      BY <3>0, LeastNumber
    <3>2. k \in 1 .. n /\ f[k] # ps[k].end + 1
      BY <3>1
    <3>3. k # 1
      BY <1>3, <1>5, <2>1, <3>2
    <3>4. k - 1 \in 1 .. n /\ k - 1 \in 1 .. n - 1 /\ (k - 1) + 1 = k /\ ~(k <= k - 1)
      BY <1>2, <3>2, <3>3
    <3>5. f[k - 1] = ps[k - 1].end + 1
      BY <3>1, <3>4
    <3>6. g[(k - 1) + 1].start = g[k - 1].end + 1
      BY <1>1, <1>2, <2>1, <3>4 DEF Cut
    <3>7. ps[k].start = ps[k - 1].end + 1
      BY <1>2, <3>2, <3>4, <3>6
    <3>8. f[k] = f[k - 1] + (ps[k].progress - ps[k].start) /\ ps[k].progress = ps[k].end + 1
      BY <1>3, <1>4, <2>1, <3>2 DEF Summed
    <3>9. ps[k - 1].end \in Nat /\ ps[k].end \in Nat
      BY <1>2, <3>2, <3>4
    <3> QED
      BY <3>2, <3>5, <3>7, <3>8, <3>9
  <2>3. f[n] = ps[n].end + 1
    BY <1>5, <2>2
  <2>4. ps[n].end = stage.total - 1
    BY <1>1, <1>2, <1>5, <2>1 DEF Cut
  <2> QED
    BY <1>2, <1>4, <2>3, <2>4
<1> QED
  BY <1>6, <1>7

\* The counter received is what the parts have, and at the end the length of the file.
LEMMA CountInductive ==
  HttpInv /\ TwoBytes(stage) /\ CountInv /\ [Next]_vars /\ unseen' = {} => CountInv'
<1> SUFFICES ASSUME HttpInv, TwoBytes(stage), CountInv, [Next]_vars, unseen' = {} PROVE CountInv'
  OBVIOUS
<1>0. /\ stage \in Stages /\ stage.range
      /\ run = "running" => RunningInv /\ Laid(parts)
      /\ run = "running" => received = Downloaded(parts)
      /\ run = "completed" => received = stage.total
  BY DEF HttpInv, RunningInv, CountInv
<1>1. CASE Start
  BY <1>1 DEF Start, CountInv
<1>2. CASE Finish
  <2>1. run = "running" /\ UNCHANGED stage /\ run' # "running" /\ (run' = "completed" => received' = received)
    BY <1>2 DEF Finish, EndOfRun
  <2>2. ASSUME run' = "completed"
        PROVE  Downloaded(parts) = stage.total
    <3>1. \A i \in DOMAIN parts : pc[i] = "done"
      BY <1>2, <2>2 DEF Finish
    <3>2. Done(parts)
      BY <1>0, <2>1, <3>1 DEF RunningInv, PartInv, Done
    <3> QED
      BY <1>0, <2>1, <3>2, SumOfDone
  <2> QED
    BY <1>0, <2>1, <2>2 DEF CountInv
<1>3. CASE Cancel \/ RecordTick \/ RecordLast \/ RecordLate \/ UNCHANGED vars
  <2>1. UNCHANGED <<stage, run, parts, received>>
    BY <1>3 DEF Cancel, RecordTick, RecordLast, RecordLate, vars, partVars, locals
  <2> QED
    BY <2>1 DEF CountInv, Downloaded
<1>4. ASSUME NEW i \in Index, PartStep(i)
      PROVE  CountInv'
  <2>1. run = "running" /\ i \in DOMAIN parts /\ UNCHANGED <<stage, run>>
    BY <1>4 DEF PartStep, LoopHead, Respond, Refuse, Write, Advance, Eof, Break, Wake, At, partRest, runRest
  <2>2. CASE LoopHead(i) \/ Respond(i) \/ Refuse(i) \/ Eof(i) \/ Break(i) \/ Wake(i) \/ Write(i)
    <3>1. UNCHANGED <<parts, received>>
      BY <2>2, MoveInv DEF Write
    <3> QED
      BY <2>1, <3>1 DEF CountInv, Downloaded
  <2>3. CASE Advance(i)
    <3> DEFINE q == [parts[i] EXCEPT !.progress = parts[i].progress + chunk[i]]
    <3>1. parts' = [parts EXCEPT ![i] = q] /\ received' = received + chunk[i]
      BY <2>3 DEF Advance
    <3>2. parts \in Seq(Part) /\ parts[i] \in Part /\ chunk[i] \in Nat
      BY <2>1, WorkingPart
    <3>3. q \in Part /\ q.start = parts[i].start /\ q.progress = parts[i].progress + chunk[i]
      BY <3>2, Progressed
    <3> HIDE DEF q
    <3>4. parts' \in Seq(Part) /\ Len(parts') = Len(parts) /\ parts'[i] = q
          /\ \A j \in DOMAIN parts \ {i} : parts'[j] = parts[j]
      BY <2>1, <3>1, <3>2, <3>3, OneReplaced
    <3>5. DOMAIN parts = 1 .. Len(parts)
      BY <3>2
    <3>6. /\ i \in 1 .. Len(parts) /\ \A j \in 1 .. Len(parts) : j # i => parts'[j] = parts[j]
          /\ parts'[i].start = parts[i].start /\ parts'[i].progress = parts[i].progress + chunk[i]
      BY <2>1, <3>3, <3>4, <3>5
    <3>7. Downloaded(parts') = Downloaded(parts) + chunk[i]
      <4> DEFINE qs == parts'
      <4>1. qs \in Seq(Part) /\ Len(qs) = Len(parts)
        BY <3>4
      <4> QED
        BY <3>2, <3>4, <3>6, SumAdvances
    <3> QED
      BY <1>0, <2>1, <3>1, <3>7 DEF CountInv
  <2> QED
    BY <1>4, <2>2, <2>3 DEF PartStep
<1>5. CASE Crash
  <2>1. /\ UNCHANGED stage /\ run' # "running"
        /\ run' = "completed" => run = "completed" /\ received' = received
    BY <1>5 DEF Crash, EndOfRun
  <2> QED
    BY <1>0, <2>1 DEF CountInv
<1>6. CASE Cleanup
  BY <1>6 DEF Cleanup, CountInv
<1> QED
  BY <1>1, <1>2, <1>3, <1>4, <1>5, <1>6 DEF Next

-----------------------------------------------------------------------------
(* The theorems *)

\* Servers with ranges, and a ticker whose last write comes before the files of the task
\* are deleted.  Without the first a download completes with no byte (run http_plain),
\* without the second a run may resume from the record of a deleted file.
RangesInTime == ~SlowTicker /\ \A s \in Stages : s.range

\* The task is one of those whose servers have ranges, and Redownload is in time.
StageInv == stage \in Stages /\ stage.range /\ ~SlowTicker

\* Nothing of the task changes but by a run, and Redownload wipes out what it has.
LEMMA StageStays ==
  StageInv /\ [Next]_vars =>
    /\ StageInv' /\ stage' = stage
    /\ unseen' = {} => unseen = {} \/ Cleanup
<1> SUFFICES ASSUME StageInv, [Next]_vars
             PROVE  stage' = stage /\ (unseen' = {} => unseen = {} \/ Cleanup)
  BY DEF StageInv
<1>1. stage' = stage
  BY DEF Next, vars, partRest, runRest, Start, Cancel, Finish, RecordTick, RecordLast, RecordLate,
     PartStep, LoopHead, Respond, Refuse, Write, Advance, Eof, Break, Wake, Crash, Cleanup
<1>2. ASSUME ~Cleanup
      PROVE  unseen \subseteq unseen'
  BY <1>2 DEF Next, vars, partRest, runRest, Start, Taken, Cancel, Finish, RecordTick, RecordLast,
     RecordLate, PartStep, LoopHead, Respond, Refuse, Write, Advance, Eof, Break, Wake, Crash
<1> QED
  BY <1>1, <1>2

\* A new start has nothing on the disk and nothing to come.
LEMMA CleanupLays == StageInv /\ Cleanup => HttpInv' /\ CountInv'
  BY DEF StageInv, Cleanup, HttpInv, CountInv, Offset

\* A part of the record, of a write of it still to come and of the running download
\* never counts a byte that the file does not have, whatever the interleaving of the
\* parts, the tickers of several runs, pauses and crashes (restore, writeRecord,
\* copyPart), unless a fault has passed unseen: the end of an answer to an open range
\* that is short, or a torn record.
THEOREM RecordNeverAhead == RangesInTime => (Spec => [](unseen = {} => HttpInv))
<1> DEFINE Inv == StageInv /\ (unseen = {} => HttpInv)
<1>1. RangesInTime /\ Init => Inv
  BY HttpInitial DEF RangesInTime, StageInv, Init
<1>2. Inv /\ [Next]_vars => Inv'
  BY StageStays, CleanupLays, HttpInductive
<1> QED
  BY <1>1, <1>2, PTL DEF Spec

\* A completed download has every byte of the file, for every size, every number of
\* parts and every length of the reads, also where the size was not known, unless a
\* fault has passed unseen.
THEOREM CompletedHasEveryByte ==
  RangesInTime => (Spec => [](run = "completed" /\ unseen = {} => data = Offset))
<1>1. HttpInv => (run = "completed" => data = Offset)
  BY DEF HttpInv
<1> QED
  BY <1>1, RecordNeverAhead, PTL

\* And it has counted each byte once, so that the reported size is the length of the
\* file, where no part ends at offset 0, which the code takes for an unknown end.
THEOREM CompletedIsWhole ==
  RangesInTime /\ (\A s \in Stages : TwoBytes(s)) => (Spec => []CompleteIsWhole)
<1> DEFINE Fine == \A s \in Stages : TwoBytes(s)
           Inv == StageInv /\ TwoBytes(stage) /\ (unseen = {} => HttpInv /\ CountInv)
<1>1. RangesInTime /\ Fine /\ Init => Inv
  BY HttpInitial DEF RangesInTime, StageInv, Init, CountInv
<1>2. Inv /\ [Next]_vars => Inv'
  <2> SUFFICES ASSUME Inv, [Next]_vars PROVE Inv'
    OBVIOUS
  <2>1. StageInv' /\ TwoBytes(stage)'
    BY StageStays DEF TwoBytes
  <2>2. ASSUME unseen' = {}
        PROVE  HttpInv' /\ CountInv'
    BY <2>2, StageStays, CleanupLays, HttpInductive, CountInductive
  <2> QED
    BY <2>1, <2>2
<1>3. Inv => CompleteIsWhole
  BY DEF HttpInv, CountInv, CompleteIsWhole
<1> QED
  BY <1>1, <1>2, <1>3, PTL DEF Spec
=============================================================================
