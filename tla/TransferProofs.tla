---------------------------- MODULE TransferProofs ----------------------------
(***************************************************************************)
(* Theorems about the FTP worker (FtpDownload), for every listing, every   *)
(* way of cleaning names, both lengths of a file and all bounds, and about *)
(* the limiter its transfers share with those of the HTTP worker           *)
(* (Limiter).                                                              *)
(***************************************************************************)
EXTENDS FtpDownload, Limiter, WellFoundedInduction, SequenceTheorems, TLAPS

Entries == DOMAIN task.entries
Entry == [path : Seq(DOMAIN CleanName) \ {<<>>}, dir : BOOLEAN]

\* The content of a whole file
Whole(content) == \E v \in Versions : content = Content(v)

\* Where Run is inside transfer or between two of its attempts, and where it works
\* on the file cur
Transferring == {"dial", "retr", "stream", "wait"}
OnFile == Transferring \cup {"open", "remove", "rename", "unmark", "mark"}

FtpTypes ==
  /\ task.directory \in BOOLEAN
  /\ task.entries \in Seq(Entry)
  /\ ~task.directory => Len(task.entries) = 1 /\ ~task.entries[1].dir
  /\ task.size \in [Entries -> {Unknown, Length[1]}]
  /\ version \in [Entries -> Versions]
  /\ run \in {"idle", "running", "paused", "failed", "completed", "down", "refused"}
  /\ cur \in Nat \ {0} /\ received \in Nat
  /\ part \in [Entries -> Seq(Versions)]
  /\ out \in [Entries -> Seq(Int)]
  /\ hash \in [Entries -> Seq(Int)]
  /\ name \in Outputs
  /\ root \in [Outputs -> {"absent", "bare", "mine", "foreign", "reserved"}]
  /\ faults \in Nat

\* A part has bytes of the second version only where that version is as long as
\* the part, and none before the remote file was replaced.  A hash is one of a
\* whole file.
FileInv ==
  \A i \in Entries :
    /\ \A b \in DOMAIN part[i] : part[i][b] = 2 => version[i] = 2 /\ Len(part[i]) <= Length[2]
    /\ hash[i] # Absent => Whole(hash[i])

\* What a part that cannot be compared with a size is
Fresh == /\ \A b \in DOMAIN part[cur] : part[cur][b] = version[cur]
         /\ Len(part[cur]) <= Length[version[cur]]

\* How far Run is
RunInv ==
  /\ run = "running" =>
       /\ \A j \in Files : j < cur => Whole(out[j])
       /\ pc \in OnFile => cur \in Files
       /\ pc \in OnFile \cup {"root", "owner", "next"}
       /\ pc \in {"root", "owner", "next", "unmark", "mark"} => task.directory
       /\ ~task.directory => cur = 1
       /\ pc \in Transferring => received = Len(part[cur]) /\ (Known(cur) \/ Fresh)
       /\ pc \in {"remove", "rename"} => Whole(part[cur])
       /\ pc \in {"unmark", "mark"} => Whole(out[cur])
  /\ run = "completed" => \A j \in Files : Whole(out[j])

Others == {"foreign", "reserved"}

\* What a root that is not usable took
RootInv ==
  /\ run = "running" /\ pc = "owner" => root[name] = "bare"
  /\ name = "title" => root["ftp-id"] = "absent"
  /\ run \in {"down", "refused"} => faults >= 1
  /\ name = "ftp-id" => faults >= 1 \/ root["title"] \in Others
  /\ name = "ftp-id" /\ ~Usable(name) =>
       faults >= 2 \/ root["title"] \in Others \/ (run = "running" /\ pc = "owner")
  /\ run = "refused" => faults >= 2 \/ root["title"] \in Others

-----------------------------------------------------------------------------
(* The manifest of a directory *)

\* A nonempty set of numbers has a least one.
LEMMA LeastNumber ==
  ASSUME NEW S \in SUBSET Nat, S # {}
  PROVE  \E x \in S : \A y \in S : x <= y
<1> DEFINE R == {ss \in Nat \X Nat : ss[1] < ss[2]}
<1>1. IsWellFoundedOn(R, Nat)
  BY NatLessThanWellFounded DEF OpToRel
<1>2. S \subseteq Nat /\ S # {}
  OBVIOUS
<1> HIDE DEF R
<1>3. PICK x \in S : \A y \in S : ~(<<y, x>> \in R)
  BY <1>1, <1>2, WFMin
<1>4. \A y \in S : x <= y
  <2> SUFFICES ASSUME NEW y \in S PROVE x <= y
    OBVIOUS
  <2>1. x \in Nat /\ y \in Nat
    BY <1>2
  <2>2. ~(y < x)
    BY <1>3, <2>1 DEF R
  <2> QED
    BY <2>1, <2>2
<1> QED
  BY <1>4

\* What listDirectory knows after n entries of the walk
NoneListed == [refused |-> FALSE, seen |-> <<>>, entries |-> <<>>]
Listing(list, walk, n) ==
  /\ DOMAIN list = 0 .. n
  /\ list[0] = NoneListed
  /\ \A k \in 1 .. n : list[k] = ListEntry(list[k - 1], walk[k])

\* The walk is listed entry by entry.
LEMMA ListingExists ==
  ASSUME NEW walk \in Seq(Entry)
  PROVE  \E list : Listing(list, walk, Len(walk)) /\ ListDirectory(walk) = list[Len(walk)]
<1> DEFINE N == Len(walk)
           S == {n \in Nat : n <= N /\ ~\E list : Listing(list, walk, n)}
<1>0. N \in Nat
  OBVIOUS
<1>1. S = {}
  <2> SUFFICES ASSUME S # {}
               PROVE  FALSE
    OBVIOUS
  <2>1. PICK n \in S : \A m \in S : n <= m
    BY LeastNumber
  <2>2. n \in Nat /\ n <= N /\ ~\E list : Listing(list, walk, n)
    BY <2>1
  <2>3. CASE n = 0
    <3>1. Listing([k \in 0 .. 0 |-> NoneListed], walk, 0)
      BY DEF Listing
    <3> QED
      BY <2>2, <2>3, <3>1
  <2>4. CASE n # 0
    <3>1. n - 1 \in Nat /\ n - 1 <= N /\ ~(n <= n - 1)
      BY <1>0, <2>2, <2>4
    <3>2. n - 1 \notin S
      <4> HIDE DEF S
      <4> QED
        BY <2>1, <3>1
    <3>3. PICK g : Listing(g, walk, n - 1)
      BY <3>1, <3>2
    <3> DEFINE h == [k \in 0 .. n |-> IF k = n THEN ListEntry(g[n - 1], walk[n]) ELSE g[k]]
    <3>4. h[0] = NoneListed /\ DOMAIN h = 0 .. n
      BY <2>2, <2>4, <3>3 DEF Listing
    <3>5. ASSUME NEW k \in 1 .. n
          PROVE  h[k] = ListEntry(h[k - 1], walk[k])
      <4>1. k \in 0 .. n /\ k - 1 \in 0 .. n /\ k - 1 # n
        BY <2>2
      <4>2. h[k - 1] = g[k - 1]
        BY <4>1
      <4>3. CASE k = n
        BY <4>1, <4>2, <4>3
      <4>4. CASE k # n
        <5>1. k \in 1 .. n - 1 /\ h[k] = g[k]
          BY <2>2, <4>1, <4>4
        <5> QED
          BY <3>3, <4>2, <5>1 DEF Listing
      <4> QED
        BY <4>3, <4>4
    <3> HIDE DEF h
    <3>6. Listing(h, walk, n)
      BY <3>4, <3>5 DEF Listing
    <3> QED
      BY <2>2, <3>6
  <2> QED
    BY <2>3, <2>4
<1>2. PICK g : Listing(g, walk, N)
  BY <1>0, <1>1
<1> DEFINE F(l) == [n \in 0 .. N |-> IF n = 0 THEN NoneListed ELSE ListEntry(l[n - 1], walk[n])]
           list == CHOOSE l : l = F(l)
<1>3. \E l : l = F(l) /\ Listing(l, walk, N)
  <2> DEFINE h == [n \in 0 .. N |-> g[n]]
  <2>1. ASSUME NEW k \in 1 .. N
        PROVE  h[k] = ListEntry(h[k - 1], walk[k])
    <3>1. k \in 0 .. N /\ k - 1 \in 0 .. N
      BY <1>0
    <3> QED
      BY <1>2, <3>1 DEF Listing
  <2>2. h[0] = NoneListed /\ DOMAIN h = 0 .. N
    BY <1>0, <1>2 DEF Listing
  <2>3. \A n \in 0 .. N : h[n] = IF n = 0 THEN NoneListed ELSE ListEntry(h[n - 1], walk[n])
    <3> HIDE DEF h
    <3>1. \A n \in 0 .. N : n # 0 => n \in 1 .. N
      BY <1>0
    <3> QED
      BY <2>1, <2>2, <3>1
  <2>4. h = [n \in 0 .. N |-> h[n]]
    OBVIOUS
  <2> HIDE DEF h
  <2>5. h = F(h)
    BY <2>3, <2>4
  <2> QED
    BY <2>1, <2>2, <2>5 DEF Listing
<1>4. list = F(list)
  BY <1>3
<1>5. ListDirectory(walk) = list[N]
  BY DEF ListDirectory, NoneListed
<1> HIDE DEF list
<1>6. Listing(list, walk, N)
  <2>1. list[0] = NoneListed
    BY <1>0, <1>4
  <2>2. DOMAIN list = 0 .. N
    BY <1>4
  <2>3. \A k \in 1 .. N : list[k] = ListEntry(list[k - 1], walk[k])
    BY <1>0, <1>4
  <2> QED
    BY <2>1, <2>2, <2>3 DEF Listing
<1> QED
  BY <1>5, <1>6

Names == {CleanName[n] : n \in DOMAIN CleanName}

\* The key of a path is a nonempty sequence of cleaned names.
LEMMA KeyOfEntry ==
  ASSUME NEW e \in Entry
  PROVE  Key(e.path) \in Seq(Names) /\ Len(Key(e.path)) \in Nat \ {0}
<1>1. e.path \in Seq(DOMAIN CleanName) /\ e.path # <<>>
  BY DEF Entry
<1> DEFINE n == Len(e.path)
<1>2. n \in Nat /\ n # 0 /\ DOMAIN e.path = 1 .. n /\ \A i \in 1 .. n : e.path[i] \in DOMAIN CleanName
  BY <1>1, EmptySeq
<1>3. Key(e.path) = [i \in 1 .. n |-> CleanName[e.path[i]]]
  BY <1>2 DEF Key
<1>4. \A i \in 1 .. n : CleanName[e.path[i]] \in Names
  BY <1>2 DEF Names
<1> QED
  BY <1>2, <1>3, <1>4

\* An entry claims its key as what it is, and each parent as a directory.
LEMMA ClaimsOfEntry ==
  ASSUME NEW e \in Entry
  PROVE  /\ Key(e.path) \in DOMAIN Claims(e) /\ Claims(e)[Key(e.path)] = e.dir
         /\ \A k \in Seq(Names) : IsPrefix(k, Key(e.path)) /\ k # <<>> => k \in DOMAIN Claims(e)
         /\ \A k \in DOMAIN Claims(e) :
              k # Key(e.path) /\ k \in Seq(Names) /\ IsPrefix(k, Key(e.path)) => Claims(e)[k]
<1> DEFINE key == Key(e.path)
<1>1. key \in Seq(Names) /\ Len(key) \in Nat \ {0}
  BY KeyOfEntry
<1> HIDE DEF key
<1>2. Claims(e) = [k \in {SubSeq(key, 1, n) : n \in 1 .. Len(key)} |-> Len(k) < Len(key) \/ e.dir]
  BY DEF Claims, key
<1>3. ASSUME NEW k \in Seq(Names), IsPrefix(k, key), k # <<>>
      PROVE  k \in DOMAIN Claims(e) /\ (k # key => Len(k) < Len(key))
  <2>1. Len(k) \in Nat /\ Len(k) # 0 /\ Len(k) <= Len(key) /\ SubSeq(k, 1, Len(k)) = SubSeq(key, 1, Len(k))
    BY <1>3, EmptySeq DEF IsPrefix
  <2>2. SubSeq(k, 1, Len(k)) = k /\ SubSeq(key, 1, Len(key)) = key
    BY SMTT(30), <1>1
  <2>3. Len(k) \in 1 .. Len(key)
    BY <1>1, <2>1
  <2>4. k \in DOMAIN Claims(e)
    <3>1. DOMAIN Claims(e) = {SubSeq(key, 1, n) : n \in 1 .. Len(key)}
      BY Zenon, <1>2
    <3>2. k = SubSeq(key, 1, Len(k))
      BY ZenonT(60), <2>1, <2>2
    <3> QED
      BY Zenon, <2>3, <3>1, <3>2
  <2>5. k # key => Len(k) # Len(key)
    BY <2>1, <2>2
  <2> QED
    BY <1>1, <2>1, <2>4, <2>5
<1>4. IsPrefix(key, key) /\ key # <<>>
  BY <1>1, EmptySeq DEF IsPrefix
<1>5. key \in DOMAIN Claims(e)
  BY <1>1, <1>3, <1>4
<1>6. Claims(e)[key] = e.dir
  <2>1. Claims(e)[key] = (Len(key) < Len(key) \/ e.dir)
    BY <1>2, <1>5
  <2>2. ~(Len(key) < Len(key)) /\ e.dir \in BOOLEAN
    BY <1>1 DEF Entry
  <2> QED
    BY <2>1, <2>2
<1>7. ASSUME NEW k \in DOMAIN Claims(e), k # key, k \in Seq(Names), IsPrefix(k, key)
      PROVE  Claims(e)[k]
  <2>1. k # <<>>
    BY <1>1, <1>2
  <2>2. Len(k) < Len(key)
    BY <1>3, <1>7, <2>1
  <2> QED
    BY <1>2, <1>7, <2>2
<1> QED
  BY <1>3, <1>5, <1>6, <1>7 DEF key

\* Two entries do not meet on disk.
Apart(a, b) ==
  /\ Key(a.path) # Key(b.path)
  /\ ~(IsPrefix(Key(a.path), Key(b.path)) /\ ~a.dir)
  /\ ~(IsPrefix(Key(b.path), Key(a.path)) /\ ~b.dir)

\* seen has what an entry claims.
Seen(seen, e) == \A k \in DOMAIN Claims(e) : k \in DOMAIN seen /\ seen[k] = Claims(e)[k]

\* safeRelativePath lets nothing through that meets an entry it has seen.
LEMMA SafeIsApart ==
  ASSUME NEW list, NEW a \in Entry, NEW b \in Entry,
         Seen(list.seen, a), SafeRelativePath(list, b)
  PROVE  Apart(a, b)
<1> DEFINE ka == Key(a.path)
           kb == Key(b.path)
<1>1. /\ ka \in Seq(Names) /\ kb \in Seq(Names) /\ ka # <<>> /\ kb # <<>>
  BY KeyOfEntry, EmptySeq
<1>2. ka \in DOMAIN list.seen /\ list.seen[ka] = a.dir
  BY ClaimsOfEntry DEF Seen
<1>3. kb \notin DOMAIN list.seen
  BY DEF SafeRelativePath
<1>4. ka # kb
  BY <1>2, <1>3
<1>5. ~IsPrefix(kb, ka)
  <2> SUFFICES ASSUME IsPrefix(kb, ka) PROVE FALSE
    OBVIOUS
  <2>1. kb \in DOMAIN Claims(a)
    BY <1>1, ClaimsOfEntry
  <2> QED
    BY <1>3, <2>1 DEF Seen
<1>6. ASSUME IsPrefix(ka, kb)
      PROVE  a.dir
  <2>1. ka \in DOMAIN Claims(b)
    BY <1>1, <1>6, ClaimsOfEntry
  <2>2. Claims(b)[ka]
    BY <1>1, <1>4, <1>6, <2>1, ClaimsOfEntry
  <2>3. list.seen[ka] = Claims(b)[ka]
    BY <1>2, <2>1 DEF SafeRelativePath
  <2> QED
    BY <1>2, <2>2, <2>3
<1> QED
  BY <1>4, <1>5, <1>6 DEF Apart

\* What an accepted beginning of the walk is
Accepted(l, walk, n) ==
  /\ l.entries \in Seq(Entry) /\ Len(l.entries) = n
  /\ \A i \in 1 .. n : l.entries[i] = walk[i] /\ Seen(l.seen, walk[i])
  /\ \A i, j \in 1 .. n : i < j => Apart(walk[i], walk[j])

\* One more entry
LEMMA AcceptOne ==
  ASSUME NEW walk \in Seq(Entry), NEW n \in 1 .. Len(walk), NEW l,
         ~ListEntry(l, walk[n]).refused, ~l.refused => Accepted(l, walk, n - 1)
  PROVE  Accepted(ListEntry(l, walk[n]), walk, n)
<1> DEFINE e == walk[n]
           m == ListEntry(l, e)
           all == [k \in DOMAIN l.seen \cup DOMAIN Claims(e) |->
                       IF k \in DOMAIN l.seen THEN l.seen[k] ELSE Claims(e)[k]]
<1>0. /\ n \in Nat /\ n >= 1 /\ n - 1 \in Nat /\ \A i \in 1 .. n : walk[i] \in Entry
      /\ \A i \in 1 .. n : i \in 1 .. n - 1 \/ i = n
  OBVIOUS
<1>1. ~l.refused /\ SafeRelativePath(l, e)
  BY DEF ListEntry, Refused
<1>2. m = [refused |-> FALSE, seen |-> all, entries |-> Append(l.entries, e)]
  BY <1>1 DEF ListEntry
<1>3. Accepted(l, walk, n - 1)
  BY <1>1
<1>4. e \in Entry
  BY <1>0
<1> HIDE DEF m, e
<1>5. m.seen = all /\ m.entries = Append(l.entries, e)
  BY <1>2
<1>6. /\ m.entries \in Seq(Entry) /\ Len(m.entries) = n
      /\ \A i \in 1 .. n - 1 : m.entries[i] = walk[i]
      /\ m.entries[n] = e
  BY <1>0, <1>3, <1>4, <1>5 DEF Accepted
<1>7. ASSUME NEW i \in 1 .. n
      PROVE  Seen(m.seen, walk[i])
  <2>1. CASE i \in 1 .. n - 1
    BY <1>3, <1>5, <2>1 DEF Accepted, Seen
  <2>2. CASE i = n
    <3>1. \A k \in DOMAIN Claims(e) : k \in DOMAIN all
      OBVIOUS
    <3>2. \A k \in DOMAIN Claims(e) \cap DOMAIN l.seen : l.seen[k] = Claims(e)[k]
      BY <1>1 DEF SafeRelativePath
    <3>3. \A k \in DOMAIN Claims(e) : all[k] = Claims(e)[k]
      BY <3>1, <3>2
    <3> QED
      BY <1>5, <2>2, <3>1, <3>3 DEF Seen, e
  <2> QED
    BY <1>0, <2>1, <2>2
<1>8. ASSUME NEW i \in 1 .. n, NEW j \in 1 .. n, i < j
      PROVE  Apart(walk[i], walk[j])
  <2>0. i \in 1 .. n - 1
    BY <1>0, <1>8
  <2>1. CASE j = n
    <3>1. Seen(l.seen, walk[i]) /\ walk[i] \in Entry
      BY <1>0, <1>3, <2>0 DEF Accepted
    <3> QED
      BY <1>1, <1>4, <2>1, <3>1, SafeIsApart DEF e
  <2>2. CASE j \in 1 .. n - 1
    BY <1>3, <1>8, <2>0, <2>2 DEF Accepted
  <2> QED
    BY <1>0, <2>1, <2>2
<1>9. \A i \in 1 .. n : m.entries[i] = walk[i]
  BY <1>0, <1>6 DEF e
<1>10. Accepted(m, walk, n)
  BY <1>6, <1>7, <1>8, <1>9 DEF Accepted
<1> QED
  BY <1>10 DEF m, e

\* listDirectory accepts a walk as it is, and only when no two of its entries meet.
LEMMA ListedWalk ==
  ASSUME NEW walk \in Seq(Entry), ~ListDirectory(walk).refused
  PROVE  Accepted(ListDirectory(walk), walk, Len(walk))
<1>1. PICK list : Listing(list, walk, Len(walk)) /\ ListDirectory(walk) = list[Len(walk)]
  BY ListingExists
<1> DEFINE S == {n \in Nat : n <= Len(walk) /\ ~list[n].refused /\ ~Accepted(list[n], walk, n)}
<1>2. S = {}
  <2> SUFFICES ASSUME S # {}
               PROVE  FALSE
    OBVIOUS
  <2>1. PICK n \in S : \A m \in S : n <= m
    BY LeastNumber
  <2>2. n \in Nat /\ n <= Len(walk) /\ ~list[n].refused /\ ~Accepted(list[n], walk, n)
    BY <2>1
  <2>3. CASE n = 0
    <3>1. list[0].entries = <<>>
      BY <1>1 DEF Listing, NoneListed
    <3>2. 1 .. 0 = {} /\ <<>> \in Seq(Entry) /\ Len(<<>>) = 0
      OBVIOUS
    <3>3. Accepted(list[0], walk, 0)
      BY <3>1, <3>2 DEF Accepted
    <3> QED
      BY <2>2, <2>3, <3>3
  <2>4. CASE n # 0
    <3>1. n \in 1 .. Len(walk) /\ n - 1 \in Nat /\ n - 1 <= Len(walk) /\ ~(n <= n - 1)
      BY <2>2, <2>4
    <3>2. n - 1 \notin S
      <4> HIDE DEF S
      <4> QED
        BY <2>1, <3>1
    <3>3. ~list[n - 1].refused => Accepted(list[n - 1], walk, n - 1)
      BY <3>1, <3>2
    <3>4. list[n] = ListEntry(list[n - 1], walk[n])
      BY <1>1, <3>1 DEF Listing
    <3> QED
      BY <2>2, <3>1, <3>3, <3>4, AcceptOne
  <2> QED
    BY <2>3, <2>4
<1>3. Len(walk) \in Nat /\ Len(walk) <= Len(walk)
  OBVIOUS
<1> QED
  BY <1>1, <1>2, <1>3

\* So nothing of an accepted manifest meets.
LEMMA AcceptedIsDisjoint ==
  ASSUME NEW walk \in Seq(Entry), NEW l, Accepted(l, walk, Len(walk))
  PROVE  l.entries \in Seq(Entry) /\ Len(l.entries) = Len(walk)
         /\ (\A i \in 1 .. Len(walk) : l.entries[i] = walk[i]) /\ Disjoint(l.entries)
<1>1. DOMAIN l.entries = 1 .. Len(walk) /\ Len(walk) \in Nat
  BY DEF Accepted
<1>2. ASSUME NEW i \in DOMAIN l.entries, NEW j \in DOMAIN l.entries, i # j
      PROVE  /\ Key(l.entries[i].path) # Key(l.entries[j].path)
             /\ ~(IsPrefix(Key(l.entries[i].path), Key(l.entries[j].path)) /\ ~l.entries[i].dir)
  <2>1. i < j \/ j < i
    BY <1>1, <1>2
  <2>2. l.entries[i] = walk[i] /\ l.entries[j] = walk[j]
    BY <1>1 DEF Accepted
  <2>3. Apart(walk[i], walk[j]) \/ Apart(walk[j], walk[i])
    BY <1>1, <2>1 DEF Accepted
  <2> QED
    BY <2>2, <2>3 DEF Apart
<1>3. Disjoint(l.entries)
  BY <1>2 DEF Disjoint
<1> QED
  BY <1>3 DEF Accepted

-----------------------------------------------------------------------------
(* Type correctness *)

\* The task is what was added: the manifest and the sizes never change.
LEMMA TaskFixed == [Next]_vars => task' = task
  BY DEF Next, Step, vars, disk, bounds, Start, PrepareRoot, WriteOwner, NextEntry, OpenPart,
     AttemptFails, Wait, Dial, RetrRefused, Retr, Read, EndOfData, RemoveOutput, Rename,
     RemoveMarker, WriteMarker, Cancel, Crash, Load, Cleanup, Tamper, ReplaceRemote

\* A task made by any listing, or for a single file, starts with its types.
LEMMA FtpTypesInitial == Init => FtpTypes /\ ManifestDisjoint
<1> SUFFICES ASSUME Init PROVE FtpTypes /\ ManifestDisjoint
  OBVIOUS
<1>1. PICK walk \in Walks, directory \in BOOLEAN, rest \in BOOLEAN :
        LET list == ListDirectory(walk)
        IN  /\ ~list.refused
            /\ ~directory => Len(walk) = 1 /\ ~walk[1].dir
            /\ \E size \in [DOMAIN list.entries -> {Unknown, Length[1]}] :
                 task = [directory |-> directory, rest |-> rest,
                         entries |-> list.entries, size |-> size]
  BY DEF Init
<1> DEFINE l == ListDirectory(walk)
<1>2. PICK size \in [DOMAIN l.entries -> {Unknown, Length[1]}] :
        task = [directory |-> directory, rest |-> rest, entries |-> l.entries, size |-> size]
  BY <1>1
<1>3. walk \in Seq(Entry) /\ ~l.refused /\ (~directory => Len(walk) = 1 /\ ~walk[1].dir)
  BY <1>1, FtpAssumption DEF Entry
<1>4. Accepted(l, walk, Len(walk))
  BY <1>3, ListedWalk
<1> HIDE DEF l
<1>5. l.entries \in Seq(Entry) /\ Len(l.entries) = Len(walk)
         /\ (\A i \in 1 .. Len(walk) : l.entries[i] = walk[i]) /\ Disjoint(l.entries)
  BY <1>3, <1>4, AcceptedIsDisjoint
<1>6. /\ task.directory = directory /\ task.entries = l.entries /\ task.size = size
  BY <1>2
<1>7. ManifestDisjoint
  BY <1>5, <1>6 DEF ManifestDisjoint
<1>8. ASSUME ~directory
      PROVE  Len(l.entries) = 1 /\ ~l.entries[1].dir
  <2>1. Len(walk) = 1 /\ ~walk[1].dir
    BY <1>3, <1>8
  <2>2. 1 \in 1 .. 1
    OBVIOUS
  <2>3. l.entries[1] = walk[1]
    BY <1>5, <2>1, <2>2
  <2> QED
    BY <1>5, <2>1, <2>3
<1>9. <<>> \in Seq(Versions) /\ Absent \in Seq(Int) /\ 1 \in Versions
  BY DEF Absent, Versions
<1>10. /\ version \in [Entries -> Versions]
       /\ part \in [Entries -> Seq(Versions)]
       /\ out \in [Entries -> Seq(Int)]
       /\ hash \in [Entries -> Seq(Int)]
  BY <1>9 DEF Init, Entries
<1>11. /\ name \in Outputs
       /\ root \in [Outputs -> {"absent", "bare", "mine", "foreign", "reserved"}]
  BY DEF Init, Outputs
<1>12. /\ task.directory \in BOOLEAN
       /\ task.entries \in Seq(Entry)
       /\ ~task.directory => Len(task.entries) = 1 /\ ~task.entries[1].dir
       /\ task.size \in [Entries -> {Unknown, Length[1]}]
  BY <1>5, <1>6, <1>8 DEF Entries
<1>13. /\ run \in {"idle", "running", "paused", "failed", "completed", "down", "refused"}
       /\ cur \in Nat \ {0} /\ received \in Nat /\ faults \in Nat
  BY DEF Init
<1> QED
  BY <1>7, <1>10, <1>11, <1>12, <1>13 DEF FtpTypes

\* A byte that is read is written behind the others.
LEMMA ReadAppends ==
  ASSUME FtpTypes, RunInv, Read
  PROVE  /\ cur \in Files /\ cur \in Entries /\ received = Len(part[cur])
         /\ part' = [part EXCEPT ![cur] = Append(part[cur], version[cur])]
         /\ part' \in [Entries -> Seq(Versions)]
<1> DEFINE p == part[cur]
           q == [i \in DOMAIN p \cup {received + 1} |-> IF i = received + 1 THEN version[cur] ELSE p[i]]
<1>1. cur \in Files /\ received = Len(part[cur])
  BY DEF Read, At, RunInv, OnFile, Transferring
<1>2. cur \in Entries /\ p \in Seq(Versions) /\ version[cur] \in Versions
  BY <1>1 DEF Files, Entries, FtpTypes
<1>3. DOMAIN p = 1 .. received /\ received \in Nat
  BY <1>1, <1>2
<1>4. DOMAIN p \cup {received + 1} = 1 .. received + 1
  BY <1>3
<1>5. Append(p, version[cur]) = [i \in 1 .. received + 1 |-> IF i = received + 1 THEN version[cur] ELSE p[i]]
  BY <1>1, <1>2, <1>3
<1>6. q = Append(p, version[cur])
  BY <1>4, <1>5
<1>7. part' = [part EXCEPT ![cur] = q]
  BY DEF Read
<1>8. Append(p, version[cur]) \in Seq(Versions)
  <2> HIDE DEF p
  <2> QED
    BY <1>2
<1> HIDE DEF q
<1>9. part' \in [Entries -> Seq(Versions)]
  BY <1>2, <1>6, <1>7, <1>8 DEF FtpTypes
<1> QED
  BY <1>1, <1>2, <1>6, <1>7, <1>9

\* Every step keeps the types.
LEMMA FtpTypesInductive == FtpTypes /\ RunInv /\ [Next]_vars => FtpTypes'
<1> SUFFICES ASSUME FtpTypes, RunInv, [Next]_vars PROVE FtpTypes'
  OBVIOUS
<1> USE DEF FtpTypes, At, Goto, Return, Here, transfer, bounds, disk
<1>0. task' = task /\ Entries' = Entries
  BY TaskFixed DEF Entries
<1>a. <<>> \in Seq(Versions) /\ Absent \in Seq(Int)
  BY DEF Absent
<1>b. \A s \in Seq(Versions) : s \in Seq(Int)
  BY DEF Versions
<1>c. /\ run = "running" /\ pc \in OnFile => cur \in Entries
      /\ run = "running" /\ pc = "stream" => received = Len(part[cur])
  BY DEF RunInv, Files, Entries, Transferring
<1>1. CASE Start
  BY <1>0, <1>1 DEF Start
<1>2. CASE PrepareRoot
  <2>1. CASE root[name] = "absent" /\ root' = [root EXCEPT ![name] = "bare"] /\ Goto("owner") /\ Here
    BY <1>0, <1>2, <2>1 DEF PrepareRoot
  <2>2. CASE root[name] = "mine" /\ Goto("next") /\ Here /\ UNCHANGED root
    BY <1>0, <1>2, <2>2 DEF PrepareRoot
  <2>3. CASE ~Usable(name) /\ Return("failed") /\ UNCHANGED root
    BY <1>0, <1>2, <2>3 DEF PrepareRoot
  <2> QED
    BY <1>2, <2>1, <2>2, <2>3 DEF PrepareRoot
<1>3. CASE WriteOwner
  BY <1>0, <1>3 DEF WriteOwner
<1>4. CASE NextEntry
  BY <1>0, <1>4 DEF NextEntry
<1>5. CASE OpenPart
  <2>1. cur \in Entries
    BY <1>c, <1>5 DEF OpenPart, OnFile
  <2>2. part' \in [Entries -> Seq(Versions)]
    BY <1>a, <1>5, <2>1 DEF OpenPart
  <2>3. received' \in Nat
    BY <1>5, <2>1, <2>2 DEF OpenPart
  <2> QED
    BY <1>0, <1>5, <2>2, <2>3 DEF OpenPart
<1>6. CASE AttemptFails
  BY <1>0, <1>6 DEF AttemptFails
<1>7. CASE Wait
  BY <1>0, <1>7 DEF Wait
<1>8. CASE Dial
  BY <1>0, <1>8 DEF Dial
<1>9. CASE RetrRefused
  BY <1>0, <1>a, <1>9 DEF RetrRefused
<1>10. CASE Retr
  BY <1>0, <1>10 DEF Retr
<1>11. CASE Read
  <2>1. part' \in [Entries -> Seq(Versions)]
    BY <1>11, ReadAppends
  <2> QED
    BY <1>0, <1>11, <2>1 DEF Read
<1>12. CASE EndOfData
  BY <1>0, <1>12 DEF EndOfData
<1>13. CASE RemoveOutput
  BY <1>0, <1>a, <1>13 DEF RemoveOutput
<1>14. CASE Rename
  <2>1. cur \in Entries
    BY <1>c, <1>14 DEF Rename, OnFile
  <2>2. part' \in [Entries -> Seq(Versions)] /\ out' \in [Entries -> Seq(Int)]
    BY <1>a, <1>b, <1>14, <2>1 DEF Rename
  <2>3. cur' \in Nat \ {0} /\ received' \in Nat
    BY <1>14 DEF Rename
  <2>4. run' \in {"running", "completed"}
    BY <1>14 DEF Rename
  <2> QED
    BY <1>0, <1>14, <2>2, <2>3, <2>4 DEF Rename
<1>15. CASE RemoveMarker
  BY <1>0, <1>a, <1>15 DEF RemoveMarker
<1>16. CASE WriteMarker
  <2>1. cur \in Entries
    BY <1>c, <1>16 DEF WriteMarker, OnFile
  <2>2. hash' \in [Entries -> Seq(Int)]
    BY <1>16, <2>1 DEF WriteMarker
  <2> QED
    BY <1>0, <1>16, <2>2 DEF WriteMarker
<1>17. CASE Cancel
  BY <1>0, <1>17 DEF Cancel
<1>18. CASE Crash
  BY <1>0, <1>18 DEF Crash, Fault
<1>19. CASE Load
  BY <1>0, <1>a, <1>19 DEF Load, Prepare
<1>20. CASE Cleanup
  BY <1>0, <1>a, <1>20 DEF Cleanup
<1>21. CASE Tamper
  <2>1. root' \in [Outputs -> {"absent", "bare", "mine", "foreign", "reserved"}]
    BY <1>21 DEF Tamper
  <2>2. out' \in [Entries -> Seq(Int)]
    <3>1. CASE UNCHANGED out
      BY <3>1
    <3>2. ASSUME NEW i \in Files, out' = [out EXCEPT ![i] = Absent]
          PROVE  out' \in [Entries -> Seq(Int)]
      BY <1>a, <3>2 DEF Files, Entries
    <3>3. ASSUME NEW i \in Files, out' = [out EXCEPT ![i] = [b \in DOMAIN @ |-> Edited]]
          PROVE  out' \in [Entries -> Seq(Int)]
      <4>1. i \in Entries /\ out[i] \in Seq(Int)
        BY DEF Files, Entries
      <4>2. [b \in DOMAIN out[i] |-> Edited] \in Seq(Int)
        BY <4>1 DEF Edited
      <4> QED
        BY <3>3, <4>1, <4>2
    <3> QED
      BY <1>21, <3>1, <3>2, <3>3 DEF Tamper
  <2> QED
    BY <1>0, <1>21, <2>1, <2>2 DEF Tamper, Fault
<1>22. CASE ReplaceRemote
  BY <1>0, <1>22 DEF ReplaceRemote, Versions, Files
<1>23. CASE UNCHANGED vars
  BY <1>0, <1>23 DEF vars
<1> QED
  BY <1>1, <1>2, <1>3, <1>4, <1>5, <1>6, <1>7, <1>8, <1>9, <1>10, <1>11, <1>12, <1>13,
     <1>14, <1>15, <1>16, <1>17, <1>18, <1>19, <1>20, <1>21, <1>22, <1>23 DEF Next, Step

-----------------------------------------------------------------------------
(* Completed files are whole *)

\* What a whole file is
LEMMA Contents ==
  /\ Length[1] \in Nat /\ Length[2] \in Nat
  /\ \A v \in Versions : Whole(Content(v)) /\ Length[v] \in Nat
  /\ ~Whole(Absent)
  /\ \A p \in Seq(Versions) : \A v \in Versions :
       Len(p) = Length[v] /\ (\A b \in DOMAIN p : p[b] = v) => Whole(p)
<1>1. Length[1] \in Nat /\ Length[2] \in Nat /\ \A v \in Versions : Length[v] \in Nat
  BY FtpAssumption DEF Versions
<1>2. \A v \in Versions : Whole(Content(v))
  BY DEF Whole
<1>3. ASSUME NEW v \in Versions
      PROVE  Absent # Content(v)
  <2> SUFFICES ASSUME Absent = Content(v) PROVE FALSE
    OBVIOUS
  <2>1. Absent[1] = -1 /\ 1 \in DOMAIN Absent
    BY DEF Absent
  <2>2. Content(v)[1] = v
    BY <2>1 DEF Content
  <2> QED
    BY <2>1, <2>2 DEF Versions
<1>4. ASSUME NEW p \in Seq(Versions), NEW v \in Versions,
             Len(p) = Length[v], \A b \in DOMAIN p : p[b] = v
      PROVE  Whole(p)
  <2>1. p = Content(v)
    BY <1>4 DEF Content
  <2> QED
    BY <2>1 DEF Whole
<1> QED
  BY <1>1, <1>2, <1>3, <1>4 DEF Whole

\* The parts and the hashes stay what they are while Run goes on, while files are
\* replaced and while the user is in the directory.
LEMMA FileInvInductive == FtpTypes /\ FileInv /\ RunInv /\ [Next]_vars => FileInv'
<1> SUFFICES ASSUME FtpTypes, FileInv, RunInv, [Next]_vars PROVE FileInv'
  OBVIOUS
<1> DEFINE Partial(p, v) == \A b \in DOMAIN p : p[b] = 2 => v = 2 /\ Len(p) <= Length[2]
<1>0. Entries' = Entries
  BY TaskFixed DEF Entries
<1>1. /\ \A i \in Entries : Partial(part[i], version[i])
      /\ \A i \in Entries : hash[i] # Absent => Whole(hash[i])
  BY DEF FileInv
<1>2. \A v \in Versions : Partial(<<>>, v)
  OBVIOUS
<1>t. /\ part \in [Entries -> Seq(Versions)] /\ hash \in [Entries -> Seq(Int)]
      /\ version \in [Entries -> Versions]
  BY DEF FtpTypes
<1> SUFFICES /\ \A i \in Entries : Partial(part'[i], version'[i])
             /\ \A i \in Entries : hash'[i] # Absent => Whole(hash'[i])
  BY <1>0 DEF FileInv
<1>3. CASE UNCHANGED <<part, version, hash>>
  BY <1>1, <1>3
<1>4. CASE Read
  <2>1. /\ cur \in Entries /\ received = Len(part[cur])
        /\ part' = [part EXCEPT ![cur] = Append(part[cur], version[cur])]
        /\ UNCHANGED <<version, hash>> /\ received < Length[version[cur]]
    BY <1>4, ReadAppends DEF Read, bounds
  <2> DEFINE q == Append(part[cur], version[cur])
  <2>2. Partial(q, version[cur])
    <3>1. /\ Len(q) = received + 1 /\ DOMAIN q = 1 .. received + 1 /\ q[received + 1] = version[cur]
          /\ \A b \in 1 .. received : q[b] = part[cur][b] /\ b \in DOMAIN part[cur]
      BY <1>t, <2>1
    <3>2. ASSUME NEW b \in DOMAIN q, q[b] = 2
          PROVE  version[cur] = 2
      <4>1. received \in Nat /\ (b = received + 1 \/ b \in 1 .. received)
        BY <1>t, <2>1, <3>1
      <4> QED
        BY <1>1, <2>1, <3>1, <3>2, <4>1
    <3> HIDE DEF q
    <3>3. version[cur] = 2 => Len(q) <= Length[2]
      BY <1>t, <2>1, <3>1, Contents
    <3> QED
      BY <3>2, <3>3
  <2> HIDE DEF Partial
  <2> QED
    BY <1>1, <1>t, <2>1, <2>2
<1>5. CASE OpenPart \/ RetrRefused \/ Rename
  <2>1. UNCHANGED <<version, hash>> /\ part' \in {part, [part EXCEPT ![cur] = <<>>]}
    BY <1>5 DEF OpenPart, RetrRefused, Rename, bounds
  <2> HIDE DEF Partial
  <2> QED
    BY <1>1, <1>2, <1>t, <2>1
<1>6. CASE RemoveMarker \/ WriteMarker
  <2>1. UNCHANGED <<version, part>> /\ hash' \in {[hash EXCEPT ![cur] = Absent], [hash EXCEPT ![cur] = out[cur]]}
        /\ Whole(out[cur])
    BY <1>6 DEF RemoveMarker, WriteMarker, bounds, RunInv, At
  <2> HIDE DEF Partial
  <2> QED
    BY <1>1, <1>t, <2>1
<1>7. CASE Load \/ Cleanup
  <2>1. /\ UNCHANGED version /\ part' \in {part, [i \in DOMAIN part |-> <<>>]}
        /\ hash' \in {hash, [i \in DOMAIN hash |-> Absent]}
    BY <1>7 DEF Load, Cleanup, bounds
  <2> HIDE DEF Partial
  <2> QED
    BY <1>1, <1>2, <1>t, <2>1
<1>8. CASE ReplaceRemote
  <2>1. PICK i \in Files : version[i] = 1 /\ version' = [version EXCEPT ![i] = 2]
    BY <1>8 DEF ReplaceRemote
  <2>2. UNCHANGED <<part, hash>>
    BY <1>8 DEF ReplaceRemote, disk
  <2>3. \A j \in Entries : version[j] = 2 => version'[j] = 2
    BY <1>t, <2>1
  <2> QED
    BY <1>1, <2>2, <2>3
<1> QED
  BY <1>3, <1>4, <1>5, <1>6, <1>7, <1>8 DEF Next, Step, vars, disk, bounds, Start, PrepareRoot,
     WriteOwner, NextEntry, AttemptFails, Wait, Dial, Retr, EndOfData, RemoveOutput, Cancel,
     Crash, Tamper

\* A transfer that ends with the listed size, or that began with an empty part when
\* the listing has no size, leaves a whole file: a part of two versions would be
\* longer than the second of them.
LEMMA EndIsWhole ==
  ASSUME FtpTypes, FileInv, cur \in Entries, received = Len(part[cur]),
         received >= Length[version[cur]], Known(cur) \/ Fresh, SizeRight
  PROVE  Whole(part[cur])
<1> DEFINE p == part[cur]
<1>1. /\ p \in Seq(Versions) /\ version[cur] \in Versions /\ task.size[cur] \in {-1, Length[1]}
      /\ \A b \in DOMAIN p : p[b] \in {1, 2}
  BY DEF FtpTypes, Unknown, Versions
<1>2. Len(p) \in Nat /\ Length[version[cur]] \in Nat /\ Length[1] \in Nat /\ Length[2] \in Nat
  BY <1>1, Contents
<1>3. CASE Known(cur)
  <2>1. Len(p) = Length[1]
    BY <1>1, <1>2, <1>3 DEF SizeRight, Known, FtpTypes
  <2>2. ASSUME NEW b \in DOMAIN p
        PROVE  p[b] = 1
    <3>1. p[b] = 2 => version[cur] = 2 /\ Len(p) <= Length[2]
      BY DEF FileInv
    <3>2. version[cur] = 2 => ~(Len(p) <= Length[2])
      BY <1>2, <2>1, FtpAssumption
    <3> QED
      BY <1>1, <3>1, <3>2
  <2> QED
    BY <1>1, <2>1, <2>2, Contents DEF Versions
<1>4. CASE Fresh
  <2>1. Len(p) = Length[version[cur]]
    BY <1>2, <1>4 DEF Fresh
  <2> QED
    BY <1>1, <1>4, <2>1, Contents DEF Fresh
<1> QED
  BY <1>3, <1>4

\* Run goes through the files in order, and leaves each of them whole.
LEMMA RunInvInductive == FtpTypes /\ FileInv /\ RunInv /\ [Next]_vars => RunInv'
<1> SUFFICES ASSUME FtpTypes, FileInv, RunInv, [Next]_vars PROVE RunInv'
  OBVIOUS
<1>0. task' = task /\ Entries' = Entries /\ Files' = Files /\ \A i : Known(i)' = Known(i)
  BY TaskFixed DEF Entries, Files, Known
<1>1. FtpTypes'
  BY FtpTypesInductive
<1>f. Files \subseteq Entries /\ Entries = 1 .. Len(task.entries) /\ Len(task.entries) \in Nat
  BY DEF Files, Entries, FtpTypes
<1>g. task.directory \in BOOLEAN /\ (~task.directory => Files = {1})
  BY <1>f DEF Files, FtpTypes
<1> USE DEF At, Goto, Return, Here, transfer, bounds, disk, OnFile, Transferring
<1>2. CASE Start
  BY <1>0, <1>f, <1>g, <1>2 DEF Start, RunInv
<1>3. CASE PrepareRoot
  BY <1>0, <1>f, <1>g, <1>3 DEF PrepareRoot, RunInv
<1>4. CASE WriteOwner
  BY <1>0, <1>4 DEF WriteOwner, RunInv
<1>5. CASE NextEntry
  <2>1. CASE cancel /\ Return("paused")
    BY <1>0, <2>1 DEF RunInv
  <2>2. CASE cur > Len(task.entries) /\ Return("completed")
    <3>1. \A j \in Files : j < cur
      BY <1>f, <2>2 DEF FtpTypes
    <3>2. \A j \in Files : Whole(out[j])
      BY <1>5, <3>1 DEF NextEntry, RunInv
    <3> QED
      BY <1>0, <1>5, <2>2, <3>2 DEF NextEntry, RunInv
  <2>3. CASE cur \in Entries /\ (task.entries[cur].dir \/ CompletedFileMatches(cur))
             /\ cur' = cur + 1 /\ Goto("next")
    <3>1. cur \in Files => Whole(out[cur])
      BY <2>3 DEF CompletedFileMatches, FileInv, Files
    <3>2. \A j \in Files : j < cur + 1 => j < cur \/ j = cur
      BY <1>f, <2>3
    <3>3. \A j \in Files : j < cur + 1 => Whole(out[j])
      BY <1>5, <3>1, <3>2 DEF NextEntry, RunInv
    <3> QED
      BY <1>0, <1>5, <2>3, <3>3 DEF NextEntry, RunInv
  <2>4. CASE cur \in Entries /\ ~(task.entries[cur].dir \/ CompletedFileMatches(cur))
             /\ Goto("open") /\ Here
    <3>1. cur \in Files
      BY <2>4 DEF Files, Entries
    <3> QED
      BY <1>0, <1>5, <2>4, <3>1 DEF NextEntry, RunInv
  <2> QED
    BY <1>5, <2>1, <2>2, <2>3, <2>4 DEF NextEntry, Entries
<1>6. CASE OpenPart
  <2>1. cur \in Files /\ cur \in Entries
    BY <1>f, <1>6 DEF OpenPart, RunInv
  <2>2. ~Known(cur) => part'[cur] = <<>>
    BY <1>6, <2>1 DEF OpenPart, FtpTypes
  <2>3. /\ cur' = cur /\ pc' = "dial" /\ run' = "running" /\ received' = Len(part'[cur])
        /\ UNCHANGED <<out, version>>
    BY <1>6 DEF OpenPart
  <2>4. Known(cur)' \/ Fresh'
    <3>1. version[cur] \in Versions
      BY <2>1 DEF FtpTypes
    <3>2. DOMAIN <<>> = {} /\ Len(<<>>) = 0 /\ Length[version[cur]] \in Nat
      BY <3>1, Contents
    <3>3. part'[cur] = <<>> => Fresh'
      BY <2>3, <3>2 DEF Fresh
    <3> QED
      BY <1>0, <2>2, <2>3, <3>3
  <2> QED
    BY <1>0, <1>6, <2>1, <2>3, <2>4 DEF OpenPart, RunInv
<1>7. CASE AttemptFails
  BY <1>0, <1>f, <1>7 DEF AttemptFails, RunInv, Fresh
<1>8. CASE Wait
  BY <1>0, <1>f, <1>8 DEF Wait, RunInv, Fresh
<1>9. CASE Dial
  BY <1>0, <1>9 DEF Dial, RunInv, Fresh
<1>10. CASE RetrRefused
  <2>1. cur \in Files /\ cur \in Entries
    BY <1>f, <1>10 DEF RetrRefused, RunInv
  <2>2. /\ cur' = cur /\ pc' = "retr" /\ run' = "running" /\ received' = 0
        /\ UNCHANGED <<out, version>> /\ part'[cur] = <<>>
    BY <1>10, <2>1 DEF RetrRefused, FtpTypes
  <2>3. version[cur] \in Versions
    BY <2>1 DEF FtpTypes
  <2>4. DOMAIN <<>> = {} /\ Len(<<>>) = 0 /\ Length[version[cur]] \in Nat
    BY <2>3, Contents
  <2>5. Fresh'
    BY <2>2, <2>4 DEF Fresh
  <2>6. received' = Len(part'[cur'])
    BY <2>2, <2>4
  <2> QED
    BY <1>0, <1>10, <2>1, <2>2, <2>5, <2>6 DEF RetrRefused, RunInv
<1>11. CASE Retr
  BY <1>0, <1>11 DEF Retr, RunInv, Fresh
<1>12. CASE Read
  <2> DEFINE q == Append(part[cur], version[cur])
  <2>1. /\ cur \in Files /\ cur \in Entries /\ received = Len(part[cur])
        /\ part' = [part EXCEPT ![cur] = q]
    BY <1>12, ReadAppends
  <2>2. /\ cur' = cur /\ pc' = "stream" /\ run' = "running" /\ received' = received + 1
        /\ UNCHANGED <<out, version>> /\ received < Length[version[cur]]
    BY <1>12 DEF Read
  <2>3. part[cur] \in Seq(Versions) /\ version[cur] \in Versions
    BY <2>1 DEF FtpTypes
  <2>4. /\ Len(q) = received + 1 /\ DOMAIN q = 1 .. received + 1 /\ q[received + 1] = version[cur]
        /\ \A b \in 1 .. received : q[b] = part[cur][b] /\ b \in DOMAIN part[cur]
    BY <2>1, <2>3
  <2> HIDE DEF q
  <2>5. part'[cur] = q
    BY <2>1 DEF FtpTypes
  <2>6. ASSUME Fresh
        PROVE  Fresh'
    <3>1. received \in Nat /\ Length[version[cur]] \in Nat
      BY <2>3, Contents DEF FtpTypes
    <3>2. \A b \in DOMAIN q : b = received + 1 \/ b \in 1 .. received
      BY <2>4, <3>1
    <3>3. \A b \in DOMAIN q : q[b] = version[cur]
      BY <2>4, <2>6, <3>2 DEF Fresh
    <3>4. Len(q) <= Length[version[cur]]
      BY <2>2, <2>4, <3>1
    <3> QED
      BY <2>2, <2>5, <3>3, <3>4 DEF Fresh
  <2> QED
    BY <1>0, <1>12, <2>1, <2>2, <2>4, <2>5, <2>6 DEF Read, RunInv
<1>13. CASE EndOfData
  <2>1. /\ cur \in Files /\ received = Len(part[cur]) /\ (Known(cur) \/ Fresh)
        /\ received >= Length[version[cur]]
    BY <1>13 DEF EndOfData, RunInv
  <2>2. SizeRight => Whole(part[cur])
    BY <1>f, <2>1, EndIsWhole
  <2> QED
    BY <1>0, <1>13, <2>1, <2>2 DEF EndOfData, RunInv
<1>14. CASE RemoveOutput
  BY <1>0, <1>f, <1>14 DEF RemoveOutput, RunInv
<1>15. CASE Rename
  <2>1. cur \in Files /\ cur \in Entries /\ Whole(part[cur])
    BY <1>f, <1>15 DEF Rename, RunInv
  <2>2. out' = [out EXCEPT ![cur] = part[cur]]
    BY <1>15 DEF Rename
  <2>3. Whole(out'[cur]) /\ \A j \in Files : Whole(out[j]) => Whole(out'[j])
    BY <1>f, <2>1, <2>2 DEF FtpTypes
  <2>4. CASE task.directory
    BY <1>0, <1>15, <2>1, <2>3, <2>4 DEF Rename, RunInv
  <2>5. CASE ~task.directory
    <3>1. \A j \in Files : Whole(out'[j])
      BY <1>g, <1>15, <2>3, <2>5 DEF Rename, RunInv
    <3> QED
      BY <1>0, <1>15, <2>5, <3>1 DEF Rename, RunInv
  <2> QED
    BY <1>g, <2>4, <2>5
<1>16. CASE RemoveMarker
  BY <1>0, <1>16 DEF RemoveMarker, RunInv
<1>17. CASE WriteMarker
  <2>1. cur \in Files /\ Whole(out[cur]) /\ task.directory
    BY <1>17 DEF WriteMarker, RunInv
  <2>2. \A j \in Files : j < cur + 1 => j < cur \/ j = cur
    BY <1>f, <2>1
  <2>3. \A j \in Files : j < cur + 1 => Whole(out[j])
    BY <1>17, <2>1, <2>2 DEF WriteMarker, RunInv
  <2> QED
    BY <1>0, <1>17, <2>1, <2>3 DEF WriteMarker, RunInv
<1>18. CASE Cancel
  BY <1>0, <1>18 DEF Cancel, RunInv, Fresh
<1>19. CASE Crash
  BY <1>0, <1>19 DEF Crash, RunInv
<1>20. CASE Load
  BY <1>0, <1>20 DEF Load, RunInv
<1>21. CASE Cleanup
  BY <1>0, <1>21 DEF Cleanup, RunInv
<1>22. CASE Tamper
  BY <1>0, <1>22 DEF Tamper, RunInv
<1>23. CASE ReplaceRemote
  BY <1>0, <1>23 DEF ReplaceRemote, RunInv
<1>24. CASE UNCHANGED vars
  BY <1>0, <1>24 DEF vars, RunInv, Fresh
<1> QED
  BY <1>2, <1>3, <1>4, <1>5, <1>6, <1>7, <1>8, <1>9, <1>10, <1>11, <1>12, <1>13, <1>14, <1>15,
     <1>16, <1>17, <1>18, <1>19, <1>20, <1>21, <1>22, <1>23, <1>24 DEF Next, Step

-----------------------------------------------------------------------------
(* The root of a directory *)

\* A root is made, marked, removed or tampered with only where the step finds it
\* absent or the task's own, so a task that cannot be loaded has met two faults, or
\* found its title taken when it was added.
LEMMA RootInvInductive == FtpTypes /\ RootInv /\ [Next]_vars => RootInv'
<1> SUFFICES ASSUME FtpTypes, RootInv, [Next]_vars PROVE RootInv'
  OBVIOUS
<1>0. task' = task
  BY TaskFixed
<1>t. /\ name \in {"title", "ftp-id"} /\ faults \in Nat
      /\ root \in [{"title", "ftp-id"} -> {"absent", "bare", "mine", "foreign", "reserved"}]
  BY DEF FtpTypes, Outputs
<1> USE DEF At, Goto, Return, Here, transfer, bounds, disk, RootInv, Usable, Others
<1>1. CASE PrepareRoot
  <2>1. CASE root[name] = "absent" /\ root' = [root EXCEPT ![name] = "bare"] /\ Goto("owner") /\ Here
    BY <1>t, <1>1, <2>1 DEF PrepareRoot
  <2>2. CASE root[name] = "mine" /\ Goto("next") /\ Here /\ UNCHANGED root
    BY <1>t, <1>1, <2>2 DEF PrepareRoot
  <2>3. CASE ~Usable(name) /\ Return("failed") /\ UNCHANGED root
    BY <1>t, <1>1, <2>3 DEF PrepareRoot
  <2> QED
    BY <1>1, <2>1, <2>2, <2>3 DEF PrepareRoot
<1>2. CASE WriteOwner
  BY <1>t, <1>2 DEF WriteOwner
<1>3. CASE Crash
  BY <1>t, <1>3 DEF Crash, Fault
<1>4. CASE Load
  BY <1>t, <1>4 DEF Load, Prepare, Outputs
<1>5. CASE Cleanup
  BY <1>t, <1>5 DEF Cleanup, OwnerVerified
<1>6. CASE Tamper
  BY <1>t, <1>6 DEF Tamper, Fault
<1>7. CASE Start \/ Cancel \/ ReplaceRemote
  BY <1>t, <1>7 DEF Start, Cancel, ReplaceRemote
<1>8. CASE NextEntry \/ OpenPart \/ AttemptFails \/ Wait \/ Dial \/ RetrRefused \/ Retr \/ Read
           \/ EndOfData \/ RemoveOutput \/ Rename \/ RemoveMarker \/ WriteMarker
  <2>1. /\ run = "running" /\ pc # "owner" /\ pc' # "owner"
        /\ run' \in {"running", "paused", "completed", "failed"}
        /\ UNCHANGED <<name, root, faults>>
    BY <1>8 DEF NextEntry, OpenPart, AttemptFails, Wait, Dial, RetrRefused, Retr, Read,
       EndOfData, RemoveOutput, Rename, RemoveMarker, WriteMarker
  <2> QED
    BY <1>t, <2>1
<1>9. CASE UNCHANGED vars
  BY <1>9 DEF vars
<1> QED
  BY <1>1, <1>2, <1>3, <1>4, <1>5, <1>6, <1>7, <1>8, <1>9 DEF Next, Step

\* No step touches a root of somebody else.
LEMMA OthersUntouched ==
  ASSUME FtpTypes, RootInv, [Next]_vars, NEW n \in Outputs, root[n] \in Others
  PROVE  root'[n] = root[n]
<1>t. /\ name \in {"title", "ftp-id"} /\ n \in {"title", "ftp-id"}
      /\ root \in [{"title", "ftp-id"} -> {"absent", "bare", "mine", "foreign", "reserved"}]
  BY DEF FtpTypes, Outputs
<1> USE DEF At, bounds, disk, Usable, Others
<1>1. CASE PrepareRoot
  BY <1>t, <1>1 DEF PrepareRoot
<1>2. CASE WriteOwner
  BY <1>t, <1>2 DEF WriteOwner, RootInv
<1>3. CASE Cleanup
  BY <1>t, <1>3 DEF Cleanup, OwnerVerified
<1>4. CASE Tamper
  BY <1>t, <1>4 DEF Tamper
<1>5. CASE UNCHANGED root
  BY <1>5
<1> QED
  BY <1>1, <1>2, <1>3, <1>4, <1>5 DEF Next, Step, vars, Start, Cancel, ReplaceRemote, Crash, Load,
     NextEntry, OpenPart, AttemptFails, Wait, Dial, RetrRefused, Retr, Read, EndOfData,
     RemoveOutput, Rename, RemoveMarker, WriteMarker

-----------------------------------------------------------------------------
(* The inductive invariant, and what it implies *)

FtpInv == FtpTypes /\ ManifestDisjoint /\ FileInv /\ RunInv /\ RootInv

\* A task that has just been added, with nothing of it on the disk.
LEMMA FtpInitial == Init => FtpInv
<1> SUFFICES ASSUME Init PROVE FtpInv
  OBVIOUS
<1>1. FtpTypes /\ ManifestDisjoint
  BY FtpTypesInitial
<1>2. FileInv
  <2>1. \A i \in Entries : part[i] = <<>> /\ hash[i] = Absent
    BY DEF Init, Entries
  <2> QED
    BY <2>1 DEF FileInv
<1>3. RunInv
  BY DEF Init, RunInv
<1>4. RootInv
  <2>1. root["ftp-id"] = "absent" /\ run = "idle"
    BY DEF Init, Outputs
  <2>2. name = "ftp-id" => root["title"] \in Others
    BY DEF Init, Outputs, Others
  <2> QED
    BY <2>1, <2>2 DEF RootInv, Usable
<1> QED
  BY <1>1, <1>2, <1>3, <1>4 DEF FtpInv

\* Every step of a run, a crash and what the user does between two runs.
LEMMA FtpInductive == FtpInv /\ [Next]_vars => FtpInv'
<1> SUFFICES ASSUME FtpInv, [Next]_vars PROVE FtpInv'
  OBVIOUS
<1>1. ManifestDisjoint'
  BY TaskFixed DEF FtpInv, ManifestDisjoint
<1> QED
  BY <1>1, FtpTypesInductive, FileInvInductive, RunInvInductive, RootInvInductive DEF FtpInv

\* The state of the worker is well formed, and its parts, hashes, outputs and root are
\* what the runs before left (Run, runDirectory and PrepareFTPDirectoryOutput).
THEOREM FtpInvHolds == Spec => []FtpInv
  BY FtpInitial, FtpInductive, PTL DEF Spec

\* Whatever the server lists, no two entries of an accepted manifest meet on the disk:
\* neither names that safeFileName or the case makes equal, nor a file where another
\* entry needs a directory (safeRelativePath).
THEOREM ManifestsAreDisjoint == Spec => []ManifestDisjoint
  BY FtpInvHolds, PTL DEF FtpInv

\* A completed task has left every file whole and of one version, for every listing,
\* all lengths of the two versions and any number of runs, retries, crashes, edits and
\* replacements (Run, downloadDirectoryFile, completedFileMatches).
THEOREM CompletedIsWhole == Spec => []CompleteIsWhole
<1>1. FtpInv => CompleteIsWhole
  BY DEF FtpInv, RunInv, CompleteIsWhole, Whole
<1> QED
  BY <1>1, FtpInvHolds, PTL

\* A directory that somebody else made, or that another task is to make, is never
\* marked, moved into or removed (prepareDirectoryRoot, verifyFTPDirectoryOwner).
THEOREM ForeignRootsStay == Spec => ForeignUntouched
<1>1. FtpInv /\ [Next]_vars
        => [\A n \in Outputs : root[n] \in {"foreign", "reserved"} => root'[n] = root[n]]_root
  BY OthersUntouched DEF FtpInv, Others
<1> QED
  BY <1>1, FtpInvHolds, PTL DEF Spec, ForeignUntouched

\* A task added under its title is loaded again after any one crash or loss of the mark
\* (PrepareFTPDirectoryOutput, Scheduler.Load).
THEOREM LoadSurvives == Spec => []LoadSurvivesOneFault
<1>1. FtpInv => LoadSurvivesOneFault
  BY DEF FtpInv, RootInv, Others, LoadSurvivesOneFault
<1> QED
  BY <1>1, FtpInvHolds, PTL

-----------------------------------------------------------------------------
(* The limiter the transfers wait for (module Limiter): refilled lazily, it  *)
(* implements the bucket that fills steadily, for every set of downloads,    *)
(* every set of limits and every resolution of the clock                     *)

\* What the refinement needs of the state: what a Wait is asked for is not empty and
\* belongs to the chunk, and outside waitLimited and Wait no chunk is left.
Places == {"idle", "rate", "poll", "sleep", "cancelled"}
Pending(c) ==
  /\ place[c] \in {"idle", "cancelled"} => left[c] = 0
  /\ place[c] = "rate" => left[c] > 0
  /\ place[c] \in {"poll", "sleep"} => 1 <= need[c] /\ need[c] <= left[c]
LimiterInv ==
  /\ rate \in Rates
  /\ allowance \in 0 .. Capacity(rate)
  /\ elapsed \in 0 .. Second
  /\ need \in [Client -> Nat]
  /\ left \in [Client -> Nat]
  /\ place \in [Client -> Places]
  /\ \A c \in Client : Pending(c)

\* The products in Refilled are natural numbers, and one tick more adds one
\* tick's worth: all the arithmetic of the proof that is not linear.
LEMMA Products ==
  ASSUME NEW r \in Nat, NEW e \in Nat
  PROVE  /\ e * r \in Nat
         /\ (e + 1) * r = e * r + r
         /\ 0 * r = 0
         /\ r * e = e * r
OBVIOUS

\* Refilling stays within the capacity, and a limiter asked just now has
\* nothing to add.
LEMMA RefilledBounds ==
  ASSUME LimiterInv
  PROVE  /\ rate \in Nat /\ Capacity(rate) \in Nat
         /\ Refilled \in 0 .. Capacity(rate)
         /\ elapsed = 0 => Refilled = allowance
<1>1. rate \in Nat /\ Second \in Nat /\ elapsed \in Nat /\ Capacity(rate) = rate * Second
  BY LimiterAssumption DEF LimiterInv, Capacity
<1>2. Capacity(rate) \in Nat /\ elapsed * rate \in Nat
  BY <1>1, Products
<1>3. elapsed = 0 => elapsed * rate = 0
  BY <1>1, Products
<1> QED
  BY <1>1, <1>2, <1>3 DEF LimiterInv, Refilled, Least

\* NewLimiter: a full second of allowance and nobody waiting.
LEMMA LimiterInitial == LimiterInit => LimiterInv
<1> SUFFICES ASSUME LimiterInit PROVE LimiterInv
  OBVIOUS
<1>1. Capacity(rate) \in Nat
  BY LimiterAssumption, Products DEF LimiterInit, Capacity
<1> QED
  BY <1>1, LimiterAssumption DEF LimiterInit, LimiterInv, Places, Pending

\* Every step of the limiter and of a download that asks it.
LEMMA LimiterInductive == LimiterInv /\ [LimiterNext]_limiterVars => LimiterInv'
<1> SUFFICES ASSUME LimiterInv, [LimiterNext]_limiterVars PROVE LimiterInv'
  OBVIOUS
<1>1. /\ rate \in Nat /\ Capacity(rate) \in Nat
      /\ Refilled \in 0 .. Capacity(rate)
  BY RefilledBounds
<1>2. ASSUME NEW c \in Client, Ask(c)
      PROVE  LimiterInv'
  BY <1>2, LimiterAssumption DEF Ask, LimiterInv, Places, Pending
<1>3. ASSUME NEW c \in Client, ReadRate(c)
      PROVE  LimiterInv'
  <2>1. rate # 0 => Least(left[c], Capacity(rate)) \in 1 .. left[c]
    <3>1. rate # 0 => Capacity(rate) > 0
      BY <1>1, LimiterAssumption, Products DEF Capacity
    <3> QED
      BY <1>1, <1>3, <3>1 DEF ReadRate, LimiterInv, Pending, Least
  <2> QED
    BY <1>3, <2>1 DEF ReadRate, LimiterInv, Places, Pending
<1>4. ASSUME NEW c \in Client, Poll(c)
      PROVE  LimiterInv'
  <2>1. 1 <= need[c] /\ need[c] <= left[c] /\ UNCHANGED <<rate, need>>
    BY <1>4 DEF Poll, LimiterInv, Pending
  <2>2. ASSUME WaitReturns(c)
        PROVE  /\ left' \in [Client -> Nat] /\ place' \in [Client -> Places]
               /\ \A d \in Client : Pending(d)'
    <3>1. left' = [left EXCEPT ![c] = left[c] - need[c]] /\ left' \in [Client -> Nat]
      BY <2>1, <2>2 DEF WaitReturns, LimiterInv
    <3>2. place' \in [Client -> Places]
          /\ place'[c] = IF left'[c] > 0 THEN "rate" ELSE "idle"
      BY <2>2 DEF WaitReturns, LimiterInv, Places
    <3>3. \A d \in Client : d # c => left'[d] = left[d] /\ place'[d] = place[d]
      BY <2>2, <3>1 DEF WaitReturns, LimiterInv
    <3>4. Pending(c)'
      BY <2>1, <3>1, <3>2 DEF Pending
    <3>5. ASSUME NEW d \in Client, d # c
          PROVE  Pending(d)'
      BY <2>1, <3>3, <3>5 DEF LimiterInv, Pending
    <3> QED
      BY <3>1, <3>2, <3>4, <3>5
  <2>3. CASE rate = 0
    BY <1>4, <2>1, <2>2, <2>3 DEF Poll, LimiterInv
  <2>4. CASE rate # 0
    <3>1. elapsed' = 0
      BY <1>4, <2>4 DEF Poll
    <3>2. CASE Deficit(c) <= 0
      BY <1>1, <1>4, <2>1, <2>2, <2>4, <3>1, <3>2, LimiterAssumption
      DEF Poll, Spend, Deficit, LimiterInv
    <3>3. CASE ~(Deficit(c) <= 0)
      BY <1>1, <1>4, <2>1, <2>4, <3>1, <3>3, LimiterAssumption
      DEF Poll, LimiterInv, Places, Pending
    <3> QED
      BY <3>2, <3>3
  <2> QED
    BY <2>3, <2>4
<1>5. ASSUME NEW c \in Client, CancelWait(c)
      PROVE  LimiterInv'
  BY <1>5 DEF CancelWait, LimiterInv, Places, Pending
<1>6. ASSUME NEW r \in Rates, SetRate(r)
      PROVE  LimiterInv'
  <2>1. Capacity(r) \in Nat
    BY LimiterAssumption, Products DEF Capacity
  <2>2. allowance' \in 0 .. Capacity(rate')
    BY <1>1, <1>6, <2>1 DEF SetRate, Least
  <2> QED
    BY <1>6, <2>2, LimiterAssumption DEF SetRate, LimiterInv, Pending
<1>7. CASE Tick
  BY <1>7, LimiterAssumption DEF Tick, LimiterInv, Pending, Least
<1>8. CASE UNCHANGED limiterVars
  BY <1>8 DEF limiterVars, LimiterInv, Pending
<1> QED
  BY <1>2, <1>3, <1>4, <1>5, <1>6, <1>7, <1>8 DEF LimiterNext

\* Every step of the limiter is a step of the bucket: a poll that grants takes as
\* many bytes as it grants, a poll that does not grant them only writes down what had
\* already flowed in, and a tick fills the bucket though the limiter itself does
\* nothing.
Cancelled == {c \in Client : place[c] = "cancelled"}
LEMMA LimiterStep ==
  LimiterInv /\ [LimiterNext]_limiterVars => [Bucket!Next]_<<rate, Refilled, left, Cancelled>>
<1> SUFFICES ASSUME LimiterInv, [LimiterNext]_limiterVars
             PROVE  [Bucket!Next]_<<rate, Refilled, left, Cancelled>>
  OBVIOUS
<1>1. /\ rate \in Nat /\ Capacity(rate) \in Nat
      /\ Refilled \in 0 .. Capacity(rate)
  BY RefilledBounds
<1>2. LimiterInv'
  BY LimiterInductive
<1>3. elapsed' = 0 => Refilled' = allowance'
  <2>1. rate' \in Nat /\ allowance' \in 0 .. Capacity(rate')
    BY <1>2, LimiterAssumption DEF LimiterInv
  <2>2. SUFFICES ASSUME elapsed' = 0 PROVE Refilled' = allowance'
    OBVIOUS
  <2>3. elapsed' * rate' = 0
    BY <2>1, <2>2, Products
  <2>4. Capacity(rate') \in Nat
    BY <2>1, LimiterAssumption, Products DEF Capacity
  <2>5. Refilled' = IF rate' = 0 THEN allowance'
                   ELSE Least(Capacity(rate'), allowance' + elapsed' * rate')
    BY DEF Refilled, Least, Capacity
  <2> QED
    BY <2>1, <2>3, <2>4, <2>5 DEF Least
<1>4. UNCHANGED <<rate, allowance, elapsed>> => UNCHANGED <<rate, Refilled>>
  BY DEF Refilled
<1>5. ASSUME NEW c \in Client, Poll(c)
      PROVE  [Bucket!Next]_<<rate, Refilled, left, Cancelled>>
  <2>1. rate' = rate /\ need[c] \in 1 .. left[c] /\ place[c] \in {"poll", "sleep"}
    BY <1>5 DEF Poll, LimiterInv, Pending
  <2>2. ASSUME WaitReturns(c)
        PROVE  Bucket!Grant(c, need[c])
    <3>1. Cancelled' = Cancelled
      BY <2>1, <2>2 DEF WaitReturns, Cancelled, LimiterInv
    <3> QED
      BY <2>1, <2>2, <3>1 DEF WaitReturns, Bucket!Grant, Cancelled, LimiterInv
  <2>3. CASE rate = 0
    <3>1. WaitReturns(c) /\ Refilled' = Refilled
      BY <1>4, <1>5, <2>1, <2>3 DEF Poll
    <3> QED
      BY <2>1, <2>2, <2>3, <3>1 DEF Bucket!Next, Bucket!Free
  <2>4. CASE rate # 0
    <3>1. Refilled' = allowance'
      BY <1>3, <1>5, <2>4 DEF Poll
    <3>2. CASE Deficit(c) <= 0
      <4>1. WaitReturns(c) /\ Refilled' = Refilled - need[c]
        BY <1>5, <2>4, <3>1, <3>2 DEF Poll, Spend
      <4>2. need[c] \in 1 .. Refilled
        BY <1>1, <2>1, <3>2 DEF Deficit, LimiterInv
      <4> QED
        BY <1>1, <2>1, <2>2, <2>4, <4>1, <4>2 DEF Bucket!Next, Bucket!Take
    <3>3. CASE ~(Deficit(c) <= 0)
      <4>1. place' = [place EXCEPT ![c] = "sleep"] /\ left' = left /\ Refilled' = Refilled
        BY <1>5, <2>4, <3>1, <3>3 DEF Poll
      <4> QED
        BY <2>1, <4>1 DEF Cancelled, LimiterInv
    <3> QED
      BY <3>2, <3>3
  <2> QED
    BY <2>3, <2>4
<1>6. ASSUME NEW r \in Rates, SetRate(r)
      PROVE  [Bucket!Next]_<<rate, Refilled, left, Cancelled>>
  <2>1. rate' = r /\ Refilled' = Least(Capacity(r), Refilled) /\ UNCHANGED <<left, Cancelled>>
    BY <1>3, <1>6 DEF SetRate, Cancelled
  <2> QED
    BY <2>1 DEF Bucket!Next, Bucket!Change, Bucket!Least, Bucket!Capacity, Least, Capacity, Cancelled
<1>7. CASE Tick
  <2> DEFINE full == Capacity(rate)
             flow == elapsed * rate
  <2>1. /\ rate' = rate /\ allowance' = allowance
        /\ elapsed' = Least(Second, elapsed + 1)
        /\ UNCHANGED <<left, Cancelled>>
    BY <1>7 DEF Tick, Cancelled
  <2>2. elapsed \in Nat /\ Second \in Nat /\ elapsed <= Second /\ allowance \in Nat
    BY <1>1, LimiterAssumption DEF LimiterInv
  <2>3. flow \in Nat /\ (elapsed + 1) * rate = flow + rate /\ full = Second * rate
    BY <1>1, <2>2, Products DEF Capacity
  <2>4. CASE rate = 0
    BY <2>1, <2>4 DEF Refilled
  <2>5. CASE rate # 0
    <3>1. Refilled = Least(full, allowance + flow)
      BY <2>5 DEF Refilled
    <3>2. Refilled' = Least(full, allowance + elapsed' * rate)
      BY <2>1, <2>5 DEF Refilled, Capacity, Least
    <3>3. Refilled' = Least(full, Refilled + rate)
      <4>1. CASE elapsed < Second
        <5>1. elapsed' * rate = flow + rate
          BY <2>1, <2>2, <2>3, <4>1 DEF Least
        <5> HIDE DEF flow, full
        <5> QED
          BY <1>1, <2>2, <2>3, <3>1, <3>2, <5>1 DEF Least
      <4>2. CASE elapsed = Second
        <5>1. elapsed' = elapsed /\ flow = full
          BY <2>1, <2>2, <2>3, <4>2 DEF Least
        <5>2. elapsed' * rate = flow
          BY <5>1
        <5> HIDE DEF flow, full
        <5> QED
          BY <1>1, <2>2, <2>3, <3>1, <3>2, <5>1, <5>2 DEF Least
      <4> QED
        BY <2>2, <4>1, <4>2
    <3> QED
      BY <2>1, <3>3
      DEF Bucket!Next, Bucket!Fill, Bucket!Least, Bucket!Capacity, Least, Capacity, Cancelled
  <2> QED
    BY <2>4, <2>5
<1>8. ASSUME NEW c \in Client, Ask(c)
      PROVE  Bucket!Ask(c)
  <2>1. left[c] = 0 /\ left'[c] \in Nat \ {0} /\ left' = [left EXCEPT ![c] = left'[c]]
    BY <1>8 DEF Ask, LimiterInv, Pending
  <2>2. Cancelled' = Cancelled \ {c}
    BY <1>8 DEF Ask, Cancelled, LimiterInv
  <2>3. Refilled' = Refilled /\ rate' = rate
    BY <1>4, <1>8 DEF Ask, Refilled
  <2> QED
    BY <2>1, <2>2, <2>3 DEF Bucket!Ask, Cancelled
<1>9. ASSUME NEW c \in Client, CancelWait(c)
      PROVE  Bucket!Abandon(c)
  <2>1. left[c] > 0 /\ left' = [left EXCEPT ![c] = 0]
    BY <1>9 DEF CancelWait, LimiterInv, Pending
  <2>2. Cancelled' = Cancelled \cup {c}
    BY <1>9 DEF CancelWait, Cancelled, LimiterInv
  <2>3. Refilled' = Refilled /\ rate' = rate
    BY <1>9 DEF CancelWait, Refilled
  <2> QED
    BY <2>1, <2>2, <2>3 DEF Bucket!Abandon, Cancelled
<1>10. ASSUME NEW c \in Client, ReadRate(c)
       PROVE  [Bucket!Next]_<<rate, Refilled, left, Cancelled>>
  <2>1. Refilled' = Refilled /\ rate' = rate
    BY <1>10 DEF ReadRate, Refilled
  <2>2. Cancelled' = Cancelled
    BY <1>10 DEF ReadRate, Cancelled, LimiterInv
  <2>3. CASE rate = 0
    <3>1. left[c] \in 1 .. left[c] /\ left' = [left EXCEPT ![c] = left[c] - left[c]]
      BY <1>10, <2>3 DEF ReadRate, LimiterInv, Pending
    <3>2. Bucket!Grant(c, left[c])
      BY <2>2, <3>1 DEF Bucket!Grant, Cancelled
    <3> QED
      BY <2>1, <2>3, <3>1, <3>2 DEF Bucket!Next, Bucket!Free
  <2>4. CASE rate # 0
    BY <1>10, <2>1, <2>2, <2>4 DEF ReadRate
  <2> QED
    BY <2>3, <2>4
<1>11. CASE UNCHANGED limiterVars
  BY <1>4, <1>11 DEF limiterVars, Cancelled
<1> QED
  BY <1>5, <1>6, <1>7, <1>8, <1>9, <1>10, <1>11 DEF LimiterNext, Bucket!Next

\* A new limiter is a full bucket.
LEMMA LimiterStart == LimiterInit => Bucket!Init
<1> SUFFICES ASSUME LimiterInit PROVE Bucket!Init
  OBVIOUS
<1>1. LimiterInv /\ elapsed = 0
  BY LimiterInitial DEF LimiterInit
<1>2. Refilled = allowance
  BY <1>1, RefilledBounds
<1> QED
  BY <1>2 DEF LimiterInit, Bucket!Init, Bucket!Capacity, Capacity

\* limiter.go: the lazily refilled limiter grants each download the bytes by which
\* the steadily filling bucket falls and no others, whatever its clients, their
\* chunks, their polls and cancellations and the changes of the limit are.
THEOREM LimiterImplementsBucket == LimiterSpec => IsTokenBucket
<1>1. LimiterInit => Bucket!Init
  BY LimiterStart
<1>2. LimiterInit => LimiterInv
  BY LimiterInitial
<1>3. LimiterInv /\ [LimiterNext]_limiterVars => LimiterInv'
  BY LimiterInductive
<1>4. LimiterInv /\ [LimiterNext]_limiterVars => [Bucket!Next]_<<rate, Refilled, left, Cancelled>>
  BY LimiterStep
<1> QED
  BY <1>1, <1>2, <1>3, <1>4, PTL
  DEF LimiterSpec, IsTokenBucket, Bucket!Spec, Bucket!vars, Cancelled
=============================================================================
