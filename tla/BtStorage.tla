------------------------------ MODULE BtStorage ------------------------------
(***************************************************************************)
(* Files and piece-completion database of a BitTorrent task: the           *)
(* resumeFileStorage of internal/download/bt/resume_storage.go, with the   *)
(* paths newTorrentTransfer gives it (storagePaths of worker.go).          *)
(*                                                                         *)
(* A selected file lies under the task's title, the others under           *)
(* .gd3_unselected; a piece may span files.  The database is keyed by the  *)
(* piece alone.  Content is reduced to one bit for each byte: whether it   *)
(* is what the torrent says.                                               *)
(***************************************************************************)
EXTENDS Integers, Sequences, FiniteSets

CONSTANTS
  FileLen,     \* the lengths of the torrent's files, in order
  PieceLen     \* the piece length

ASSUME LayoutAssumption ==
  /\ FileLen \in Seq(Nat)
  /\ Len(FileLen) > 0
  /\ PieceLen \in Nat \ {0}

File == DOMAIN FileLen
Places == {"title", "unselected"}
Absent == -1     \* the size of a file that does not exist

Offset[f \in File] == IF f = 1 THEN 0 ELSE Offset[f - 1] + FileLen[f - 1]
Total == Offset[Len(FileLen)] + FileLen[Len(FileLen)]
Piece == 0 .. (Total - 1) \div PieceLen

\* The bytes of the torrent in piece p, and those in file f.
PieceBytes == [p \in Piece |-> {b \in 0 .. Total - 1 : b \div PieceLen = p}]
FileBytes  == [f \in File |-> Offset[f] .. Offset[f] + FileLen[f] - 1]

\* entryAt: the file that byte b belongs to.
EntryAt == [b \in 0 .. Total - 1 |-> CHOOSE f \in File : b \in FileBytes[f]]

VARIABLES
  size,      \* size[f][place]: the size of the file there, or Absent
  good,      \* good[f][place]: its bytes that are what the torrent says
  unsynced,  \* <<f, place, byte>> written and not yet flushed
  db         \* the Bolt database: what it says of each piece

disk == <<size, good, unsynced>>

\* storagePaths: where a session that downloads the files sel keeps file f.
StoragePath(sel, f) == IF f \in sel THEN "title" ELSE "unselected"

\* checkExtent: the files piece p lies in are long enough to hold it.
CheckExtent(sel, p) ==
  \A b \in PieceBytes[p] :
    LET f == EntryAt[b] IN size[f][StoragePath(sel, f)] > b - Offset[f]

\* What hashing piece p finds, reading it from the session's paths.
ReadsGood(sel, p) ==
  \A b \in PieceBytes[p] :
    LET f == EntryAt[b] IN b \in good[f][StoragePath(sel, f)]

\* OpenTorrent: a file that is too long is cut, an empty one is created.
OpenTorrent(sel) ==
  size' = [f \in File |-> [size[f] EXCEPT ![StoragePath(sel, f)] =
             IF @ > FileLen[f] THEN FileLen[f]
             ELSE IF @ = Absent /\ FileLen[f] = 0 THEN 0 ELSE @]]

\* Completion, asked for every piece when the torrent is added: a piece whose
\* files are too short is no longer complete, and the database is told so.
Completion(sel) ==
  db' = [p \in Piece |->
          IF db[p] = "yes" /\ ~CheckExtent(sel, p) THEN "no" ELSE db[p]]

\* writeAt, for one byte of a piece; what arrives may be wrong.
WriteAt(sel, b, ok) ==
  LET f == EntryAt[b]
      at == StoragePath(sel, f)
      end == b - Offset[f] + 1
  IN  /\ size' = [size EXCEPT ![f][at] = IF @ < end THEN end ELSE @]
      /\ good' = [good EXCEPT ![f][at] = IF ok THEN @ \cup {b} ELSE @ \ {b}]
      /\ unsynced' = unsynced \cup {<<f, at, b>>}

\* Faulty variant of SyncExtent: nothing is flushed.
NoSync(sel, p) == UNCHANGED unsynced

\* syncExtent: the files that piece p lies in are flushed, whole.
SyncExtent(sel, p) ==
  unsynced' = {u \in unsynced :
                 ~\E b \in PieceBytes[p] :
                    u[1] = EntryAt[b] /\ u[2] = StoragePath(sel, u[1])}

\* MarkComplete and MarkNotComplete after the flush: one database entry.
Mark(p, complete) == db' = [db EXCEPT ![p] = IF complete THEN "yes" ELSE "no"]

\* The machine stops: bytes that were not flushed are lost, the sizes stay.
LosePower ==
  \E lost \in SUBSET unsynced :
    /\ good' = [f \in File |-> [at \in Places |->
                  good[f][at] \ {b \in FileBytes[f] : <<f, at, b>> \in lost}]]
    /\ unsynced' = {}
    /\ UNCHANGED size

\* CleanupFiles of a bt task: the title with all that lies under it, then the
\* database.  A file in use may stop it after some of the files.
RemoveFiles(gone) ==
  /\ size' = [f \in File |-> IF f \in gone THEN [at \in Places |-> Absent] ELSE size[f]]
  /\ good' = [f \in File |-> IF f \in gone THEN [at \in Places |-> {}] ELSE good[f]]
  /\ unsynced' = {u \in unsynced : u[1] \notin gone}
=============================================================================
