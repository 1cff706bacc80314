----------------------------- MODULE FtpListing -----------------------------
(***************************************************************************)
(* How the walk through a remote directory becomes the manifest of an FTP  *)
(* directory task (listDirectory and safeRelativePath in                   *)
(* internal/download/ftp/ftp.go).                                          *)
(*                                                                         *)
(* A walk is a sequence of entries [path, dir]; a path is a sequence of    *)
(* names.  What counts of a name is what safeFileName makes of it, in      *)
(* lower case, for Windows does not tell the case of names apart.          *)
(***************************************************************************)
EXTENDS Naturals, Sequences, SequencesExt

CONSTANTS
  CleanName,    \* CleanName[name]: safeFileName, then strings.ToLower
  Marker        \* core.FTPDirectoryOwnerMarker, in lower case

Key(path) == [i \in DOMAIN path |-> CleanName[path[i]]]

\* The keys a path claims: its parents as directories, itself as it is.
Claims(entry) ==
  LET key == Key(entry.path)
  IN  [k \in {SubSeq(key, 1, n) : n \in 1 .. Len(key)} |->
         Len(k) < Len(key) \/ entry.dir]

Refused == [refused |-> TRUE, seen |-> <<>>, entries |-> <<>>]

\* Faulty variant of SafeRelativePath: a file may lie where a directory is.
SafeRelativePathDuplicates(list, entry) ==
  Key(entry.path)[1] # Marker /\ Key(entry.path) \notin DOMAIN list.seen

\* safeRelativePath: the marker's name is reserved, no key is a file and a
\* directory, and no entry is cleaned to the name of another one.
SafeRelativePath(list, entry) ==
  LET claims == Claims(entry)
      seen == list.seen
  IN  /\ Key(entry.path)[1] # Marker
      /\ \A k \in DOMAIN claims \cap DOMAIN seen : seen[k] = claims[k]
      /\ Key(entry.path) \notin DOMAIN seen

\* listDirectory: one refused entry refuses the directory.
ListEntry(list, entry) ==
  IF list.refused \/ ~SafeRelativePath(list, entry) THEN Refused
  ELSE [refused |-> FALSE,
        seen    |-> [k \in DOMAIN list.seen \cup DOMAIN Claims(entry) |->
                       IF k \in DOMAIN list.seen THEN list.seen[k] ELSE Claims(entry)[k]],
        entries |-> Append(list.entries, entry)]

ListDirectory(walk) ==
  LET list[n \in 0 .. Len(walk)] ==
        IF n = 0 THEN [refused |-> FALSE, seen |-> <<>>, entries |-> <<>>]
        ELSE ListEntry(list[n - 1], walk[n])
  IN  list[Len(walk)]

\* Two entries of a manifest never meet on disk: no two have one name, and
\* nothing lies under a file.
Disjoint(entries) ==
  \A i, j \in DOMAIN entries : i # j =>
    LET a == Key(entries[i].path)
        b == Key(entries[j].path)
    IN  a # b /\ ~(IsPrefix(a, b) /\ ~entries[i].dir)
=============================================================================
