---------------------------- MODULE MCFtpDownload ----------------------------
(* An instance of FtpDownload for TLC. *)
EXTENDS FtpDownload

\* "A." is cleaned to "A"
CleanKey == [n \in {"a", "A.", "d", "marker"} |-> IF n = "A." THEN "a" ELSE n]

File(path) == [path |-> path, dir |-> FALSE]
Folder(path) == [path |-> path, dir |-> TRUE]

\* Two files, a file in a directory, and every way in which entries collide
SmallWalks ==
  {<<File(<<"a">>)>>, <<File(<<"a">>), File(<<"d", "a">>)>>,
   <<Folder(<<"A.">>), File(<<"a", "d">>)>>,
   <<File(<<"a">>), Folder(<<"A.">>)>>, <<File(<<"a">>), File(<<"A.">>)>>,
   <<File(<<"a">>), File(<<"A.", "d">>)>>, <<File(<<"A.", "d">>), File(<<"a">>)>>,
   <<File(<<"marker">>)>>}

\* The file has two bytes, the one that replaces it has one.
Lengths == <<2, 1>>
=============================================================================
