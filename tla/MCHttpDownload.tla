---------------------------- MODULE MCHttpDownload ----------------------------
(* Instances of HttpDownload for TLC. *)
EXTENDS HttpDownload

\* A file of four bytes in two parts, and one of unknown size
RangeStages ==
  {[size |-> 4, total |-> 4, range |-> TRUE, blocks |-> 2],
   [size |-> 0, total |-> 2, range |-> TRUE, blocks |-> 2]}

\* A server without ranges
PlainStages == {[size |-> 2, total |-> 2, range |-> FALSE, blocks |-> 2]}
=============================================================================
