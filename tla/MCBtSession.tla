----------------------------- MODULE MCBtSession -----------------------------
(* Instances of BtSession: two files; the first piece lies in both, the    *)
(* second in the second file only.                                          *)
EXTENDS BtSession, TLC

TwoFiles == <<1, 2>>
Symmetry == Permutations(Proc)
=============================================================================
