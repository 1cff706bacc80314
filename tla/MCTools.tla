-------------------------------- MODULE MCTools --------------------------------
(* Every kind of call, pipes of two writes and three writes of progress. *)
EXTENDS Tools

MCKinds == AllKinds
=============================================================================
