---------------------------- MODULE MCDiscussion ----------------------------
(***************************************************************************)
(* Small instances of Discussion for TLC.                                  *)
(***************************************************************************)
EXTENDS Discussion, TLC

CONSTANT owner

MCOrganiser == [e \in Event |-> owner]

WorkerSymmetry == Permutations(Worker)
=============================================================================
