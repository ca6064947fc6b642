------------------------------ MODULE MCMedia ------------------------------
(***************************************************************************)
(* A small instance of Media for TLC: one of the users organises.          *)
(***************************************************************************)
EXTENDS Media, TLC

CONSTANTS ann

MCOrganiser == [e \in Event |-> ann]

Symmetry == Permutations(Worker) \cup Permutations(MediaId)
=============================================================================
