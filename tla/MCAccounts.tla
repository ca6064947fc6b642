----------------------------- MODULE MCAccounts -----------------------------
(***************************************************************************)
(* A small instance of Accounts for TLC.                                   *)
(***************************************************************************)
EXTENDS Accounts, TLC

\* Five, six and eleven minutes within an hour, and the first of the next one.
MCMinutes == {44, 49, 55, 60}

Symmetry == Permutations(Worker) \cup Permutations(Token)
=============================================================================
