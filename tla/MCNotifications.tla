-------------------------- MODULE MCNotifications --------------------------
(***************************************************************************)
(* A small instance of Notifications for TLC.                              *)
(***************************************************************************)
EXTENDS Notifications, TLC

Symmetry == Permutations(Worker) \cup Permutations(Poll)
=============================================================================
