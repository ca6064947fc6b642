----------------------------- MODULE MCEditForm -----------------------------
(***************************************************************************)
(* A small instance of EditForm for TLC.                                   *)
(***************************************************************************)
EXTENDS EditForm
=============================================================================
