---------------------------- MODULE MCEmailQueue ----------------------------
(***************************************************************************)
(* EmailQueue for TLC.  A behaviour ends with the process.                 *)
(***************************************************************************)
EXTENDS EmailQueue
=============================================================================
