------------------------------ MODULE NewsLog ------------------------------
(***************************************************************************)
(* What the notifications of one user promise: they are numbered as they   *)
(* are created, the pages show them without a gap from the first one, and  *)
(* only what some page has shown is ever recorded as seen.                 *)
(***************************************************************************)
EXTENDS Integers

VARIABLES
  latest,         \* notifications 1 .. latest exist
  shown,          \* those that some page has shown
  seen            \* the user is recorded to have seen all up to this one

log == <<latest, shown, seen>>

Init == latest = 0 /\ shown = {} /\ seen = 0

Create ==
  /\ latest' = latest + 1
  /\ UNCHANGED <<shown, seen>>

Show ==
  /\ \E n \in 1..latest : shown' = shown \cup 1..n
  /\ UNCHANGED <<latest, seen>>

See ==
  /\ seen' \in shown \cup {0}
  /\ UNCHANGED <<latest, shown>>

Next == Create \/ Show \/ See
Spec == Init /\ [][Next]_log
=============================================================================
