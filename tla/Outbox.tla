------------------------------- MODULE Outbox -------------------------------
(***************************************************************************)
(* What the e-mail sender promises to the request handlers: mails wait in  *)
(* a queue of bounded length and are handed to the mail server one at a    *)
(* time, in the order in which they were accepted and each at most once,   *)
(* until the process ends and takes those that wait with it.               *)
(***************************************************************************)
EXTENDS Integers, Sequences

CONSTANT Capacity

VARIABLES
  waiting,        \* mails that were accepted, as records with an id
  done,           \* mails that were handed over
  last,           \* the last id issued, to a mail that was accepted or dropped
  closed          \* the process has ended

outbox == <<waiting, done, last, closed>>

Init == waiting = <<>> /\ done = <<>> /\ last = 0 /\ closed = FALSE

\* A list of new mails joins the queue as a whole, or is dropped as a whole.
Accept ==
  /\ ~closed
  /\ last' > last
  /\ \/ UNCHANGED waiting
     \/ /\ Len(waiting') = Len(waiting) + (last' - last)
        /\ Len(waiting') <= Capacity
        /\ SubSeq(waiting', 1, Len(waiting)) = waiting
        /\ \A i \in 1..(last' - last) : waiting'[Len(waiting) + i].id = last + i
  /\ UNCHANGED <<done, closed>>

HandOver ==
  /\ ~closed
  /\ waiting # <<>>
  /\ done' = Append(done, Head(waiting))
  /\ waiting' = Tail(waiting)
  /\ UNCHANGED <<last, closed>>

Close ==
  /\ ~closed
  /\ closed' = TRUE
  /\ UNCHANGED <<waiting, done, last>>

Next == Accept \/ HandOver \/ Close
Spec == Init /\ [][Next]_outbox
=============================================================================
