------------------------------ MODULE Gallery ------------------------------
(***************************************************************************)
(* What the pictures promise to those who look at the pages, one change at *)
(* a time.  A place, which is an event or a person, shows a picture that   *)
(* was added for it.  A picture is shown by one place, for one stretch of  *)
(* time: it never returns to a page it has left, nor after its removal.    *)
(* The end of an event takes everything with it that was added for it.     *)
(***************************************************************************)
CONSTANTS Event, Person, Picture, None

VARIABLES
  events,         \* the events that are there
  pictures,       \* the pictures that are there: event, and whether to cover it; or None
  used,           \* the pictures that were ever added
  fresh,          \* the pictures that are still to be shown
  shown           \* the picture that each place shows, or None

gallery == <<events, pictures, used, fresh, shown>>

Place == Event \cup Person

\* What the picture that place p shows is recorded as.
Own(p) == [event |-> IF p \in Event THEN p ELSE None, cover |-> p \in Event]

Init ==
  /\ events = Event
  /\ pictures = [m \in Picture |-> None]
  /\ used = {}
  /\ fresh = {}
  /\ shown = [p \in Place |-> None]

\* A picture to be shown, or one that is only listed with its event.
Add(m) ==
  /\ m \notin used
  /\ \E e \in events \cup {None}, cover \in BOOLEAN :
       pictures' = [pictures EXCEPT ![m] = [event |-> e, cover |-> cover]]
  /\ used' = used \cup {m}
  /\ fresh' \in {fresh, fresh \cup {m}}
  /\ UNCHANGED <<events, shown>>

Show(m, p) ==
  /\ m \in fresh
  /\ pictures[m] = Own(p)
  /\ shown' = [shown EXCEPT ![p] = m]
  /\ fresh' = fresh \ {m}
  /\ UNCHANGED <<events, pictures, used>>

\* Nobody will show it any more.
PassOver(m) ==
  /\ fresh' = fresh \ {m}
  /\ UNCHANGED <<events, pictures, used, shown>>

Hide(p) ==
  /\ shown' = [shown EXCEPT ![p] = None]
  /\ UNCHANGED <<events, pictures, used, fresh>>

TakeDown(gone) ==
  /\ pictures' = [m \in Picture |-> IF m \in gone THEN None ELSE pictures[m]]
  /\ shown' = [p \in Place |-> IF shown[p] \in gone THEN None ELSE shown[p]]
  /\ fresh' = fresh \ gone
  /\ UNCHANGED used

Remove(m) == TakeDown({m}) /\ UNCHANGED events

End(e) ==
  /\ events' = events \ {e}
  /\ TakeDown({m \in Picture : pictures[m] # None /\ pictures[m].event = e})

Next ==
  \/ \E m \in Picture :
       \/ Add(m) \/ PassOver(m) \/ Remove(m)
       \/ \E p \in Place : Show(m, p)
  \/ \E p \in Place : Hide(p)
  \/ \E e \in events : End(e)

Spec == Init /\ [][Next]_gallery
=============================================================================
