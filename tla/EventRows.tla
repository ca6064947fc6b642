------------------------------ MODULE EventRows ------------------------------
(***************************************************************************)
(* The life of an event as the rest of the system sees it, one row change  *)
(* at a time.  Publishing cannot be undone ("it is not possible to reverse *)
(* this action", the edit page warns), and a deleted event never comes     *)
(* back and takes its attendees and its guest list with it.  Events is     *)
(* shown to implement it; these are the events Discussion runs among.      *)
(***************************************************************************)
CONSTANTS User, Event

VARIABLES
  visibility,     \* "none", "draft", "private", "public" or "deleted", by event
  attending,      \* pairs <<event, user>>
  invited         \* pairs <<event, user>>

rows == <<visibility, attending, invited>>

Here(e) == visibility[e] \in {"draft", "private", "public"}

Init ==
  /\ visibility = [e \in Event |-> "none"]
  /\ attending = {}
  /\ invited = {}

Create(e) ==
  /\ visibility[e] = "none"
  /\ \E v \in {"draft", "private", "public"} : visibility' = [visibility EXCEPT ![e] = v]
  /\ UNCHANGED <<attending, invited>>

\* An edit that leaves a draft a draft changes nothing here.
Edit(e) ==
  /\ Here(e)
  /\ \E v \in {"private", "public"} : visibility' = [visibility EXCEPT ![e] = v]
  /\ UNCHANGED <<attending, invited>>

Delete(e) ==
  /\ Here(e)
  /\ visibility' = [visibility EXCEPT ![e] = "deleted"]
  /\ attending' = {p \in attending : p[1] # e}
  /\ invited' = {p \in invited : p[1] # e}

Attend(e, u) ==
  /\ Here(e)
  /\ attending' \in {attending \cup {<<e, u>>}, attending \ {<<e, u>>}}
  /\ UNCHANGED <<visibility, invited>>

Invite(e, u) ==
  /\ Here(e)
  /\ invited' \in {invited \cup {<<e, u>>}, invited \ {<<e, u>>}}
  /\ UNCHANGED <<visibility, attending>>

Next == \E e \in Event :
  \/ Create(e) \/ Edit(e) \/ Delete(e)
  \/ \E u \in User : Attend(e, u) \/ Invite(e, u)

Spec == Init /\ [][Next]_rows
=============================================================================
