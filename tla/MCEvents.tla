------------------------------ MODULE MCEvents ------------------------------
(***************************************************************************)
(* Small instances of Events for TLC.                                      *)
(***************************************************************************)
EXTENDS Events, TLC

CONSTANTS owner, guest

MCOrganiser == [e \in Event |-> owner]

Save(p, a, r) == [NoForm EXCEPT !.public = p, !.added = a, !.removed = r]
Publish(p, a) == [Save(p, a, {}) EXCEPT !.publish = TRUE]
Full(form) == [form EXCEPT !.details = TRUE]

\* Whatever can be left out is left out in one of them; an event is created with a
\* full one.
MCForms ==
  {Save("public", {}, {}), Save("private", {}, {}), Full(Save("unsent", {}, {})),
   Save("unsent", {guest}, {}), Save("unsent", {}, {guest}),
   [Full(Save("unsent", {guest}, {})) EXCEPT !.twice = {guest}],
   Full(Publish("unsent", {})), Full(Publish("public", {})), Full(Publish("private", {guest}))}

\* Enough to publish an event from a draft, at once, and from two workers.
PublishForms ==
  {Full(Save("unsent", {guest}, {})), Full(Publish("public", {guest}))}

\* A private event, published together with its last invitation.
LastInvitation == {Publish("private", {guest}), Full(Save("private", {}, {}))}

WorkerSymmetry == Permutations(Worker)
=============================================================================
