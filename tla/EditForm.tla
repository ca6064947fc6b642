----------------------------- MODULE EditForm -----------------------------
(***************************************************************************)
(* The page on which an organiser edits an event (Frontend/init.js), with  *)
(* the list of invitations that it compares and saves.  The rows of that   *)
(* list are elements of the one document, so they outlive the page; what   *)
(* the server had sent lives in the callback of the form.                  *)
(*                                                                         *)
(* The server's side of saving is one step here; module Events has its     *)
(* statements.                                                             *)
(***************************************************************************)
EXTENDS Naturals

CONSTANTS
  Event,
  Email,
  None

VARIABLES
  exists,         \* the organiser's events
  published,      \* those that are published
  invited,        \* the addresses in EventInvitations, by event
  loads,          \* requests event_edit_info under way
  form,           \* the form that is shown: of an event, "new", "loading", or None
  base,           \* x.invitations of the callback
  draft,          \* whether the event was loaded as not published
  rows,           \* the addresses in the rows of ee_emails
  pressed,        \* publishPressed
  touched         \* history: rows added or removed by hand since the form was loaded

server == <<exists, published, invited>>
page   == <<form, base, draft, rows, pressed, touched>>
vars   == <<server, loads, page>>

Init ==
  /\ exists = {}
  /\ published = {}
  /\ invited = [e \in Event |-> {}]
  /\ loads = {}
  /\ form = None
  /\ base = {}
  /\ draft = FALSE
  /\ rows = {}
  /\ pressed = FALSE
  /\ touched = {}
-----------------------------------------------------------------------------
OpenNew ==
  /\ form' = "new"
  /\ base' = {}
  /\ draft' = TRUE
  /\ rows' = {}
  /\ pressed' = FALSE
  /\ touched' = {}
  /\ UNCHANGED <<server, loads>>

Open(e) ==
  /\ e \in exists
  /\ loads' = loads \cup {e}
  /\ form' = "loading"
  /\ UNCHANGED <<server, base, draft, rows, pressed, touched>>

\* The answer comes, whatever form is open by then, or another page.  The invitations
\* of a published event are sent too, but make no rows: those of the last form stay.
Loaded(e) ==
  /\ e \in loads
  /\ loads' = loads \ {e}
  /\ form' = IF form = None THEN None ELSE e
  /\ base' = invited[e]
  /\ draft' = (e \notin published)
  /\ rows' = IF e \in published THEN rows ELSE invited[e]
  /\ pressed' = FALSE
  /\ touched' = {}
  /\ UNCHANGED server

Shown == form \notin {None, "loading"}

AddRow(a) ==
  /\ Shown
  /\ rows' = rows \cup {a}
  /\ touched' = touched \cup {a}
  /\ UNCHANGED <<server, loads, form, base, draft, pressed>>

RemoveRow(a) ==
  /\ Shown
  /\ a \in rows
  /\ rows' = rows \ {a}
  /\ touched' = touched \cup {a}
  /\ UNCHANGED <<server, loads, form, base, draft, pressed>>

\* The button is disabled for a published event.  A field that is not valid keeps the
\* form from being submitted, but the press is remembered.
PressPublish ==
  /\ Shown
  /\ form \notin published
  /\ pressed' = TRUE
  /\ UNCHANGED <<server, loads, form, base, draft, rows, touched>>
-----------------------------------------------------------------------------
NewEmails     == rows \ base
RemovedEmails == base \ rows

\* edit_event: publishing mails the invitations and stores none; otherwise they are
\* added and removed.  One that is stored already makes its INSERT throw: those added
\* before it stay, and nothing is removed.
SaveEdit(e) ==
  /\ e \in exists
  /\ IF pressed
     THEN /\ e \notin published
          /\ published' = published \cup {e}
          /\ UNCHANGED invited
     ELSE /\ IF NewEmails \cap invited[e] = {}
             THEN invited' = [invited EXCEPT ![e] = (@ \cup NewEmails) \ RemovedEmails]
             ELSE \E added \in SUBSET NewEmails :
                    invited' = [invited EXCEPT ![e] = @ \cup added]
          /\ UNCHANGED published
  /\ UNCHANGED exists

SaveNew(e) ==
  /\ e \in Event \ exists
  /\ exists' = exists \cup {e}
  /\ invited' = [invited EXCEPT ![e] = NewEmails]
  /\ published' = IF pressed THEN published \cup {e} ELSE published

\* The form is saved; if the answer is an error, or is lost, the form stays as it was.
Submit ==
  /\ Shown
  /\ IF form = "new" THEN \E e \in Event : SaveNew(e) ELSE SaveEdit(form)
  /\ form' = None \/ UNCHANGED form
  /\ UNCHANGED <<loads, base, draft, rows, pressed, touched>>

\* Another page is opened: the rows are hidden, not removed.
Leave ==
  /\ form' = None
  /\ UNCHANGED <<server, loads, base, draft, rows, pressed, touched>>

Next ==
  \/ OpenNew \/ PressPublish \/ Submit \/ Leave
  \/ \E e \in Event : Open(e) \/ Loaded(e)
  \/ \E a \in Email : AddRow(a) \/ RemoveRow(a)

Spec == Init /\ [][Next]_vars
-----------------------------------------------------------------------------
Changed(e, a) == (a \in invited[e]) # (a \in invited'[e])

(***************************************************************************)
(* "We've added a new email then", "We've delete an email then"            *)
(* (Frontend/init.js): an address joins or leaves an event's invitations   *)
(* only if the organiser has added or removed its row in the form.         *)
(***************************************************************************)
GuestsByChoice == [][\A e \in Event, a \in Email : Changed(e, a) => a \in touched]_vars

(***************************************************************************)
(* So it is as long as the form was loaded with the event as a draft.      *)
(***************************************************************************)
DraftGuestsByChoice ==
  [][\A e \in Event, a \in Email : Changed(e, a) /\ draft => a \in touched]_vars
=============================================================================
