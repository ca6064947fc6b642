--------------------------- MODULE EditFormProofs ---------------------------
(***************************************************************************)
(* A form that was loaded as a draft changes only the invitations that the *)
(* organiser has touched, for any number of events and addresses.          *)
(***************************************************************************)
EXTENDS EditForm, TLAPS

\* An event that is not there has no invitations, and rows are addresses.
Stored ==
  /\ exists \subseteq Event
  /\ loads \subseteq Event
  /\ rows \subseteq Email
  /\ invited \in [Event -> SUBSET Email]
  /\ \A e \in Event \ exists : invited[e] = {}

\* What the rows of a draft and its invitations differ in was touched.
Faithful == draft => NewEmails \cup RemovedEmails \subseteq touched

IInv == Stored /\ Faithful
-----------------------------------------------------------------------------
LEMMA InitIInv == Init => IInv
  BY DEF Init, IInv, Stored, Faithful, NewEmails, RemovedEmails

(***************************************************************************)
(* Saving an event's form writes the addresses that differ, and no others. *)
(***************************************************************************)
LEMMA SaveEditWrites ==
  ASSUME Stored, NEW e \in exists, SaveEdit(e)
  PROVE  /\ invited' \in [Event -> SUBSET Email]
         /\ \A f \in Event \ exists : invited'[f] = {}
         /\ \A f \in Event, a \in Email :
              Changed(f, a) => a \in NewEmails \cup RemovedEmails
  <1> DEFINE Goal == /\ invited' \in [Event -> SUBSET Email]
                     /\ \A f \in Event \ exists : invited'[f] = {}
                     /\ \A f \in Event, a \in Email :
                          Changed(f, a) => a \in NewEmails \cup RemovedEmails
  <1> SUFFICES Goal  OBVIOUS
  <1> HIDE DEF Goal
  <1>1. e \in Event /\ NewEmails \subseteq Email  BY DEF Stored, NewEmails
  <1>2. CASE UNCHANGED invited  BY <1>2 DEF Stored, Changed, Goal
  <1>3. ASSUME invited' \in [Event -> SUBSET Email],
               \A f \in Event \ {e} : invited'[f] = invited[f],
               \A a \in Email : (a \in invited[e]) # (a \in invited'[e]) =>
                 a \in NewEmails \cup RemovedEmails
        PROVE  Goal
    BY <1>1, <1>3 DEF Stored, Changed, Goal
  <1>4. CASE invited' = [invited EXCEPT ![e] = (@ \cup NewEmails) \ RemovedEmails]
    <2>1. invited'[e] = (invited[e] \cup NewEmails) \ RemovedEmails
      BY <1>1, <1>4 DEF Stored
    <2>2. /\ invited' \in [Event -> SUBSET Email]
          /\ \A f \in Event \ {e} : invited'[f] = invited[f]
      BY <1>1, <1>4 DEF Stored
    <2> QED  BY <1>3, <2>1, <2>2
  <1>5. ASSUME NEW added \in SUBSET NewEmails,
               invited' = [invited EXCEPT ![e] = @ \cup added]
        PROVE  Goal
    <2>1. invited'[e] = invited[e] \cup added  BY <1>1, <1>5 DEF Stored
    <2>2. /\ invited' \in [Event -> SUBSET Email]
          /\ \A f \in Event \ {e} : invited'[f] = invited[f]
      BY <1>1, <1>5 DEF Stored
    <2> QED  BY <1>3, <2>1, <2>2
  <1> QED  BY <1>2, <1>4, <1>5 DEF SaveEdit

LEMMA SaveNewWrites ==
  ASSUME Stored, NEW e \in Event \ exists, SaveNew(e)
  PROVE  /\ invited' \in [Event -> SUBSET Email]
         /\ \A f \in Event \ exists' : invited'[f] = {}
         /\ \A f \in Event, a \in Email : Changed(f, a) => a \in NewEmails
  <1>1. invited' = [invited EXCEPT ![e] = NewEmails]  BY DEF SaveNew
  <1>2. invited'[e] = NewEmails /\ invited[e] = {}  BY <1>1 DEF Stored
  <1>3. \A f \in Event \ {e} : invited'[f] = invited[f]  BY <1>1 DEF Stored
  <1>4. exists' = exists \cup {e}  BY DEF SaveNew
  <1>5. NewEmails \subseteq Email  BY DEF NewEmails, Stored
  <1> QED  BY <1>1, <1>2, <1>3, <1>4, <1>5 DEF Stored, Changed

\* What a step of the form to the server writes.
LEMMA SubmitWrites ==
  ASSUME IInv, Submit
  PROVE  Stored' /\ \A f \in Event, a \in Email :
           Changed(f, a) => a \in NewEmails \cup RemovedEmails
  <1>1. UNCHANGED <<loads, rows>>  BY DEF Submit
  <1>2. CASE form = "new"
    <2>1. PICK e \in Event : SaveNew(e)  BY <1>2 DEF Submit
    <2>2. e \in Event \ exists /\ exists' = exists \cup {e}  BY <2>1 DEF SaveNew
    <2> QED  BY <1>1, <2>1, <2>2, SaveNewWrites DEF IInv, Stored
  <1>3. CASE form # "new"
    <2>1. SaveEdit(form)  BY <1>3 DEF Submit
    <2>2. form \in exists /\ exists' = exists  BY <2>1 DEF SaveEdit
    <2> QED  BY <1>1, <2>1, <2>2, SaveEditWrites DEF IInv, Stored
  <1> QED  BY <1>2, <1>3
-----------------------------------------------------------------------------
LEMMA NextIInv == IInv /\ [Next]_vars => IInv'
  <1> SUFFICES ASSUME IInv, [Next]_vars PROVE IInv'  OBVIOUS
  <1> USE DEF IInv, Stored, Faithful, NewEmails, RemovedEmails
  <1>1. CASE OpenNew  BY <1>1 DEF OpenNew, server
  <1>2. CASE PressPublish  BY <1>2 DEF PressPublish, server
  <1>3. CASE Submit
    <2>1. Stored'  BY <1>3, SubmitWrites
    <2>2. UNCHANGED <<base, draft, rows, touched>>  BY <1>3 DEF Submit
    <2> QED  BY <2>1, <2>2
  <1>4. CASE Leave  BY <1>4 DEF Leave, server
  <1>5. ASSUME NEW e \in Event, Open(e) PROVE IInv'  BY <1>5 DEF Open, server
  <1>6. ASSUME NEW e \in Event, Loaded(e) PROVE IInv'
    <2>1. invited[e] \subseteq Email  OBVIOUS
    <2>2. Stored'  BY <1>6, <2>1 DEF Loaded, server
    <2>3. draft' => rows' = base'  BY <1>6 DEF Loaded
    <2> QED  BY <2>2, <2>3
  <1>7. ASSUME NEW a \in Email, AddRow(a) PROVE IInv'  BY <1>7 DEF AddRow, server
  <1>8. ASSUME NEW a \in Email, RemoveRow(a) PROVE IInv'  BY <1>8 DEF RemoveRow, server
  <1>9. CASE UNCHANGED vars  BY <1>9 DEF vars, server, page
  <1> QED  BY <1>1, <1>2, <1>3, <1>4, <1>5, <1>6, <1>7, <1>8, <1>9 DEF Next

(***************************************************************************)
(* So only Submit changes invitations, and of a draft only what was        *)
(* touched: unloading a page, a late answer and a save that fails half-way *)
(* change nothing that the organiser has not chosen.                       *)
(***************************************************************************)
LEMMA StepByChoice ==
  ASSUME IInv, [Next]_vars, NEW e \in Event, NEW a \in Email, Changed(e, a), draft
  PROVE  a \in touched
  <1>1. CASE Submit  BY <1>1, SubmitWrites DEF IInv, Faithful
  <1>2. CASE UNCHANGED invited  BY <1>2 DEF Changed
  <1> QED
    BY <1>1, <1>2 DEF Next, OpenNew, PressPublish, Leave, Open, Loaded, AddRow,
                      RemoveRow, vars, server

(***************************************************************************)
(* The form of an event that was loaded as a draft, or of a new event,     *)
(* adds and removes only guests whose rows the organiser added or removed  *)
(* (setSubmitCallback of Frontend/init.js).                                *)
(***************************************************************************)
THEOREM DraftGuestsByChoiceCorrect == Spec => DraftGuestsByChoice
  <1>1. IInv /\ [Next]_vars =>
          [\A e \in Event, a \in Email : Changed(e, a) /\ draft => a \in touched]_vars
    BY StepByChoice
  <1> QED  BY <1>1, InitIInv, NextIInv, PTL DEF Spec, DraftGuestsByChoice
=============================================================================
