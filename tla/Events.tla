-------------------------------- MODULE Events --------------------------------
(***************************************************************************)
(* Events, their guest lists, and who is told about them: create_event,    *)
(* edit_event, delete_event, register_attendance and unregister_attendance *)
(* (Backend/DB/Events.cpp).                                                *)
(*                                                                         *)
(* As in Discussion, one action is one autocommitted SQL statement of one  *)
(* worker thread, and a lost connection re-runs the whole handler once.    *)
(* A user stands for an account and for its e-mail address.  Handing       *)
(* invitation mails to the sender and creating a notification are one step *)
(* each.  Lists of addresses and of users have no order here: the code     *)
(* takes them from hash sets and unordered result sets, or inserts each.   *)
(***************************************************************************)
EXTENDS Integers, FiniteSets

CONSTANTS
  User,           \* registered users
  Guest,          \* bound: the users who are invited, attend and follow
  Event,          \* the ids the AUTO_INCREMENT of Events can issue (a bound)
  Worker,         \* threads of the HTTP server's pool
  Organiser,      \* Organiser[e]: the user who creates event e
  Moderator,      \* users with privilege_level >= 1
  Offered,        \* bound: the operations that are requested
  MaxFaults,      \* bound: failed statements and lost connections per behaviour
  Submitted,      \* bound: the forms that are submitted to save_event
  None            \* no user, no event

Operation == {"create_event", "edit_event", "delete_event",
              "register_attendance", "unregister_attendance"}

\* The parameters of save_event.
Form == [publish : BOOLEAN,                         \* attribute IsPublished, sent as true
         public : {"unsent", "private", "public"},  \* attribute IsPublic
         details : BOOLEAN,                         \* other attributes, all that are required
         added : SUBSET User, removed : SUBSET User,
         twice : SUBSET User]                       \* those that "added" lists twice

ASSUME EventsAssumptions ==
  /\ Organiser \in [Event -> User]
  /\ Guest \subseteq User
  /\ Moderator \subseteq User
  /\ Offered \subseteq Operation
  /\ MaxFaults \in Nat
  /\ Submitted \subseteq {form \in Form : form.twice \subseteq form.added}
  /\ None \notin User \cup Event

Statement ==
  {"insert_event", "id_returned", "select_organiser", "update_event", "select_name",
   "select_is_public", "insert_invitation", "delete_invitation", "select_invitations",
   "select_followers", "notify_follower", "select_attendees", "notify_attendee",
   "select_publicity", "select_invitation", "insert_attendance", "delete_attendance",
   "select_owner", "select_privilege", "delete_event"}

NoForm == [publish |-> FALSE, public |-> "unsent", details |-> FALSE,
           added |-> {}, removed |-> {}, twice |-> {}]

\* A request, and what its handler remembers.
Job == [op : Operation \cup {"none"}, user : User \cup {None}, event : Event \cup {None},
        form : Form,
        todo : SUBSET User,        \* what the loop at hand has left
        second : SUBSET User,      \* addresses whose second copy is still to be inserted
        open : BOOLEAN,            \* edit_event's is_public
        down : BOOLEAN]            \* create_event swallowed a lost connection

NoJob == [op |-> "none", user |-> None, event |-> None, form |-> NoForm,
          todo |-> {}, second |-> {}, open |-> FALSE, down |-> FALSE]

VARIABLES
  row,            \* Events: "none" (id not issued), "draft", "published" or "deleted"
  public,         \* events with is_public set
  invited,        \* EventInvitations: pairs <<event, user with that address>>
  attending,      \* EventAttendance: pairs <<event, user>>
  follows,        \* Follows: pairs <<followed user, follower>>
  news,           \* Notifications: records of type, event and user
  mailed,         \* pairs <<event, user>> for which an invitation mail was handed over
  pc,             \* the statement each worker executes next
  job,            \* the request each worker serves
  attempt,        \* 1, or 2 while the handler is re-run
  owed,           \* history: attendees whom each worker's handler has still to tell
  faults,         \* history: failed statements and lost connections so far
  repeated,       \* history: pairs <<event, user>> mailed again, or told again of the new event
  promised,       \* history: pairs <<event, user>> on the guest list when e was published
  cut,            \* history: events whose publication a fault interrupted
  entitled        \* history: pairs <<event, user>> that were allowed to come at some time

tables  == <<row, public, invited, attending, follows>>
outcome == <<news, mailed>>
threads == <<pc, job, attempt, owed>>
history == <<faults, repeated, promised, cut, entitled>>
vars    == <<tables, outcome, threads, history>>

Here(e) == row[e] \in {"draft", "published"}
ListOf(pairs, e) == {u \in User : <<e, u>> \in pairs}
PairsOf(e, users) == {<<e, u>> : u \in users}
NewsOf(type, e, users) == [type : {type}, event : {e}, user : users]

FirstStatement(op) ==
  CASE op = "create_event"          -> "insert_event"
    [] op = "edit_event"            -> "select_organiser"
    [] op = "delete_event"          -> "select_owner"
    [] op = "register_attendance"   -> "select_publicity"
    [] op = "unregister_attendance" -> "delete_attendance"

Init ==
  /\ row = [e \in Event |-> "none"]
  /\ public = {}
  /\ invited = {}
  /\ attending = {}
  /\ follows = {}
  /\ news = {}
  /\ mailed = {}
  /\ pc = [w \in Worker |-> "idle"]
  /\ job = [w \in Worker |-> NoJob]
  /\ attempt = [w \in Worker |-> 1]
  /\ faults = 0
  /\ repeated = {}
  /\ promised = {}
  /\ cut = {}
  /\ entitled = {}
  /\ owed = [w \in Worker |-> {}]
-----------------------------------------------------------------------------
(***************************************************************************)
(* The control flow of a handler: on to a statement, or back to the pool.  *)
(***************************************************************************)
Proceed(w, statement, request, debts) ==
  /\ pc' = [pc EXCEPT ![w] = statement]
  /\ job' = [job EXCEPT ![w] = request]
  /\ owed' = debts
  /\ UNCHANGED attempt

GoTo(w, statement) == Proceed(w, statement, job[w], owed)

Finish(w) ==
  /\ pc' = [pc EXCEPT ![w] = "idle"]
  /\ job' = [job EXCEPT ![w] = NoJob]
  /\ owed' = [owed EXCEPT ![w] = {}]
  /\ attempt' = [attempt EXCEPT ![w] = 1]

Receive(w, request) ==
  /\ pc[w] = "idle"
  /\ request.op \in Offered
  /\ pc' = [pc EXCEPT ![w] = FirstStatement(request.op)]
  /\ job' = [job EXCEPT ![w] = request]
  /\ UNCHANGED <<attempt, owed, tables, outcome, history>>

\* A request without the name, the time or the time zone is answered before the
\* first statement.
ReceiveCreate(w) == \E u \in User, form \in {f \in Submitted : f.details} :
  Receive(w, [NoJob EXCEPT !.op = "create_event", !.user = u,
                           !.form = form, !.second = form.twice])

\* A request that changes nothing is answered before the first statement.
ReceiveEdit(w) == \E u \in User, e \in Event, form \in Submitted \ {NoForm} :
  Receive(w, [NoJob EXCEPT !.op = "edit_event", !.user = u, !.event = e,
                           !.form = form, !.second = form.twice])

ReceiveDelete(w) == \E u \in User, e \in Event :
  Receive(w, [NoJob EXCEPT !.op = "delete_event", !.user = u, !.event = e])
ReceiveRegister(w) == \E u \in Guest, e \in Event :
  Receive(w, [NoJob EXCEPT !.op = "register_attendance", !.user = u, !.event = e])
ReceiveUnregister(w) == \E u \in Guest, e \in Event :
  Receive(w, [NoJob EXCEPT !.op = "unregister_attendance", !.user = u, !.event = e])

Respond(w) ==
  /\ pc[w] = "respond"
  /\ Finish(w)
  /\ UNCHANGED <<tables, outcome, history>>
-----------------------------------------------------------------------------
(***************************************************************************)
(* What several handlers share: the lists they work through and the people *)
(* they mail and tell.                                                     *)
(***************************************************************************)
\* Emails::send_invitation_emails
Mail(e, users) ==
  /\ repeated' = repeated \cup (PairsOf(e, users) \cap mailed)
  /\ mailed' = mailed \cup PairsOf(e, users)
  /\ UNCHANGED news

\* create_notification
Tell(type, e, u) ==
  /\ news' = news \cup NewsOf(type, e, {u})
  /\ repeated' = IF type = "NewEvent" /\ NewsOf(type, e, {u}) \subseteq news
                 THEN repeated \cup {<<e, u>>} ELSE repeated
  /\ UNCHANGED mailed

\* What a loop over a set has left, and the statement after its last round.
Remove(w, request, left) ==
  Proceed(w, IF left = {} THEN "select_attendees" ELSE "delete_invitation",
          [request EXCEPT !.todo = left], owed)

Add(w, request, left) ==
  IF left # {}
  THEN Proceed(w, "insert_invitation", [request EXCEPT !.todo = left], owed)
  ELSE IF request.op = "edit_event"
  THEN Remove(w, request, request.form.removed)
  ELSE IF request.form.publish
  THEN Proceed(w, "announce", [request EXCEPT !.todo = {}], owed)
  ELSE Finish(w)

\* One copy of the address u has been tried.
AddNext(w, u) ==
  IF u \in job[w].second
  THEN Add(w, [job[w] EXCEPT !.second = @ \ {u}], job[w].todo)
  ELSE Add(w, job[w], job[w].todo \ {u})

TellAttendees(w, left, debts) ==
  Proceed(w, IF left = {} THEN "respond" ELSE "notify_attendee", [job[w] EXCEPT !.todo = left], debts)

TellFollowers(w, left) ==
  LET after == IF job[w].op = "edit_event" THEN "select_attendees" ELSE "respond"
  IN Proceed(w, IF left = {} THEN after ELSE "notify_follower", [job[w] EXCEPT !.todo = left], owed)

InsertInvitation(w) ==
  /\ pc[w] = "insert_invitation"
  /\ \E u \in job[w].todo :
       /\ Here(job[w].event)
       /\ <<job[w].event, u>> \notin invited
       /\ invited' = invited \cup {<<job[w].event, u>>}
       /\ entitled' = entitled \cup {<<job[w].event, u>>}
       /\ AddNext(w, u)
  /\ UNCHANGED <<row, public, attending, follows, outcome, faults, repeated, promised, cut>>

\* Mutant: create_event tries the refused address again.
RefuseInvitationAgain(w) ==
  /\ pc[w] = "insert_invitation"
  /\ \E u \in job[w].todo :
       /\ ~Here(job[w].event) \/ <<job[w].event, u>> \in invited
       /\ IF job[w].op = "edit_event" THEN Finish(w) ELSE Add(w, job[w], job[w].todo)
  /\ UNCHANGED <<tables, outcome, history>>

\* The event is gone, or the address is stored already: the INSERT throws, which
\* ends edit_event, while create_event goes on to the next address.
RefuseInvitation(w) ==
  /\ pc[w] = "insert_invitation"
  /\ \E u \in job[w].todo :
       /\ ~Here(job[w].event) \/ <<job[w].event, u>> \in invited
       /\ IF job[w].op = "edit_event" THEN Finish(w) ELSE AddNext(w, u)
  /\ UNCHANGED <<tables, outcome, history>>

DeleteInvitation(w) ==
  /\ pc[w] = "delete_invitation"
  /\ \E u \in job[w].todo :
       /\ invited' = invited \ {<<job[w].event, u>>}
       /\ promised' = promised \ {<<job[w].event, u>>}
       /\ Remove(w, job[w], job[w].todo \ {u})
  /\ UNCHANGED <<row, public, attending, follows, outcome, faults, repeated, cut, entitled>>

\* Mutant: the rows of Follows instead of the followers.
SelectFollowersRows(w) ==
  /\ pc[w] = "select_followers"
  /\ ~job[w].down
  /\ TellFollowers(w, {p \in follows : p[1] = job[w].user})
  /\ UNCHANGED <<tables, outcome, history>>

SelectFollowers(w) ==
  /\ pc[w] = "select_followers"
  /\ ~job[w].down
  /\ TellFollowers(w, ListOf(follows, job[w].user))
  /\ UNCHANGED <<tables, outcome, history>>

NotifyFollower(w) ==
  /\ pc[w] = "notify_follower"
  /\ \E u \in job[w].todo :
       /\ Tell("NewEvent", job[w].event, u)
       /\ TellFollowers(w, job[w].todo \ {u})
  /\ UNCHANGED <<tables, faults, promised, cut, entitled>>

SelectAttendees(w) ==
  /\ pc[w] = "select_attendees"
  /\ TellAttendees(w, ListOf(attending, job[w].event), owed)
  /\ UNCHANGED <<tables, outcome, history>>

NotifyAttendee(w) ==
  /\ pc[w] = "notify_attendee"
  /\ \E u \in job[w].todo :
       /\ Tell(IF job[w].op = "edit_event" THEN "EventChanged" ELSE "EventDeleted", job[w].event, u)
       /\ TellAttendees(w, job[w].todo \ {u}, [owed EXCEPT ![w] = @ \ {u}])
  /\ UNCHANGED <<tables, faults, promised, cut, entitled>>
-----------------------------------------------------------------------------
(***************************************************************************)
(* create_event.  It announces the new event to the followers whenever the *)
(* attribute is_public was sent, whatever its value.                       *)
(***************************************************************************)
InsertEvent(w) ==
  /\ pc[w] = "insert_event"
  /\ \/ \E e \in Event :
          /\ row[e] = "none"
          /\ Organiser[e] = job[w].user
          /\ row' = [row EXCEPT ![e] = IF job[w].form.publish THEN "published" ELSE "draft"]
          /\ public' = IF job[w].form.public = "public" THEN public \cup {e} ELSE public
          /\ entitled' = IF job[w].form.public = "public"
                         THEN entitled \cup PairsOf(e, User) ELSE entitled
          /\ promised' = IF job[w].form.publish
                         THEN promised \cup PairsOf(e, job[w].form.added) ELSE promised
          /\ Proceed(w, "id_returned", [job[w] EXCEPT !.event = e], owed)
     \/ /\ \A e \in Event : row[e] # "none" \/ Organiser[e] # job[w].user
        /\ Finish(w)
        /\ UNCHANGED <<row, public, entitled, promised>>
  /\ UNCHANGED <<invited, attending, follows, outcome, faults, repeated, cut>>

ReturnId(w) ==
  /\ pc[w] = "id_returned"
  /\ Add(w, job[w], job[w].form.added)
  /\ UNCHANGED <<tables, outcome, history>>

Announce(w) ==
  /\ pc[w] = "announce"
  /\ Mail(job[w].event, job[w].form.added)
  /\ IF job[w].form.public = "unsent" THEN Finish(w) ELSE GoTo(w, "select_followers")
  /\ UNCHANGED <<tables, faults, promised, cut, entitled>>
-----------------------------------------------------------------------------
(***************************************************************************)
(* edit_event.                                                             *)
(***************************************************************************)
SelectOrganiser(w) ==
  /\ pc[w] = "select_organiser"
  /\ LET r == job[w]
     IN IF ~Here(r.event) \/ r.user # Organiser[r.event]
        THEN Finish(w)
        ELSE Proceed(w, IF r.form.publish \/ r.form.details \/ r.form.public # "unsent"
                        THEN "update_event" ELSE "select_name",
                     r, [owed EXCEPT ![w] = ListOf(attending, r.event)])
  /\ UNCHANGED <<tables, outcome, history>>

\* Mutant: the mails go out with every save.
KnownAlways(w, request) == Proceed(w, "select_invitations", request, owed)

\* Once is_public is known: the invitations, of a draft or for the announcement.
Known(w, request) ==
  IF request.form.publish THEN Proceed(w, "select_invitations", request, owed)
                     ELSE Add(w, request, request.form.added)

\* The name is known, from the request or from the row.
Named(w) ==
  IF job[w].form.public = "unsent"
  THEN GoTo(w, "select_is_public")
  ELSE Known(w, [job[w] EXCEPT !.open = job[w].form.public = "public"])

\* Mutant: a published event is published again.
UpdateEventAgain(w) ==
  /\ pc[w] = "update_event"
  /\ LET r == job[w]
         e == r.event
         matches == Here(e)
         shown == CASE r.form.public = "unsent"  -> public
                    [] r.form.public = "public"  -> public \cup {e}
                    [] r.form.public = "private" -> public \ {e}
     IN \/ /\ matches
           /\ r.form.publish \/ r.form.details \/ shown # public
           /\ row' = IF r.form.publish THEN [row EXCEPT ![e] = "published"] ELSE row
           /\ public' = shown
           /\ entitled' = IF e \in shown THEN entitled \cup PairsOf(e, User) ELSE entitled
           /\ promised' = IF r.form.publish
                          THEN promised \cup PairsOf(e, (ListOf(invited, e) \cup r.form.added) \ r.form.removed)
                          ELSE promised
           /\ GoTo(w, "select_name") \/ (r.form.details /\ Named(w))
        \/ /\ ~matches \/ (~r.form.publish /\ shown = public)
           /\ Finish(w)
           /\ UNCHANGED <<row, public, entitled, promised>>
  /\ UNCHANGED <<invited, attending, follows, outcome, faults, repeated, cut>>

\* Mutant: saving without publishing takes the event back to a draft.
UpdateEventBack(w) ==
  /\ pc[w] = "update_event"
  /\ LET r == job[w]
         e == r.event
         matches == Here(e) /\ (r.form.publish => row[e] = "draft")
         shown == CASE r.form.public = "unsent"  -> public
                    [] r.form.public = "public"  -> public \cup {e}
                    [] r.form.public = "private" -> public \ {e}
     IN \/ /\ matches
           /\ r.form.publish \/ r.form.details \/ shown # public
           /\ row' = IF r.form.publish THEN [row EXCEPT ![e] = "published"] ELSE [row EXCEPT ![e] = "draft"]
           /\ public' = shown
           /\ entitled' = IF e \in shown THEN entitled \cup PairsOf(e, User) ELSE entitled
           /\ promised' = IF r.form.publish
                          THEN promised \cup PairsOf(e, (ListOf(invited, e) \cup r.form.added) \ r.form.removed)
                          ELSE promised
           /\ GoTo(w, "select_name") \/ (r.form.details /\ Named(w))
        \/ /\ ~matches \/ (~r.form.publish /\ shown = public)
           /\ Finish(w)
           /\ UNCHANGED <<row, public, entitled, promised>>
  /\ UNCHANGED <<invited, attending, follows, outcome, faults, repeated, cut>>

\* Mutant: an UPDATE that affects no row is taken for success.
UpdateEventOrNot(w) ==
  /\ pc[w] = "update_event"
  /\ LET r == job[w]
         e == r.event
         matches == Here(e) /\ (r.form.publish => row[e] = "draft")
         shown == CASE r.form.public = "unsent"  -> public
                    [] r.form.public = "public"  -> public \cup {e}
                    [] r.form.public = "private" -> public \ {e}
     IN \/ /\ matches
           /\ r.form.publish \/ r.form.details \/ shown # public
           /\ row' = IF r.form.publish THEN [row EXCEPT ![e] = "published"] ELSE row
           /\ public' = shown
           /\ entitled' = IF e \in shown THEN entitled \cup PairsOf(e, User) ELSE entitled
           /\ promised' = IF r.form.publish
                          THEN promised \cup PairsOf(e, (ListOf(invited, e) \cup r.form.added) \ r.form.removed)
                          ELSE promised
           /\ GoTo(w, "select_name") \/ (r.form.details /\ Named(w))
        \/ /\ ~matches \/ (~r.form.publish /\ shown = public)
           /\ GoTo(w, "respond")
           /\ UNCHANGED <<row, public, entitled, promised>>
  /\ UNCHANGED <<invited, attending, follows, outcome, faults, repeated, cut>>

\* The UPDATE affects no row when the event is gone, when it is published
\* already and the request publishes it, or when every column keeps its value.
UpdateEvent(w) ==
  /\ pc[w] = "update_event"
  /\ LET r == job[w]
         e == r.event
         matches == Here(e) /\ (r.form.publish => row[e] = "draft")
         shown == CASE r.form.public = "unsent"  -> public
                    [] r.form.public = "public"  -> public \cup {e}
                    [] r.form.public = "private" -> public \ {e}
     IN \/ /\ matches
           /\ r.form.publish \/ r.form.details \/ shown # public
           /\ row' = IF r.form.publish THEN [row EXCEPT ![e] = "published"] ELSE row
           /\ public' = shown
           /\ entitled' = IF e \in shown THEN entitled \cup PairsOf(e, User) ELSE entitled
           /\ promised' = IF r.form.publish
                          THEN promised \cup PairsOf(e, (ListOf(invited, e) \cup r.form.added) \ r.form.removed)
                          ELSE promised
           /\ GoTo(w, "select_name") \/ (r.form.details /\ Named(w))
        \/ /\ ~matches \/ (~r.form.publish /\ shown = public)
           /\ Finish(w)
           /\ UNCHANGED <<row, public, entitled, promised>>
  /\ UNCHANGED <<invited, attending, follows, outcome, faults, repeated, cut>>

SelectName(w) ==
  /\ pc[w] = "select_name"
  /\ IF Here(job[w].event) THEN Named(w) ELSE Finish(w)
  /\ UNCHANGED <<tables, outcome, history>>

SelectIsPublic(w) ==
  /\ pc[w] = "select_is_public"
  /\ IF Here(job[w].event)
     THEN Known(w, [job[w] EXCEPT !.open = job[w].event \in public])
     ELSE Finish(w)
  /\ UNCHANGED <<tables, outcome, history>>

\* Mutant: only the stored guest list is mailed.
SelectInvitationsStored(w) ==
  /\ pc[w] = "select_invitations"
  /\ Mail(job[w].event, ListOf(invited, job[w].event) \ job[w].form.removed)
  /\ GoTo(w, IF job[w].open THEN "select_followers" ELSE "select_attendees")
  /\ UNCHANGED <<tables, faults, promised, cut, entitled>>

\* Mutant: publishing tells nobody but the invited and the followers.
SelectInvitationsOnly(w) ==
  /\ pc[w] = "select_invitations"
  /\ Mail(job[w].event, (ListOf(invited, job[w].event) \cup job[w].form.added) \ job[w].form.removed)
  /\ GoTo(w, IF job[w].open THEN "select_followers" ELSE "respond")
  /\ UNCHANGED <<tables, faults, promised, cut, entitled>>

\* The request's own additions and removals apply to the mails only.
SelectInvitations(w) ==
  /\ pc[w] = "select_invitations"
  /\ Mail(job[w].event, (ListOf(invited, job[w].event) \cup job[w].form.added) \ job[w].form.removed)
  /\ GoTo(w, IF job[w].open THEN "select_followers" ELSE "select_attendees")
  /\ UNCHANGED <<tables, faults, promised, cut, entitled>>
-----------------------------------------------------------------------------
(***************************************************************************)
(* register_attendance and unregister_attendance.  Neither asks whether    *)
(* the event is published, and registering keeps the invitation.           *)
(***************************************************************************)
\* Mutant: an invitation is asked for only once the event is published.
SelectPublicityOfDraft(w) ==
  /\ pc[w] = "select_publicity"
  /\ IF Here(job[w].event)
     THEN GoTo(w, IF job[w].event \in public \/ row[job[w].event] = "draft"
                  THEN "insert_attendance" ELSE "select_invitation")
     ELSE Finish(w)
  /\ UNCHANGED <<tables, outcome, history>>

SelectPublicity(w) ==
  /\ pc[w] = "select_publicity"
  /\ IF Here(job[w].event)
     THEN GoTo(w, IF job[w].event \in public THEN "insert_attendance" ELSE "select_invitation")
     ELSE Finish(w)
  /\ UNCHANGED <<tables, outcome, history>>

SelectInvitation(w) ==
  /\ pc[w] = "select_invitation"
  /\ IF <<job[w].event, job[w].user>> \in invited
     THEN GoTo(w, "insert_attendance") ELSE Finish(w)
  /\ UNCHANGED <<tables, outcome, history>>

\* Mutant: no foreign key on the event.
InsertAttendanceUnchecked(w) ==
  /\ pc[w] = "insert_attendance"
  /\ attending' = attending \cup {<<job[w].event, job[w].user>>}
  /\ GoTo(w, "respond")
  /\ UNCHANGED <<row, public, invited, follows, outcome, history>>

\* The keys make the INSERT throw for an event that is gone and for a duplicate.
InsertAttendance(w) ==
  /\ pc[w] = "insert_attendance"
  /\ LET pair == <<job[w].event, job[w].user>>
     IN IF Here(job[w].event) /\ pair \notin attending
        THEN attending' = attending \cup {pair} /\ GoTo(w, "respond")
        ELSE Finish(w) /\ UNCHANGED attending
  /\ UNCHANGED <<row, public, invited, follows, outcome, history>>

DeleteAttendance(w) ==
  /\ pc[w] = "delete_attendance"
  /\ LET e == job[w].event
         u == job[w].user
     IN /\ attending' = attending \ {<<e, u>>}
        /\ Proceed(w, "respond", job[w],
                   [x \in Worker |-> IF job[x].event = e THEN owed[x] \ {u} ELSE owed[x]])
  /\ UNCHANGED <<row, public, invited, follows, outcome, history>>
-----------------------------------------------------------------------------
(***************************************************************************)
(* delete_event.  The attendees are asked for after the foreign keys have  *)
(* deleted them.                                                           *)
(***************************************************************************)
SelectOwner(w) ==
  /\ pc[w] = "select_owner"
  /\ LET r == job[w]
     IN IF ~Here(r.event)
        THEN Finish(w)
        ELSE Proceed(w, IF r.user = Organiser[r.event] THEN "delete_event" ELSE "select_privilege",
                     r, [owed EXCEPT ![w] = ListOf(attending, r.event)])
  /\ UNCHANGED <<tables, outcome, history>>

SelectPrivilege(w) ==
  /\ pc[w] = "select_privilege"
  /\ IF job[w].user \in Moderator THEN GoTo(w, "delete_event") ELSE Finish(w)
  /\ UNCHANGED <<tables, outcome, history>>

\* The other handlers owe the attendees of this event nothing any more.
DeleteEvent(w) ==
  /\ pc[w] = "delete_event"
  /\ LET e == job[w].event
     IN IF ~Here(e)
        THEN Finish(w) /\ UNCHANGED <<row, public, invited, attending>>
        ELSE /\ row' = [row EXCEPT ![e] = "deleted"]
             /\ public' = public \ {e}
             /\ invited' = {p \in invited : p[1] # e}
             /\ attending' = {p \in attending : p[1] # e}
             /\ Proceed(w, "select_attendees", job[w],
                        [x \in Worker |-> IF x # w /\ job[x].event = e THEN {} ELSE owed[x]])
  /\ UNCHANGED <<follows, outcome, history>>
-----------------------------------------------------------------------------
(***************************************************************************)
(* Faults: as in Discussion, a lost connection re-runs the handler once,   *)
(* and every other exception ends the request.  While create_event inserts *)
(* invitations it catches both itself: after a lost connection the rest of *)
(* the list is lost, and the next statement finds the connection down.  By *)
(* the time of the mails it can only be the answer to the last INSERT.     *)
(***************************************************************************)
Swallows(w) ==
  /\ job[w].op = "create_event"
  /\ \/ pc[w] = "insert_invitation"
     \/ pc[w] = "announce" /\ job[w].form.added # {} /\ ~job[w].down

\* The row says that the event is published, and its invitation mails are still to come.
Announcing(w) ==
  /\ job[w].form.publish
  /\ pc[w] \in {"id_returned", "insert_invitation", "announce",
                "select_name", "select_is_public", "select_invitations"}

NoteFault(w) ==
  /\ pc[w] # "idle"
  /\ pc[w] = "announce" => Swallows(w)
  /\ faults < MaxFaults
  /\ faults' = faults + 1
  /\ cut' = IF Announcing(w) /\ ~Swallows(w) THEN cut \cup {job[w].event} ELSE cut
  /\ UNCHANGED <<tables, outcome, repeated, promised, entitled>>

Restart(w) ==
  IF attempt[w] = 2
  THEN Finish(w)
  ELSE /\ pc' = [pc EXCEPT ![w] = FirstStatement(job[w].op)]
       /\ LET event == IF job[w].op = "create_event" THEN None ELSE job[w].event
          IN job' = [job EXCEPT ![w] =
               [job[w] EXCEPT !.todo = {}, !.second = job[w].form.twice,
                              !.open = FALSE, !.down = FALSE, !.event = event]]
       /\ attempt' = [attempt EXCEPT ![w] = 2]
       /\ owed' = [owed EXCEPT ![w] = {}]

LoseConnection(w) ==
  /\ NoteFault(w)
  /\ IF ~Swallows(w) THEN Restart(w)
     ELSE IF job[w].form.publish
     THEN Proceed(w, "announce", [job[w] EXCEPT !.todo = {}, !.down = TRUE], owed)
     ELSE Finish(w)

FindConnectionDown(w) ==
  /\ pc[w] = "select_followers"
  /\ job[w].down
  /\ Restart(w)
  /\ UNCHANGED <<tables, outcome, history>>

FailStatement(w) ==
  /\ pc[w] \notin {"announce", "respond"}
  /\ NoteFault(w)
  /\ IF Swallows(w) THEN \E u \in job[w].todo : AddNext(w, u)
                    ELSE Finish(w)
-----------------------------------------------------------------------------
\* follow_user and unfollow_user are one statement each; a duplicate throws.
Follow(u, followed) ==
  /\ follows' \in {follows \cup {<<followed, u>>}, follows \ {<<followed, u>>}}
  /\ UNCHANGED <<row, public, invited, attending, outcome, threads, history>>

Handle(w) ==
  \/ InsertEvent(w) \/ ReturnId(w) \/ Announce(w)
  \/ SelectOrganiser(w) \/ UpdateEvent(w) \/ SelectName(w) \/ SelectIsPublic(w)
  \/ InsertInvitation(w) \/ RefuseInvitation(w) \/ DeleteInvitation(w) \/ SelectInvitations(w)
  \/ SelectFollowers(w) \/ NotifyFollower(w) \/ SelectAttendees(w) \/ NotifyAttendee(w)
  \/ SelectPublicity(w) \/ SelectInvitation(w) \/ InsertAttendance(w) \/ DeleteAttendance(w)
  \/ SelectOwner(w) \/ SelectPrivilege(w) \/ DeleteEvent(w)
  \/ FindConnectionDown(w) \/ Respond(w)

Next ==
  \/ \E w \in Worker :
       \/ ReceiveCreate(w) \/ ReceiveEdit(w) \/ ReceiveDelete(w)
       \/ ReceiveRegister(w) \/ ReceiveUnregister(w)
       \/ Handle(w)
       \/ LoseConnection(w) \/ FailStatement(w)
  \/ \E u \in Guest, followed \in {Organiser[e] : e \in Event} : Follow(u, followed)

Spec == Init /\ [][Next]_vars
FairSpec == Spec /\ \A w \in Worker : WF_vars(Handle(w))
-----------------------------------------------------------------------------
TypeOK ==
  /\ row \in [Event -> {"none", "draft", "published", "deleted"}]
  /\ public \subseteq Event
  /\ invited \subseteq Event \X User
  /\ attending \subseteq Event \X User
  /\ follows \subseteq User \X User
  /\ news \subseteq [type : {"NewEvent", "EventChanged", "EventDeleted"}, event : Event, user : User]
  /\ mailed \subseteq Event \X User
  /\ pc \in [Worker -> Statement \cup {"idle", "announce", "respond"}]
  /\ job \in [Worker -> Job]
  /\ attempt \in [Worker -> {1, 2}]
  /\ faults \in 0..MaxFaults
  /\ repeated \subseteq Event \X User
  /\ promised \subseteq Event \X User
  /\ cut \subseteq Event
  /\ entitled \subseteq Event \X User
  /\ owed \in [Worker -> SUBSET User]

(***************************************************************************)
(* Nobody gets a second round of invitation mails to an event or is told   *)
(* twice that it is new, however often publishing is requested, by how     *)
(* many workers, and whatever is re-run ("AND is_published=0").  (The one  *)
(* round of create_event mails an address twice that is listed twice.)     *)
(***************************************************************************)
ToldOnce == repeated = {}

(***************************************************************************)
(* "Invited users will receive an invitation email when you publish your   *)
(* event": once the worker that published it has got past its mails, all   *)
(* who were on the guest list when the row changed, and still are, have    *)
(* been mailed, or a fault came in between.                                *)
(***************************************************************************)
PromisesKept == \A p \in promised :
  \/ p \in mailed
  \/ p[1] \in cut
  \/ row[p[1]] = "deleted"
  \/ \E w \in Worker : Announcing(w) /\ job[w].event = p[1]

(***************************************************************************)
(* A request to publish that is answered with success has mailed all who   *)
(* were promised it, whatever faults there were: of a publication that was *)
(* interrupted, no re-run and no other worker is told that all is well     *)
(* ("if(affected == 0) return ErrorType::GenericError").  The guest list   *)
(* of an event that was deleted meanwhile is empty.                        *)
(***************************************************************************)
Publishes(r) == r.op \in {"create_event", "edit_event"} /\ r.form.publish
SuccessMeansMailed == \A w \in Worker : pc[w] = "respond" /\ Publishes(job[w]) =>
  \/ row[job[w].event] = "deleted"
  \/ \A p \in promised : p[1] = job[w].event => p \in mailed

\* What was promised comes to pass: no publication stays half done for ever.
PublicationTold == \A e \in Event, u \in Guest :
  <<e, u>> \in promised ~>
    <<e, u>> \in mailed \/ <<e, u>> \notin promised \/ e \in cut \/ row[e] = "deleted"

(***************************************************************************)
(* Nobody attends an event without having been entitled to come at some    *)
(* time, although the publicity, the invitation and the insert are three   *)
(* statements; guest lists are those of events that are there.             *)
(***************************************************************************)
AttendeesEntitled == attending \subseteq entitled
ListsBelong == \A p \in invited \cup attending : Here(p[1])

(***************************************************************************)
(* When edit_event responds, everybody who attended when it began and has  *)
(* not left since has been told.                                           *)
(***************************************************************************)
ChangeTold == \A w \in Worker :
  pc[w] = "respond" /\ job[w].op = "edit_event" => owed[w] = {}

\* Nothing is mailed or announced about an event before it is published.
NothingLeaks ==
  \A p \in mailed \cup {<<n.event, n.user>> : n \in {m \in news : m.type = "NewEvent"}} :
    row[p[1]] \in {"published", "deleted"}

\* "You can view details of the event and register your attendance at the following
\* url", says every invitation mail: when it is sent, its receiver can.
MailOpens == [][\A p \in mailed' \ mailed :
  p[1] \in public \/ p \in invited \cup attending \/ p[2] = Organiser[p[1]]]_vars

\* The visitors are promised "notifications for events you are participating in",
\* and one kind of them says the event has been cancelled: once delete_event has
\* responded, all who attended and had not left have been told.
DeletionTold == \A w \in Worker :
  pc[w] = "respond" /\ job[w].op = "delete_event" => owed[w] = {}

\* The event's rows live as the rest of the system expects.
Rows == INSTANCE EventRows WITH
  visibility <- [e \in Event |-> IF row[e] # "published" THEN row[e]
                                 ELSE IF e \in public THEN "public" ELSE "private"]
ImplementsEventRows == Rows!Spec
=============================================================================
