---------------------------- MODULE EventsProofs ----------------------------
(***************************************************************************)
(* Events, their lists and who is told, for every number of users, events, *)
(* workers, forms and faults.                                              *)
(***************************************************************************)
EXTENDS Events, TLAPS

-----------------------------------------------------------------------------
(***************************************************************************)
(* Threads: which requests can be at which statement.                      *)
(***************************************************************************)
Place == Statement \cup {"idle", "announce", "respond"}

ByCreate == {"insert_event", "id_returned", "announce"}
ByEdit == {"select_organiser", "update_event", "select_name", "select_is_public",
           "delete_invitation", "select_invitations"}
ByDelete == {"select_owner", "select_privilege", "delete_event"}
ByRegister == {"select_publicity", "select_invitation", "insert_attendance"}

\* A request fits the statement its worker is at.  An edit that publishes
\* stores no invitation, and whatever mails belongs to a form that publishes.
Fits(place, r) ==
  /\ place # "idle" => r.op # "none" /\ r.user \in User
  /\ r.op \in Operation \ {"create_event"} => r.event \in Event
  /\ place \notin {"idle", "insert_event"} => r.event \in Event
  /\ place \in ByCreate => r.op = "create_event"
  /\ place \in ByEdit => r.op = "edit_event"
  /\ place \in ByDelete => r.op = "delete_event"
  /\ place \in ByRegister => r.op = "register_attendance"
  /\ place = "delete_attendance" => r.op = "unregister_attendance"
  /\ place \in {"insert_invitation", "select_followers", "notify_follower"} =>
       r.op \in {"create_event", "edit_event"}
  /\ place \in {"select_attendees", "notify_attendee"} => r.op \in {"edit_event", "delete_event"}
  /\ place = "insert_invitation" /\ r.op = "edit_event" => ~r.form.publish
  /\ place = "delete_invitation" => ~r.form.publish
  /\ place \in {"announce", "select_invitations"} => r.form.publish

Threads ==
  /\ pc \in [Worker -> Place]
  /\ job \in [Worker -> Job]
  /\ attempt \in [Worker -> {1, 2}]
  /\ owed \in [Worker -> SUBSET User]
  /\ \A w \in Worker : Fits(pc[w], job[w])

LEMMA NoJobIsJob == NoJob \in Job /\ NoForm \in Form
BY EventsAssumptions DEF NoJob, NoForm, Job, Form

LEMMA ProceedThreads ==
  ASSUME Threads, NEW w \in Worker, NEW place \in Place, NEW r \in Job, Fits(place, r),
         NEW debts \in [Worker -> SUBSET User], Proceed(w, place, r, debts)
  PROVE  Threads'
<1>1. pc' \in [Worker -> Place] /\ attempt' \in [Worker -> {1, 2}] /\ owed' \in [Worker -> SUBSET User]
  BY DEF Threads, Proceed
<1>2. job' \in [Worker -> Job]
  BY DEF Threads, Proceed
<1>3. ASSUME NEW x \in Worker PROVE Fits(pc'[x], job'[x])
  <2>1. CASE x = w
    <3>1. pc'[x] = place /\ job'[x] = r
      BY <2>1 DEF Threads, Proceed
    <3>2. QED
      BY <3>1
  <2>2. CASE x # w
    <3>1. pc'[x] = pc[x] /\ job'[x] = job[x]
      BY <2>2 DEF Threads, Proceed
    <3>2. QED
      BY <3>1 DEF Threads
  <2>3. QED
    BY <2>1, <2>2
<1>4. QED
  BY <1>1, <1>2, <1>3 DEF Threads

LEMMA FinishThreads ==
  ASSUME Threads, NEW w \in Worker, Finish(w)
  PROVE  Threads'
<1>1. /\ pc' \in [Worker -> Place] /\ attempt' \in [Worker -> {1, 2}]
      /\ owed' \in [Worker -> SUBSET User]
  BY DEF Threads, Finish, Place
<1>2. job' \in [Worker -> Job]
  BY NoJobIsJob DEF Threads, Finish
<1>3. ASSUME NEW x \in Worker PROVE Fits(pc'[x], job'[x])
  <2>1. CASE x = w
    <3>1. pc'[x] = "idle" /\ job'[x] = NoJob
      BY <2>1 DEF Threads, Finish
    <3>2. NoJob.op = "none"
      BY DEF NoJob
    <3>3. QED
      BY <3>1, <3>2 DEF Fits, Operation, ByCreate, ByEdit, ByDelete, ByRegister
  <2>2. CASE x # w
    <3>1. pc'[x] = pc[x] /\ job'[x] = job[x]
      BY <2>2 DEF Threads, Finish
    <3>2. QED
      BY <3>1 DEF Threads
  <2>3. QED
    BY <2>1, <2>2
<1>4. QED
  BY <1>1, <1>2, <1>3 DEF Threads

LEMMA GoToThreads ==
  ASSUME Threads, NEW w \in Worker, NEW place \in Place, Fits(place, job[w]), GoTo(w, place)
  PROVE  Threads'
BY ProceedThreads DEF GoTo, Threads

LEMMA ReceiveThreads ==
  ASSUME Threads, NEW w \in Worker, NEW r \in Job, r.op \in Operation, r.user \in User,
         r.op # "create_event" => r.event \in Event, Receive(w, r)
  PROVE  Threads'
<1>1. /\ FirstStatement(r.op) \in Place
      /\ Fits(FirstStatement(r.op), r)
  BY DEF FirstStatement, Operation, Place, Statement, Fits, ByCreate, ByEdit, ByDelete, ByRegister
<1>2. Proceed(w, FirstStatement(r.op), r, owed)
  BY DEF Receive, Proceed
<1>3. QED
  BY <1>1, <1>2, ProceedThreads DEF Threads

\* The loops, whose last round leads on to another statement.
LEMMA WithTodo ==
  ASSUME NEW r \in Job, NEW left \in SUBSET User
  PROVE  /\ [r EXCEPT !.todo = left] \in Job
         /\ \A place \in Place : Fits(place, [r EXCEPT !.todo = left]) <=> Fits(place, r)
         /\ [r EXCEPT !.todo = left].op = r.op
         /\ [r EXCEPT !.todo = left].user = r.user
         /\ [r EXCEPT !.todo = left].event = r.event
         /\ [r EXCEPT !.todo = left].form = r.form
         /\ [r EXCEPT !.todo = left].todo = left
<1>1. /\ [r EXCEPT !.todo = left] \in Job
      /\ [r EXCEPT !.todo = left].op = r.op
      /\ [r EXCEPT !.todo = left].user = r.user
      /\ [r EXCEPT !.todo = left].event = r.event
      /\ [r EXCEPT !.todo = left].form = r.form
      /\ [r EXCEPT !.todo = left].todo = left
  BY DEF Job
<1>2. \A place \in Place : Fits(place, [r EXCEPT !.todo = left]) <=> Fits(place, r)
  BY <1>1 DEF Fits
<1>3. QED
  BY <1>1, <1>2

\* Trying one copy of an address is a round of the loop over added.
LEMMA AddNextAdds ==
  ASSUME NEW w \in Worker, job[w] \in Job, NEW u, AddNext(w, u)
  PROVE  \E r \in Job, left \in SUBSET User :
           /\ r.op = job[w].op /\ r.user = job[w].user
           /\ r.event = job[w].event /\ r.form = job[w].form
           /\ Add(w, r, left)
<1> DEFINE second == job[w].second \ {u}
           r == [job[w] EXCEPT !.second = second]
<1>1. job[w].todo \in SUBSET User /\ second \in SUBSET User
  BY DEF Job
<1>2. /\ r \in Job /\ r.op = job[w].op /\ r.user = job[w].user
      /\ r.event = job[w].event /\ r.form = job[w].form
  BY <1>1 DEF Job
<1>3. CASE u \in job[w].second
  <2>1. Add(w, r, job[w].todo)
    BY <1>3 DEF AddNext
  <2> HIDE DEF r
  <2>2. QED
    BY <1>1, <1>2, <2>1
<1>4. CASE u \notin job[w].second
  <2>1. Add(w, job[w], job[w].todo \ {u}) /\ job[w].todo \ {u} \in SUBSET User
    BY <1>1, <1>4 DEF AddNext
  <2>2. QED
    BY <2>1
<1>5. QED
  BY <1>3, <1>4

LEMMA RemoveThreads ==
  ASSUME Threads, NEW w \in Worker, NEW r \in Job, r.op = "edit_event", r.user \in User,
         r.event \in Event, ~r.form.publish, NEW left \in SUBSET User, Remove(w, r, left)
  PROVE  Threads'
<1> DEFINE place == IF left = {} THEN "select_attendees" ELSE "delete_invitation"
<1>1. place \in Place /\ Fits(place, r)
  BY DEF Place, Statement, Fits, ByCreate, ByEdit, ByDelete, ByRegister
<1>2. Proceed(w, place, [r EXCEPT !.todo = left], owed)
  BY DEF Remove
<1>3. QED
  BY <1>1, <1>2, WithTodo, ProceedThreads DEF Threads

LEMMA AddThreads ==
  ASSUME Threads, NEW w \in Worker, NEW r \in Job, r.op \in {"create_event", "edit_event"},
         r.user \in User, r.event \in Event, r.op = "edit_event" => ~r.form.publish,
         NEW left \in SUBSET User, Add(w, r, left)
  PROVE  Threads'
<1>1. CASE left # {}
  <2>1. "insert_invitation" \in Place /\ Fits("insert_invitation", r)
    BY DEF Place, Statement, Fits, ByCreate, ByEdit, ByDelete, ByRegister
  <2>2. Proceed(w, "insert_invitation", [r EXCEPT !.todo = left], owed)
    BY <1>1 DEF Add
  <2>3. QED
    BY <2>1, <2>2, WithTodo, ProceedThreads DEF Threads
<1>2. CASE left = {} /\ r.op = "edit_event"
  <2>1. Remove(w, r, r.form.removed) /\ r.form.removed \in SUBSET User
    BY <1>2 DEF Add, Job, Form
  <2>2. QED
    BY <1>2, <2>1, RemoveThreads
<1>3. CASE left = {} /\ r.op # "edit_event" /\ r.form.publish
  <2>1. "announce" \in Place /\ Fits("announce", r)
    BY <1>3 DEF Place, Statement, Fits, ByCreate, ByEdit, ByDelete, ByRegister
  <2>2. Proceed(w, "announce", [r EXCEPT !.todo = {}], owed)
    BY <1>3 DEF Add
  <2>3. QED
    BY <2>1, <2>2, WithTodo, ProceedThreads DEF Threads
<1>4. CASE left = {} /\ r.op # "edit_event" /\ ~r.form.publish
  BY <1>4, FinishThreads DEF Add
<1>5. QED
  BY <1>1, <1>2, <1>3, <1>4

LEMMA TellAttendeesThreads ==
  ASSUME Threads, NEW w \in Worker, NEW left \in SUBSET User, NEW debts \in [Worker -> SUBSET User],
         pc[w] \in {"select_attendees", "notify_attendee"}, TellAttendees(w, left, debts)
  PROVE  Threads'
<1> DEFINE place == IF left = {} THEN "respond" ELSE "notify_attendee"
<1>1. job[w] \in Job /\ Fits(pc[w], job[w])
  BY DEF Threads
<1>2. place \in Place /\ Fits(place, job[w])
  BY <1>1 DEF Place, Statement, Operation, Fits, ByCreate, ByEdit, ByDelete, ByRegister
<1>3. Proceed(w, place, [job[w] EXCEPT !.todo = left], debts)
  BY DEF TellAttendees
<1>4. QED
  BY <1>1, <1>2, <1>3, WithTodo, ProceedThreads

LEMMA TellFollowersThreads ==
  ASSUME Threads, NEW w \in Worker, NEW left \in SUBSET User,
         pc[w] \in {"select_followers", "notify_follower"}, TellFollowers(w, left)
  PROVE  Threads'
<1> DEFINE after == IF job[w].op = "edit_event" THEN "select_attendees" ELSE "respond"
           place == IF left = {} THEN after ELSE "notify_follower"
<1>1. job[w] \in Job /\ Fits(pc[w], job[w])
  BY DEF Threads
<1>2. place \in Place /\ Fits(place, job[w])
  BY <1>1 DEF Place, Statement, Operation, Fits, ByCreate, ByEdit, ByDelete, ByRegister
<1>3. Proceed(w, place, [job[w] EXCEPT !.todo = left], owed)
  BY DEF TellFollowers
<1>4. QED
  BY <1>1, <1>2, <1>3, WithTodo, ProceedThreads DEF Threads

LEMMA KnownThreads ==
  ASSUME Threads, NEW w \in Worker, NEW r \in Job, r.op = "edit_event", r.user \in User,
         r.event \in Event, Known(w, r)
  PROVE  Threads'
<1>1. CASE r.form.publish
  <2>1. "select_invitations" \in Place /\ Fits("select_invitations", r)
    BY <1>1 DEF Place, Statement, Operation, Fits, ByCreate, ByEdit, ByDelete, ByRegister
  <2>2. Proceed(w, "select_invitations", r, owed)
    BY <1>1 DEF Known
  <2>3. QED
    BY <2>1, <2>2, ProceedThreads DEF Threads
<1>2. CASE ~r.form.publish
  <2>1. Add(w, r, r.form.added) /\ r.form.added \in SUBSET User
    BY <1>2 DEF Known, Job, Form
  <2>2. QED
    BY <1>2, <2>1, AddThreads
<1>3. QED
  BY <1>1, <1>2

LEMMA WithOpen ==
  ASSUME NEW r \in Job, NEW open \in BOOLEAN
  PROVE  /\ [r EXCEPT !.open = open] \in Job
         /\ [r EXCEPT !.open = open].op = r.op
         /\ [r EXCEPT !.open = open].user = r.user
         /\ [r EXCEPT !.open = open].event = r.event
         /\ [r EXCEPT !.open = open].form = r.form
         /\ [r EXCEPT !.open = open].todo = r.todo
BY DEF Job

LEMMA NamedThreads ==
  ASSUME Threads, NEW w \in Worker, pc[w] \in {"update_event", "select_name"}, Named(w)
  PROVE  Threads'
<1>1. job[w] \in Job /\ Fits(pc[w], job[w])
  BY DEF Threads
<1>2. job[w].op = "edit_event" /\ job[w].user \in User /\ job[w].event \in Event
  BY <1>1 DEF Place, Statement, Operation, Fits, ByCreate, ByEdit, ByDelete, ByRegister
<1>3. CASE job[w].form.public = "unsent"
  <2>1. "select_is_public" \in Place /\ Fits("select_is_public", job[w])
    BY <1>2 DEF Place, Statement, Operation, Fits, ByCreate, ByEdit, ByDelete, ByRegister
  <2>2. GoTo(w, "select_is_public")
    BY <1>3 DEF Named
  <2>3. QED
    BY <2>1, <2>2, GoToThreads
<1>4. CASE job[w].form.public # "unsent"
  <2> DEFINE open == job[w].form.public = "public"
  <2>1. open \in BOOLEAN /\ Known(w, [job[w] EXCEPT !.open = open])
    BY <1>4 DEF Named
  <2> HIDE DEF open
  <2>2. QED
    BY <1>1, <1>2, <2>1, WithOpen, KnownThreads
<1>5. QED
  BY <1>3, <1>4

LEMMA RestartThreads ==
  ASSUME Threads, NEW w \in Worker, pc[w] # "idle", Restart(w)
  PROVE  Threads'
<1>1. job[w] \in Job /\ Fits(pc[w], job[w])
  BY DEF Threads
<1>2. job[w].op \in Operation /\ job[w].user \in User
  BY <1>1 DEF Fits, Job
<1>3. CASE attempt[w] = 2
  BY <1>3, FinishThreads DEF Restart
<1>4. CASE attempt[w] # 2
  <2> DEFINE event == IF job[w].op = "create_event" THEN None ELSE job[w].event
             r == [job[w] EXCEPT !.todo = {}, !.second = job[w].form.twice,
                                 !.open = FALSE, !.down = FALSE, !.event = event]
             place == FirstStatement(job[w].op)
  <2>1. /\ r \in Job /\ r.op = job[w].op /\ r.user = job[w].user
        /\ r.op # "create_event" => r.event \in Event
    BY <1>1, <1>2 DEF Job, Form, Fits
  <2>2. /\ place \in Place
        /\ Fits(place, r)
    BY <1>2, <2>1 DEF FirstStatement, Place, Statement, Operation, Fits, ByCreate, ByEdit, ByDelete, ByRegister
  <2>3. /\ pc' = [pc EXCEPT ![w] = place]
        /\ job' = [job EXCEPT ![w] = r]
        /\ attempt' = [attempt EXCEPT ![w] = 2]
        /\ owed' = [owed EXCEPT ![w] = {}]
    BY <1>4 DEF Restart
  <2> HIDE DEF r, place
  <2>4. /\ pc' \in [Worker -> Place] /\ job' \in [Worker -> Job] /\ attempt' \in [Worker -> {1, 2}]
        /\ owed' \in [Worker -> SUBSET User]
    BY <2>1, <2>2, <2>3 DEF Threads
  <2>5. ASSUME NEW x \in Worker PROVE Fits(pc'[x], job'[x])
    <3>1. CASE x = w
      <4>1. pc'[x] = place /\ job'[x] = r
        BY <2>3, <3>1 DEF Threads
      <4>2. QED
        BY <2>2, <4>1
    <3>2. CASE x # w
      <4>1. pc'[x] = pc[x] /\ job'[x] = job[x]
        BY <2>3, <3>2 DEF Threads
      <4>2. QED
        BY <4>1 DEF Threads
    <3>3. QED
      BY <3>1, <3>2
  <2>6. QED
    BY <2>4, <2>5 DEF Threads
<1>5. QED
  BY <1>3, <1>4

LEMMA ReceivesThreads ==
  ASSUME Threads, NEW w \in Worker,
         \/ ReceiveCreate(w) \/ ReceiveEdit(w) \/ ReceiveDelete(w)
         \/ ReceiveRegister(w) \/ ReceiveUnregister(w)
  PROVE  Threads'
<1> USE NoJobIsJob, EventsAssumptions
<1>1. CASE ReceiveCreate(w)
  <2>1. PICK u \in User, form \in Submitted :
          Receive(w, [NoJob EXCEPT !.op = "create_event", !.user = u, 
                                   !.form = form, !.second = form.twice])
    BY <1>1 DEF ReceiveCreate
  <2> DEFINE r == [NoJob EXCEPT !.op = "create_event", !.user = u, 
                                !.form = form, !.second = form.twice]
  <2>2. r \in Job /\ r.op = "create_event" /\ r.user = u
    BY DEF Job, Form, Operation
  <2>3. QED
    BY <2>1, <2>2, ReceiveThreads DEF Operation
<1>2. CASE ReceiveEdit(w)
  <2>1. PICK u \in User, e \in Event, form \in Submitted \ {NoForm} :
          Receive(w, [NoJob EXCEPT !.op = "edit_event", !.user = u, !.event = e,
                                   !.form = form, !.second = form.twice])
    BY <1>2 DEF ReceiveEdit
  <2> DEFINE r == [NoJob EXCEPT !.op = "edit_event", !.user = u, !.event = e,
                                !.form = form, !.second = form.twice]
  <2>2. r \in Job /\ r.op = "edit_event" /\ r.user = u /\ r.event = e
    BY DEF Job, Form, Operation
  <2>3. QED
    BY <2>1, <2>2, ReceiveThreads DEF Operation
<1>3. ASSUME NEW op \in {"delete_event", "register_attendance", "unregister_attendance"},
             NEW u \in User, NEW e \in Event,
             Receive(w, [NoJob EXCEPT !.op = op, !.user = u, !.event = e])
      PROVE  Threads'
  <2> DEFINE r == [NoJob EXCEPT !.op = op, !.user = u, !.event = e]
  <2>1. r \in Job /\ r.op = op /\ r.user = u /\ r.event = e
    BY DEF Job, Operation
  <2>2. QED
    BY <1>3, <2>1, ReceiveThreads DEF Operation
<1>4. CASE ReceiveDelete(w)
  BY <1>3, <1>4 DEF ReceiveDelete
<1>5. CASE ReceiveRegister(w)
  BY <1>3, <1>5 DEF ReceiveRegister
<1>6. CASE ReceiveUnregister(w)
  BY <1>3, <1>6 DEF ReceiveUnregister
<1>7. QED
  BY <1>1, <1>2, <1>4, <1>5, <1>6

LEMMA HandleThreads ==
  ASSUME Threads, NEW w \in Worker, Handle(w)
  PROVE  Threads'
<1>1. job[w] \in Job /\ Fits(pc[w], job[w]) /\ owed \in [Worker -> SUBSET User]
  BY DEF Threads
<1>2. /\ job[w].todo \in SUBSET User
      /\ job[w].form.added \in SUBSET User
  BY <1>1 DEF Job, Form
<1>3. ASSUME NEW pairs PROVE \A e : ListOf(pairs, e) \in SUBSET User
  BY DEF ListOf
<1>4. CASE InsertEvent(w)
  <2>1. CASE Finish(w)
    BY <2>1, FinishThreads
  <2>2. ASSUME NEW e \in Event, pc[w] = "insert_event",
               Proceed(w, "id_returned", [job[w] EXCEPT !.event = e], owed)
        PROVE  Threads'
    <3> DEFINE r == [job[w] EXCEPT !.event = e]
    <3>1. r \in Job /\ r.op = job[w].op /\ r.user = job[w].user /\ r.event = e
      BY <1>1 DEF Job
    <3>2. "id_returned" \in Place /\ Fits("id_returned", r)
      BY <1>1, <2>2, <3>1 DEF Place, Statement, Operation, Fits, ByCreate, ByEdit, ByDelete, ByRegister
    <3>3. QED
      BY <1>1, <2>2, <3>1, <3>2, ProceedThreads
  <2>3. QED
    BY <1>4, <2>1, <2>2 DEF InsertEvent
<1>5. CASE ReturnId(w)
  <2>1. Add(w, job[w], job[w].form.added) /\ pc[w] = "id_returned"
    BY <1>5 DEF ReturnId
  <2>2. job[w].op = "create_event" /\ job[w].user \in User /\ job[w].event \in Event
    BY <1>1, <2>1 DEF Place, Statement, Operation, Fits, ByCreate, ByEdit, ByDelete, ByRegister
  <2>3. QED
    BY <1>1, <1>2, <2>1, <2>2, AddThreads
<1>6. CASE Announce(w)
  <2>1. pc[w] = "announce" /\ (Finish(w) \/ GoTo(w, "select_followers"))
    BY <1>6 DEF Announce
  <2>2. "select_followers" \in Place /\ Fits("select_followers", job[w])
    BY <1>1, <2>1 DEF Place, Statement, Operation, Fits, ByCreate, ByEdit, ByDelete, ByRegister
  <2>3. QED
    BY <2>1, <2>2, FinishThreads, GoToThreads
<1>7. CASE SelectOrganiser(w)
  <2>1. CASE Finish(w)
    BY <2>1, FinishThreads
  <2>2. ASSUME ~Finish(w) PROVE Threads'
    <3> DEFINE place == IF job[w].form.publish \/ job[w].form.details \/ job[w].form.public # "unsent"
                        THEN "update_event" ELSE "select_name"
               debts == [owed EXCEPT ![w] = ListOf(attending, job[w].event)]
    <3>1. pc[w] = "select_organiser" /\ Proceed(w, place, job[w], debts)
      BY <1>7, <2>2 DEF SelectOrganiser
    <3>2. place \in Place /\ Fits(place, job[w])
      BY <1>1, <3>1 DEF Place, Statement, Operation, Fits, ByCreate, ByEdit, ByDelete, ByRegister
    <3>3. debts \in [Worker -> SUBSET User]
      BY <1>1, <1>3
    <3> HIDE DEF place, debts
    <3>4. QED
      BY <1>1, <3>1, <3>2, <3>3, ProceedThreads
  <2>3. QED
    BY <2>1, <2>2
<1>8. CASE UpdateEvent(w)
  <2>1. pc[w] = "update_event" /\ (Finish(w) \/ GoTo(w, "select_name") \/ Named(w))
    BY <1>8 DEF UpdateEvent
  <2>2. "select_name" \in Place /\ Fits("select_name", job[w])
    BY <1>1, <2>1 DEF Place, Statement, Operation, Fits, ByCreate, ByEdit, ByDelete, ByRegister
  <2>3. QED
    BY <2>1, <2>2, FinishThreads, GoToThreads, NamedThreads
<1>9. CASE SelectName(w)
  <2>1. pc[w] = "select_name" /\ (Finish(w) \/ Named(w))
    BY <1>9 DEF SelectName
  <2>2. QED
    BY <2>1, FinishThreads, NamedThreads
<1>10. CASE SelectIsPublic(w)
  <2> DEFINE open == job[w].event \in public
  <2>1. pc[w] = "select_is_public" /\ (Finish(w) \/ Known(w, [job[w] EXCEPT !.open = open]))
    BY <1>10 DEF SelectIsPublic
  <2>2. job[w].op = "edit_event" /\ job[w].user \in User /\ job[w].event \in Event
    BY <1>1, <2>1 DEF Place, Statement, Operation, Fits, ByCreate, ByEdit, ByDelete, ByRegister
  <2>3. open \in BOOLEAN
    OBVIOUS
  <2> HIDE DEF open
  <2>4. QED
    BY <1>1, <2>1, <2>2, <2>3, WithOpen, FinishThreads, KnownThreads
<1>11. CASE InsertInvitation(w) \/ RefuseInvitation(w)
  <2>1. Finish(w) \/ \E u : AddNext(w, u)
    BY <1>11 DEF InsertInvitation, RefuseInvitation
  <2>2. /\ job[w].op \in {"create_event", "edit_event"} /\ job[w].user \in User
        /\ job[w].event \in Event /\ (job[w].op = "edit_event" => ~job[w].form.publish)
    BY <1>1, <1>11 DEF InsertInvitation, RefuseInvitation, Place, Statement, Operation, Fits,
       ByCreate, ByEdit, ByDelete, ByRegister
  <2>3. QED
    BY <1>1, <2>1, <2>2, FinishThreads, AddNextAdds, AddThreads
<1>12. CASE DeleteInvitation(w)
  <2>1. PICK u \in job[w].todo : Remove(w, job[w], job[w].todo \ {u})
    BY <1>12 DEF DeleteInvitation
  <2>2. /\ job[w].op = "edit_event" /\ job[w].user \in User /\ job[w].event \in Event
        /\ ~job[w].form.publish
    BY <1>1, <1>12 DEF DeleteInvitation, Place, Statement, Operation, Fits, ByCreate, ByEdit, ByDelete, ByRegister
  <2>3. job[w].todo \ {u} \in SUBSET User
    BY <1>2
  <2>4. QED
    BY <1>1, <2>1, <2>2, <2>3, RemoveThreads
<1>13. CASE SelectInvitations(w)
  <2> DEFINE place == IF job[w].open THEN "select_followers" ELSE "select_attendees"
  <2>1. pc[w] = "select_invitations" /\ GoTo(w, place)
    BY <1>13 DEF SelectInvitations
  <2>2. place \in Place /\ Fits(place, job[w])
    BY <1>1, <2>1 DEF Place, Statement, Operation, Fits, ByCreate, ByEdit, ByDelete, ByRegister
  <2>3. QED
    BY <2>1, <2>2, GoToThreads
<1>14. CASE SelectFollowers(w)
  BY <1>3, <1>14, TellFollowersThreads DEF SelectFollowers
<1>15. CASE NotifyFollower(w)
  <2>1. PICK u \in job[w].todo : TellFollowers(w, job[w].todo \ {u})
    BY <1>15 DEF NotifyFollower
  <2>2. QED
    BY <1>2, <1>15, <2>1, TellFollowersThreads DEF NotifyFollower
<1>16. CASE SelectAttendees(w)
  BY <1>1, <1>3, <1>16, TellAttendeesThreads DEF SelectAttendees
<1>17. CASE NotifyAttendee(w)
  <2>1. PICK u \in job[w].todo : TellAttendees(w, job[w].todo \ {u}, [owed EXCEPT ![w] = @ \ {u}])
    BY <1>17 DEF NotifyAttendee
  <2>2. [owed EXCEPT ![w] = @ \ {u}] \in [Worker -> SUBSET User]
    BY <1>1
  <2>3. QED
    BY <1>2, <1>17, <2>1, <2>2, TellAttendeesThreads DEF NotifyAttendee
<1>18. CASE SelectPublicity(w) \/ SelectInvitation(w) \/ InsertAttendance(w)
  <2>1. /\ pc[w] \in ByRegister
        /\ \/ Finish(w)
           \/ \E place \in {"insert_attendance", "select_invitation", "respond"} : GoTo(w, place)
    BY <1>18 DEF SelectPublicity, SelectInvitation, InsertAttendance, ByRegister
  <2>2. ASSUME NEW place \in {"insert_attendance", "select_invitation", "respond"}
        PROVE  place \in Place /\ Fits(place, job[w])
    BY <1>1, <2>1 DEF Place, Statement, Operation, Fits, ByCreate, ByEdit, ByDelete, ByRegister
  <2>3. QED
    BY <2>1, <2>2, FinishThreads, GoToThreads
<1>19. CASE DeleteAttendance(w)
  <2> DEFINE debts == [x \in Worker |-> IF job[x].event = job[w].event
                                        THEN owed[x] \ {job[w].user} ELSE owed[x]]
  <2>1. pc[w] = "delete_attendance" /\ Proceed(w, "respond", job[w], debts)
    BY <1>19 DEF DeleteAttendance
  <2>2. debts \in [Worker -> SUBSET User]
    BY <1>1
  <2>3. "respond" \in Place /\ Fits("respond", job[w])
    BY <1>1, <2>1 DEF Place, Statement, Operation, Fits, ByCreate, ByEdit, ByDelete, ByRegister
  <2> HIDE DEF debts
  <2>4. QED
    BY <1>1, <2>1, <2>2, <2>3, ProceedThreads
<1>20. CASE SelectOwner(w)
  <2>1. CASE Finish(w)
    BY <2>1, FinishThreads
  <2>2. ASSUME ~Finish(w) PROVE Threads'
    <3> DEFINE place == IF job[w].user = Organiser[job[w].event] THEN "delete_event" ELSE "select_privilege"
               debts == [owed EXCEPT ![w] = ListOf(attending, job[w].event)]
    <3>1. pc[w] = "select_owner" /\ Proceed(w, place, job[w], debts)
      BY <1>20, <2>2 DEF SelectOwner
    <3>2. place \in Place /\ Fits(place, job[w])
      BY <1>1, <3>1 DEF Place, Statement, Operation, Fits, ByCreate, ByEdit, ByDelete, ByRegister
    <3>3. debts \in [Worker -> SUBSET User]
      BY <1>1, <1>3
    <3> HIDE DEF place, debts
    <3>4. QED
      BY <1>1, <3>1, <3>2, <3>3, ProceedThreads
  <2>3. QED
    BY <2>1, <2>2
<1>21. CASE SelectPrivilege(w)
  <2>1. pc[w] = "select_privilege" /\ (Finish(w) \/ GoTo(w, "delete_event"))
    BY <1>21 DEF SelectPrivilege
  <2>2. "delete_event" \in Place /\ Fits("delete_event", job[w])
    BY <1>1, <2>1 DEF Place, Statement, Operation, Fits, ByCreate, ByEdit, ByDelete, ByRegister
  <2>3. QED
    BY <2>1, <2>2, FinishThreads, GoToThreads
<1>22. CASE DeleteEvent(w)
  <2> DEFINE debts == [x \in Worker |-> IF x # w /\ job[x].event = job[w].event THEN {} ELSE owed[x]]
  <2>1. pc[w] = "delete_event" /\ (Finish(w) \/ Proceed(w, "select_attendees", job[w], debts))
    BY <1>22 DEF DeleteEvent
  <2>2. debts \in [Worker -> SUBSET User]
    BY <1>1
  <2>3. "select_attendees" \in Place /\ Fits("select_attendees", job[w])
    BY <1>1, <2>1 DEF Place, Statement, Operation, Fits, ByCreate, ByEdit, ByDelete, ByRegister
  <2> HIDE DEF debts
  <2>4. QED
    BY <1>1, <2>1, <2>2, <2>3, FinishThreads, ProceedThreads
<1>23. CASE FindConnectionDown(w)
  BY <1>23, RestartThreads DEF FindConnectionDown
<1>24. CASE Respond(w)
  BY <1>24, FinishThreads DEF Respond
<1>25. QED
  BY <1>4, <1>5, <1>6, <1>7, <1>8, <1>9, <1>10, <1>11, <1>12, <1>13, <1>14, <1>15, <1>16, <1>17,
     <1>18, <1>19, <1>20, <1>21, <1>22, <1>23, <1>24 DEF Handle

LEMMA FaultThreads ==
  ASSUME Threads, NEW w \in Worker, LoseConnection(w) \/ FailStatement(w)
  PROVE  Threads'
<1>1. job[w] \in Job /\ Fits(pc[w], job[w]) /\ pc[w] # "idle" /\ owed \in [Worker -> SUBSET User]
  BY DEF Threads, LoseConnection, FailStatement, NoteFault
<1>2. CASE Finish(w) \/ Restart(w)
  BY <1>1, <1>2, FinishThreads, RestartThreads
<1>3. CASE Swallows(w) /\ \E u \in job[w].todo : AddNext(w, u)
  <2>1. job[w].op = "create_event" /\ job[w].user \in User /\ job[w].event \in Event
    BY <1>1, <1>3 DEF Swallows, Place, Statement, Operation, Fits, ByCreate, ByEdit, ByDelete, ByRegister
  <2>2. QED
    BY <1>1, <1>3, <2>1, AddNextAdds, AddThreads
<1>4. CASE /\ Swallows(w) /\ job[w].form.publish
           /\ Proceed(w, "announce", [job[w] EXCEPT !.todo = {}, !.down = TRUE], owed)
  <2> DEFINE r == [job[w] EXCEPT !.todo = {}, !.down = TRUE]
  <2>1. /\ r \in Job /\ r.op = job[w].op /\ r.user = job[w].user /\ r.event = job[w].event
        /\ r.form = job[w].form
    BY <1>1 DEF Job
  <2>2. "announce" \in Place /\ Fits("announce", r)
    BY <1>1, <1>4, <2>1 DEF Swallows, Place, Statement, Operation, Fits, ByCreate, ByEdit, ByDelete, ByRegister
  <2>3. QED
    BY <1>1, <1>4, <2>1, <2>2, ProceedThreads
<1>5. QED
  BY <1>2, <1>3, <1>4 DEF LoseConnection, FailStatement

LEMMA NextThreads ==
  ASSUME Threads, [Next]_vars
  PROVE  Threads'
<1>1. CASE UNCHANGED threads
  BY <1>1 DEF threads, Threads
<1>2. CASE \E u \in Guest, followed \in {Organiser[e] : e \in Event} : Follow(u, followed)
  BY <1>1, <1>2 DEF Follow
<1>3. CASE UNCHANGED vars
  BY <1>1, <1>3 DEF vars
<1>4. QED
  BY <1>2, <1>3, ReceivesThreads, HandleThreads, FaultThreads DEF Next
-----------------------------------------------------------------------------
(***************************************************************************)
(* The handlers' control flow: which statement a worker can come to from   *)
(* which, when its handler neither ends nor starts.                        *)
(***************************************************************************)
Firsts == {"insert_event", "select_organiser", "select_owner", "select_publicity", "delete_attendance"}

Leads(p, r, q) ==
  \/ p = "insert_event" /\ q = "id_returned"
  \/ p = "id_returned" /\ q \in {"insert_invitation", "announce"}
  \/ p = "insert_invitation" /\ q \in {"insert_invitation", "announce"}
  \/ p = "announce" /\ q \in {"announce", "select_followers"}
  \/ p = "select_organiser" /\ (q = "update_event" \/ (q = "select_name" /\ ~r.form.publish))
  \/ p = "update_event" /\ q = "select_name"
  \/ p \in {"update_event", "select_name"} /\ q = "select_is_public"
  \/ p \in {"update_event", "select_name", "select_is_public"} /\ q = "select_invitations"
  \/ /\ p \in {"update_event", "select_name", "select_is_public", "insert_invitation", "delete_invitation"}
     /\ ~r.form.publish
     /\ r.op = "edit_event"
     /\ q \in {"insert_invitation", "delete_invitation", "select_attendees"}
     /\ p = "delete_invitation" => q # "insert_invitation"
  \/ p = "select_invitations" /\ q \in {"select_followers", "select_attendees"}
  \/ p \in {"select_followers", "notify_follower"} /\ q = "notify_follower"
  \/ p \in {"select_followers", "notify_follower"} /\ r.op = "edit_event" /\ q = "select_attendees"
  \/ p \in {"select_followers", "notify_follower"} /\ r.op # "edit_event" /\ q = "respond"
  \/ p \in {"select_attendees", "notify_attendee"} /\ q \in {"notify_attendee", "respond"}
  \/ p = "select_publicity" /\ q \in {"select_invitation", "insert_attendance"}
  \/ p = "select_invitation" /\ q = "insert_attendance"
  \/ p \in {"insert_attendance", "delete_attendance"} /\ q = "respond"
  \/ p = "select_owner" /\ q \in {"select_privilege", "delete_event"}
  \/ p = "select_privilege" /\ q = "delete_event"
  \/ p = "delete_event" /\ q = "select_attendees"

Others(w) == \A x \in Worker \ {w} : pc'[x] = pc[x] /\ job'[x] = job[x]

Same(w) ==
  /\ job'[w].op = job[w].op
  /\ job'[w].user = job[w].user
  /\ job'[w].form = job[w].form
  /\ pc[w] # "insert_event" => job'[w].event = job[w].event

Ends(w) == pc'[w] = "idle"
Moves(w) == pc[w] # "idle" /\ Leads(pc[w], job[w], pc'[w]) /\ Same(w)
Begins(w) == pc'[w] \in Firsts

LEMMA ProceedMoves ==
  ASSUME Threads, NEW w \in Worker, NEW place, NEW r, NEW debts, Proceed(w, place, r, debts)
  PROVE  Others(w) /\ pc'[w] = place /\ job'[w] = r
BY DEF Threads, Proceed, Others

LEMMA FinishEnds ==
  ASSUME Threads, NEW w \in Worker, Finish(w)
  PROVE  Others(w) /\ Ends(w) /\ job'[w] = NoJob
BY DEF Threads, Finish, Others, Ends

LEMMA AddMoves ==
  ASSUME Threads, NEW w \in Worker, NEW r \in Job, NEW left \in SUBSET User, Add(w, r, left)
  PROVE  /\ Others(w)
         /\ \/ Ends(w) /\ left = {} /\ r.op # "edit_event" /\ ~r.form.publish
            \/ /\ job'[w].op = r.op /\ job'[w].user = r.user
               /\ job'[w].event = r.event /\ job'[w].form = r.form
               /\ \/ pc'[w] = "insert_invitation"
                  \/ pc'[w] = "announce" /\ r.op # "edit_event" /\ r.form.publish
                  \/ pc'[w] \in {"delete_invitation", "select_attendees"} /\ r.op = "edit_event"
<1>1. CASE left # {}
  <2>1. Proceed(w, "insert_invitation", [r EXCEPT !.todo = left], owed)
    BY <1>1 DEF Add
  <2>2. Others(w) /\ pc'[w] = "insert_invitation" /\ job'[w] = [r EXCEPT !.todo = left]
    BY <2>1, ProceedMoves
  <2>3. QED
    BY <2>2, WithTodo
<1>2. CASE left = {} /\ r.op = "edit_event"
  <2> DEFINE place == IF r.form.removed = {} THEN "select_attendees" ELSE "delete_invitation"
  <2>1. Proceed(w, place, [r EXCEPT !.todo = r.form.removed], owed) /\ r.form.removed \in SUBSET User
    BY <1>2 DEF Add, Remove, Job, Form
  <2>2. place \in {"delete_invitation", "select_attendees"}
    OBVIOUS
  <2> HIDE DEF place
  <2>3. Others(w) /\ pc'[w] = place /\ job'[w] = [r EXCEPT !.todo = r.form.removed]
    BY <2>1, ProceedMoves
  <2>4. QED
    BY <1>2, <2>1, <2>2, <2>3, WithTodo
<1>3. CASE left = {} /\ r.op # "edit_event" /\ r.form.publish
  <2>1. Proceed(w, "announce", [r EXCEPT !.todo = {}], owed)
    BY <1>3 DEF Add
  <2>2. Others(w) /\ pc'[w] = "announce" /\ job'[w] = [r EXCEPT !.todo = {}]
    BY <2>1, ProceedMoves
  <2>3. QED
    BY <1>3, <2>2, WithTodo
<1>4. CASE left = {} /\ r.op # "edit_event" /\ ~r.form.publish
  BY <1>4, FinishEnds DEF Add
<1>5. QED
  BY <1>1, <1>2, <1>3, <1>4

LEMMA KnownMoves ==
  ASSUME Threads, NEW w \in Worker, NEW r \in Job, r.op = "edit_event", Known(w, r)
  PROVE  /\ Others(w)
         /\ job'[w].op = r.op /\ job'[w].user = r.user
         /\ job'[w].event = r.event /\ job'[w].form = r.form
         /\ \/ pc'[w] = "select_invitations"
            \/ /\ pc'[w] \in {"insert_invitation", "delete_invitation", "select_attendees"}
               /\ ~r.form.publish
<1>1. CASE r.form.publish
  <2>1. Proceed(w, "select_invitations", r, owed)
    BY <1>1 DEF Known
  <2>2. QED
    BY <2>1, ProceedMoves
<1>2. CASE ~r.form.publish
  <2>1. Add(w, r, r.form.added) /\ r.form.added \in SUBSET User
    BY <1>2 DEF Known, Job, Form
  <2>2. QED
    BY <1>2, <2>1, AddMoves
<1>3. QED
  BY <1>1, <1>2

LEMMA NamedMoves ==
  ASSUME Threads, NEW w \in Worker, pc[w] \in {"update_event", "select_name"}, Named(w)
  PROVE  Others(w) /\ Moves(w)
<1>1. job[w] \in Job /\ Fits(pc[w], job[w]) /\ pc[w] # "idle"
  BY DEF Threads
<1>2. job[w].op = "edit_event"
  BY <1>1 DEF Place, Statement, Operation, Fits, ByCreate, ByEdit, ByDelete, ByRegister
<1>3. CASE job[w].form.public = "unsent"
  <2>1. Proceed(w, "select_is_public", job[w], owed)
    BY <1>3 DEF Named, GoTo
  <2>2. Others(w) /\ pc'[w] = "select_is_public" /\ job'[w] = job[w]
    BY <2>1, ProceedMoves
  <2>3. QED
    BY <1>1, <2>2 DEF Moves, Leads, Same
<1>4. CASE job[w].form.public # "unsent"
  <2> DEFINE open == job[w].form.public = "public"
             r == [job[w] EXCEPT !.open = open]
  <2>1. open \in BOOLEAN /\ Known(w, r)
    BY <1>4 DEF Named
  <2> HIDE DEF open
  <2>2. r \in Job /\ r.op = job[w].op /\ r.user = job[w].user /\ r.event = job[w].event /\ r.form = job[w].form
    BY <1>1, <2>1, WithOpen
  <2> HIDE DEF r
  <2>3. QED
    BY <1>1, <1>2, <2>1, <2>2, KnownMoves DEF Moves, Leads, Same
<1>5. QED
  BY <1>3, <1>4

LEMMA RestartBegins ==
  ASSUME Threads, NEW w \in Worker, pc[w] # "idle", Restart(w)
  PROVE  Others(w) /\ (Ends(w) \/ Begins(w))
<1>1. job[w].op \in Operation
  BY DEF Threads, Fits, Job
<1>2. CASE attempt[w] = 2
  BY <1>2, FinishEnds DEF Restart
<1>3. CASE attempt[w] # 2
  <2>1. pc'[w] = FirstStatement(job[w].op) /\ Others(w)
    BY <1>3 DEF Restart, Threads, Others
  <2>2. QED
    BY <1>1, <2>1 DEF FirstStatement, Operation, Begins, Firsts
<1>4. QED
  BY <1>2, <1>3

LEMMA ReceiveFlow ==
  ASSUME Threads, NEW w \in Worker, NEW r, Receive(w, r)
  PROVE  Others(w) /\ Begins(w)
<1>1. FirstStatement(r.op) \in Firsts
  BY EventsAssumptions DEF Receive, FirstStatement, Operation, Firsts
<1>2. Others(w) /\ pc'[w] = FirstStatement(r.op)
  BY DEF Receive, Threads, Others
<1>3. QED
  BY <1>1, <1>2 DEF Begins

LEMMA GoToFlow ==
  ASSUME Threads, NEW w \in Worker, NEW place, GoTo(w, place)
  PROVE  Others(w) /\ pc'[w] = place /\ job'[w] = job[w] /\ Same(w)
BY DEF Threads, GoTo, Proceed, Others, Same

LEMMA HandleFlow ==
  ASSUME Threads, NEW w \in Worker, Handle(w)
  PROVE  Others(w) /\ (Ends(w) \/ Moves(w) \/ (Begins(w) /\ FindConnectionDown(w)))
<1>1. job[w] \in Job /\ Fits(pc[w], job[w])
  BY DEF Threads
<1>2. job[w].todo \in SUBSET User /\ job[w].form.added \in SUBSET User
  BY <1>1 DEF Job, Form
<1>3. CASE Finish(w)
  BY <1>3, FinishEnds
<1>4. ASSUME NEW place, GoTo(w, place), pc[w] # "idle", Leads(pc[w], job[w], place)
      PROVE  Others(w) /\ Moves(w)
  BY <1>4, GoToFlow DEF Moves
<1>5. ASSUME NEW place, NEW r, NEW debts, Proceed(w, place, r, debts),
             pc[w] # "idle", Leads(pc[w], job[w], place),
             r.op = job[w].op, r.user = job[w].user, r.form = job[w].form,
             pc[w] # "insert_event" => r.event = job[w].event
      PROVE  Others(w) /\ Moves(w)
  BY <1>5, ProceedMoves DEF Moves, Same
<1>6. ASSUME NEW r \in Job, NEW left \in SUBSET User, pc[w] \in {"id_returned", "insert_invitation"},
             r.op = job[w].op, r.user = job[w].user, r.event = job[w].event, r.form = job[w].form,
             Add(w, r, left)
      PROVE  Others(w) /\ (Ends(w) \/ Moves(w))
  <2>1. /\ pc[w] = "id_returned" => job[w].op = "create_event"
        /\ job[w].op = "edit_event" /\ pc[w] = "insert_invitation" => ~job[w].form.publish
    BY <1>1 DEF Place, Statement, Operation, Fits, ByCreate, ByEdit, ByDelete, ByRegister
  <2>2. QED
    BY <1>1, <1>6, <2>1, AddMoves DEF Moves, Leads, Same
<1>7. CASE InsertEvent(w)
  <2>1. CASE \E e \in Event : Proceed(w, "id_returned", [job[w] EXCEPT !.event = e], owed)
    <3>1. PICK e \in Event : Proceed(w, "id_returned", [job[w] EXCEPT !.event = e], owed)
      BY <2>1
    <3> DEFINE r == [job[w] EXCEPT !.event = e]
    <3>2. r.op = job[w].op /\ r.user = job[w].user /\ r.form = job[w].form
      BY <1>1 DEF Job
    <3>3. pc[w] = "insert_event"
      BY <1>7 DEF InsertEvent
    <3>4. pc[w] # "idle" /\ Leads(pc[w], job[w], "id_returned")
      BY <3>3 DEF Leads
    <3> HIDE DEF r
    <3>5. QED
      BY <1>5, <3>1, <3>2, <3>3, <3>4 DEF r
  <2>2. QED
    BY <1>3, <1>7, <2>1 DEF InsertEvent
<1>8. CASE ReturnId(w)
  BY <1>1, <1>2, <1>6, <1>8 DEF ReturnId
<1>9. CASE Announce(w)
  BY <1>3, <1>4, <1>9 DEF Announce, Leads
<1>10. CASE SelectOrganiser(w) \/ SelectOwner(w)
  <2>1. CASE Finish(w)
    BY <1>3, <2>1
  <2>2. CASE ~Finish(w)
    <3>1. PICK place, debts : Proceed(w, place, job[w], debts) /\ Leads(pc[w], job[w], place) /\ pc[w] # "idle"
      BY <1>10, <2>2 DEF SelectOrganiser, SelectOwner, Leads
    <3>2. QED
      BY <1>5, <3>1
  <2>3. QED
    BY <2>1, <2>2
<1>11. CASE UpdateEvent(w)
  <2>1. pc[w] = "update_event" /\ (Finish(w) \/ GoTo(w, "select_name") \/ Named(w))
    BY <1>11 DEF UpdateEvent
  <2>2. pc[w] # "idle" /\ Leads(pc[w], job[w], "select_name")
    BY <2>1 DEF Leads
  <2>3. QED
    BY <1>3, <1>4, <2>1, <2>2, NamedMoves
<1>12. CASE SelectName(w)
  <2>1. pc[w] = "select_name" /\ (Finish(w) \/ Named(w))
    BY <1>12 DEF SelectName
  <2>2. QED
    BY <1>3, <2>1, NamedMoves
<1>13. CASE SelectIsPublic(w)
  <2> DEFINE open == job[w].event \in public
             r == [job[w] EXCEPT !.open = open]
  <2>1. pc[w] = "select_is_public" /\ (Finish(w) \/ Known(w, r))
    BY <1>13 DEF SelectIsPublic
  <2>2. job[w].op = "edit_event"
    BY <1>1, <2>1 DEF Place, Statement, Operation, Fits, ByCreate, ByEdit, ByDelete, ByRegister
  <2>3. open \in BOOLEAN
    OBVIOUS
  <2> HIDE DEF open
  <2>4. r \in Job /\ r.op = job[w].op /\ r.user = job[w].user /\ r.event = job[w].event /\ r.form = job[w].form
    BY <1>1, <2>3, WithOpen
  <2> HIDE DEF r
  <2>5. QED
    BY <1>3, <2>1, <2>2, <2>4, KnownMoves DEF Moves, Leads, Same
<1>14. CASE InsertInvitation(w) \/ RefuseInvitation(w)
  <2>1. pc[w] = "insert_invitation" /\ (Finish(w) \/ \E u : AddNext(w, u))
    BY <1>14 DEF InsertInvitation, RefuseInvitation
  <2>2. QED
    BY <1>1, <1>3, <1>6, <2>1, AddNextAdds
<1>15. CASE DeleteInvitation(w)
  <2>1. PICK u \in job[w].todo : Remove(w, job[w], job[w].todo \ {u})
    BY <1>15 DEF DeleteInvitation
  <2> DEFINE left == job[w].todo \ {u}
             place == IF left = {} THEN "select_attendees" ELSE "delete_invitation"
             r == [job[w] EXCEPT !.todo = left]
  <2>2. pc[w] = "delete_invitation" /\ left \in SUBSET User /\ Proceed(w, place, r, owed)
    BY <1>2, <1>15, <2>1 DEF DeleteInvitation, Remove
  <2>3. job[w].op = "edit_event" /\ ~job[w].form.publish
    BY <1>1, <2>2 DEF Place, Statement, Operation, Fits, ByCreate, ByEdit, ByDelete, ByRegister
  <2>4. pc[w] # "idle" /\ Leads(pc[w], job[w], place)
    BY <2>2, <2>3 DEF Leads
  <2> HIDE DEF left, place
  <2>5. r.op = job[w].op /\ r.user = job[w].user /\ r.form = job[w].form /\ r.event = job[w].event
    BY <1>1, <2>2, WithTodo
  <2> HIDE DEF r
  <2>6. QED
    BY <1>5, <2>2, <2>4, <2>5
<1>16. CASE SelectInvitations(w)
  <2> DEFINE place == IF job[w].open THEN "select_followers" ELSE "select_attendees"
  <2>1. pc[w] = "select_invitations" /\ GoTo(w, place)
    BY <1>16 DEF SelectInvitations
  <2>2. pc[w] # "idle" /\ Leads(pc[w], job[w], place)
    BY <2>1 DEF Leads
  <2>3. QED
    BY <1>4, <2>1, <2>2
<1>17. CASE SelectFollowers(w) \/ NotifyFollower(w)
  <2>1. PICK left \in SUBSET User : TellFollowers(w, left)
    BY <1>2, <1>17 DEF SelectFollowers, NotifyFollower, ListOf
  <2> DEFINE place == IF left = {} THEN IF job[w].op = "edit_event" THEN "select_attendees" ELSE "respond"
                      ELSE "notify_follower"
             r == [job[w] EXCEPT !.todo = left]
  <2>2. pc[w] \in {"select_followers", "notify_follower"} /\ Proceed(w, place, r, owed)
    BY <1>17, <2>1 DEF SelectFollowers, NotifyFollower, TellFollowers
  <2>3. pc[w] # "idle" /\ Leads(pc[w], job[w], place)
    BY <2>2 DEF Leads
  <2> HIDE DEF place
  <2>4. r.op = job[w].op /\ r.user = job[w].user /\ r.form = job[w].form /\ r.event = job[w].event
    BY <1>1, WithTodo
  <2> HIDE DEF r
  <2>5. QED
    BY <1>5, <2>2, <2>3, <2>4
<1>18. CASE SelectAttendees(w) \/ NotifyAttendee(w)
  <2>1. PICK left, debts : left \in SUBSET User /\ TellAttendees(w, left, debts)
    BY <1>2, <1>18 DEF SelectAttendees, NotifyAttendee, ListOf
  <2> DEFINE place == IF left = {} THEN "respond" ELSE "notify_attendee"
             r == [job[w] EXCEPT !.todo = left]
  <2>2. pc[w] \in {"select_attendees", "notify_attendee"} /\ Proceed(w, place, r, debts)
    BY <1>18, <2>1 DEF SelectAttendees, NotifyAttendee, TellAttendees
  <2>3. pc[w] # "idle" /\ Leads(pc[w], job[w], place)
    BY <2>2 DEF Leads
  <2> HIDE DEF place
  <2>4. r.op = job[w].op /\ r.user = job[w].user /\ r.form = job[w].form /\ r.event = job[w].event
    BY <1>1, WithTodo
  <2> HIDE DEF r
  <2>5. QED
    BY <1>5, <2>2, <2>3, <2>4
<1>19. CASE SelectPublicity(w) \/ SelectInvitation(w) \/ InsertAttendance(w) \/ SelectPrivilege(w)
  BY <1>3, <1>4, <1>19 DEF SelectPublicity, SelectInvitation, InsertAttendance, SelectPrivilege, Leads
<1>20. CASE DeleteAttendance(w) \/ DeleteEvent(w)
  <2>1. CASE Finish(w)
    BY <1>3, <2>1
  <2>2. CASE ~Finish(w)
    <3>1. PICK place, debts : Proceed(w, place, job[w], debts) /\ Leads(pc[w], job[w], place) /\ pc[w] # "idle"
      BY <1>20, <2>2 DEF DeleteAttendance, DeleteEvent, Leads
    <3>2. QED
      BY <1>5, <3>1
  <2>3. QED
    BY <2>1, <2>2
<1>21. CASE FindConnectionDown(w)
  BY <1>21, RestartBegins DEF FindConnectionDown
<1>22. CASE Respond(w)
  BY <1>3, <1>22 DEF Respond
<1>23. QED
  BY <1>7, <1>8, <1>9, <1>10, <1>11, <1>12, <1>13, <1>14, <1>15, <1>16, <1>17, <1>18, <1>19, <1>20,
     <1>21, <1>22 DEF Handle

\* Only a fault leaves a worker where it mails.
LEMMA AnnounceLeaves ==
  ASSUME Threads, NEW w \in Worker, Announce(w)
  PROVE  pc'[w] # "announce"
<1>1. CASE Finish(w)
  BY <1>1, FinishEnds DEF Ends
<1>2. CASE GoTo(w, "select_followers")
  BY <1>2, GoToFlow
<1>3. QED
  BY <1>1, <1>2 DEF Announce

LEMMA FaultFlow ==
  ASSUME Threads, NEW w \in Worker, LoseConnection(w) \/ FailStatement(w)
  PROVE  /\ Others(w)
         /\ Ends(w) \/ Moves(w) \/ Begins(w)
         /\ Moves(w) => pc'[w] \in {"insert_invitation", "announce"} \/ Ends(w) \/ Begins(w)
<1>1. job[w] \in Job /\ Fits(pc[w], job[w]) /\ pc[w] # "idle"
  BY DEF Threads, LoseConnection, FailStatement, NoteFault
<1>2. CASE Finish(w) \/ Restart(w)
  BY <1>1, <1>2, FinishEnds, RestartBegins
<1>3. CASE FailStatement(w) /\ Swallows(w) /\ \E u \in job[w].todo : AddNext(w, u)
  <2>1. pc[w] = "insert_invitation" /\ job[w].op = "create_event"
    BY <1>3 DEF Swallows, FailStatement
  <2>2. PICK r \in Job, left \in SUBSET User :
          /\ r.op = job[w].op /\ r.user = job[w].user
          /\ r.event = job[w].event /\ r.form = job[w].form
          /\ Add(w, r, left)
    BY <1>1, <1>3, AddNextAdds
  <2>3. QED
    BY <1>1, <2>1, <2>2, AddMoves DEF Moves, Leads, Same
<1>4. CASE /\ Swallows(w) /\ job[w].form.publish
           /\ Proceed(w, "announce", [job[w] EXCEPT !.todo = {}, !.down = TRUE], owed)
  <2> DEFINE r == [job[w] EXCEPT !.todo = {}, !.down = TRUE]
  <2>1. r.op = job[w].op /\ r.user = job[w].user /\ r.event = job[w].event /\ r.form = job[w].form
    BY <1>1 DEF Job
  <2>2. pc[w] \in {"insert_invitation", "announce"} /\ Proceed(w, "announce", r, owed)
    BY <1>4 DEF Swallows
  <2> HIDE DEF r
  <2>3. QED
    BY <1>1, <2>1, <2>2, ProceedMoves DEF Moves, Leads, Same
<1>5. QED
  BY <1>2, <1>3, <1>4 DEF LoseConnection, FailStatement

LEMMA ReceivesFlow ==
  ASSUME Threads, NEW w \in Worker,
         \/ ReceiveCreate(w) \/ ReceiveEdit(w) \/ ReceiveDelete(w)
         \/ ReceiveRegister(w) \/ ReceiveUnregister(w)
  PROVE  Others(w) /\ Begins(w)
<1>1. \E r : Receive(w, r)
  BY Zenon DEF ReceiveCreate, ReceiveEdit, ReceiveDelete, ReceiveRegister, ReceiveUnregister
<1>2. QED
  BY <1>1, ReceiveFlow

\* The actions that only move their worker on.
Quiet(w) ==
  \/ ReceiveCreate(w) \/ ReceiveEdit(w) \/ ReceiveDelete(w)
  \/ ReceiveRegister(w) \/ ReceiveUnregister(w)
  \/ ReturnId(w) \/ SelectOrganiser(w) \/ SelectName(w) \/ SelectIsPublic(w)
  \/ RefuseInvitation(w) \/ SelectFollowers(w) \/ SelectAttendees(w)
  \/ SelectPublicity(w) \/ SelectInvitation(w) \/ SelectOwner(w) \/ SelectPrivilege(w)
  \/ FindConnectionDown(w) \/ Respond(w)

LEMMA QuietChangesNothing ==
  ASSUME NEW w \in Worker, Quiet(w)
  PROVE  UNCHANGED <<tables, outcome, history>>
BY DEF Quiet, ReceiveCreate, ReceiveEdit, ReceiveDelete, ReceiveRegister, ReceiveUnregister, Receive,
   ReturnId, SelectOrganiser, SelectName, SelectIsPublic, RefuseInvitation, SelectFollowers,
   SelectAttendees, SelectPublicity, SelectInvitation, SelectOwner, SelectPrivilege,
   FindConnectionDown, Respond

\* Every step is one of these.
LEMMA Steps ==
  ASSUME [Next]_vars
  PROVE  \/ \E w \in Worker :
              \/ Quiet(w) \/ InsertEvent(w) \/ UpdateEvent(w) \/ InsertInvitation(w)
              \/ DeleteInvitation(w) \/ Announce(w) \/ SelectInvitations(w)
              \/ NotifyFollower(w) \/ NotifyAttendee(w)
              \/ InsertAttendance(w) \/ DeleteAttendance(w) \/ DeleteEvent(w)
              \/ LoseConnection(w) \/ FailStatement(w)
         \/ \E u \in Guest, followed \in {Organiser[e] : e \in Event} : Follow(u, followed)
         \/ UNCHANGED vars
BY DEF Next, Handle, Quiet

LEMMA QuietFlow ==
  ASSUME Threads, NEW w \in Worker, Quiet(w)
  PROVE  Others(w) /\ (Ends(w) \/ Moves(w) \/ Begins(w))
BY ReceivesFlow, HandleFlow DEF Quiet, Handle
-----------------------------------------------------------------------------
(***************************************************************************)
(* Rows and lists: their types, which rows a list can name, and who was    *)
(* entitled to be on it.                                                   *)
(***************************************************************************)
TablesOK ==
  /\ row \in [Event -> {"none", "draft", "published", "deleted"}]
  /\ public \subseteq Event
  /\ invited \subseteq Event \X User
  /\ attending \subseteq Event \X User
  /\ follows \subseteq User \X User
  /\ entitled \subseteq Event \X User

Telling ==
  /\ news \subseteq [type : {"NewEvent", "EventChanged", "EventDeleted"}, event : Event, user : User]
  /\ mailed \subseteq Event \X User
  /\ faults \in 0..MaxFaults
  /\ repeated \subseteq Event \X User
  /\ promised \subseteq Event \X User
  /\ cut \subseteq Event

LEMMA TypeParts == TypeOK <=>
  /\ TablesOK /\ Telling
  /\ pc \in [Worker -> Place]
  /\ job \in [Worker -> Job]
  /\ attempt \in [Worker -> {1, 2}]
  /\ owed \in [Worker -> SUBSET User]
BY DEF TypeOK, TablesOK, Telling, Place

\* Those entitled are all users for a public event, and the invited.
Entitlements ==
  /\ invited \subseteq entitled
  /\ \A e \in public, u \in User : <<e, u>> \in entitled
  /\ attending \subseteq entitled
  /\ \A w \in Worker : pc[w] = "insert_attendance" => <<job[w].event, job[w].user>> \in entitled

Lists == TablesOK /\ ListsBelong /\ Entitlements

LEMMA PairsType ==
  ASSUME NEW e \in Event, NEW users \in SUBSET User
  PROVE  PairsOf(e, users) \subseteq Event \X User
BY DEF PairsOf

\* Steps that leave the tables alone keep Lists if their worker does not come
\* to the INSERT of an attendance.
LEMMA ListsQuiet ==
  ASSUME Lists, UNCHANGED <<tables, entitled>>,
         \A w \in Worker : pc'[w] = "insert_attendance" =>
            <<job'[w].event, job'[w].user>> \in entitled
  PROVE  Lists'
BY DEF Lists, TablesOK, ListsBelong, Entitlements, tables, Here

\* Where a worker can go without an entitlement.
LEMMA Elsewhere ==
  ASSUME Threads, Entitlements, NEW w \in Worker, Others(w), Ends(w) \/ Moves(w) \/ Begins(w),
         pc[w] \notin {"select_publicity", "select_invitation"}
  PROVE  \A x \in Worker : pc'[x] = "insert_attendance" => <<job'[x].event, job'[x].user>> \in entitled
<1>1. TAKE x \in Worker
<1>2. CASE x = w
  BY <1>2 DEF Ends, Moves, Begins, Leads, Firsts
<1>3. CASE x # w
  BY <1>3 DEF Entitlements, Others
<1>4. QED
  BY <1>2, <1>3

LEMMA QuietLists ==
  ASSUME Threads, Lists, NEW w \in Worker, Quiet(w)
  PROVE  Lists'
<1>1. UNCHANGED <<tables, entitled>>
  BY QuietChangesNothing DEF history
<1>2. Others(w) /\ (Ends(w) \/ Moves(w) \/ Begins(w))
  BY QuietFlow
<1>3. CASE pc[w] \notin {"select_publicity", "select_invitation"}
  BY <1>1, <1>2, <1>3, Elsewhere, ListsQuiet DEF Lists
<1>4. CASE pc[w] \in {"select_publicity", "select_invitation"}
  <2>1. CASE SelectPublicity(w)
    <3>1. job[w].user \in User /\ pc[w] = "select_publicity"
      BY <2>1 DEF Threads, Fits, SelectPublicity
    <3>2. pc'[w] = "insert_attendance" => job'[w] = job[w] /\ job[w].event \in public
      BY <2>1, FinishEnds, GoToFlow DEF SelectPublicity, Ends
    <3>3. \A x \in Worker : pc'[x] = "insert_attendance" => <<job'[x].event, job'[x].user>> \in entitled
      BY <1>2, <3>1, <3>2 DEF Lists, Entitlements, Others
    <3>4. QED
      BY <1>1, <3>3, ListsQuiet
  <2>2. CASE SelectInvitation(w)
    <3>1. pc'[w] = "insert_attendance" => job'[w] = job[w] /\ <<job[w].event, job[w].user>> \in invited
      BY <2>2, FinishEnds, GoToFlow DEF SelectInvitation, Ends
    <3>2. \A x \in Worker : pc'[x] = "insert_attendance" => <<job'[x].event, job'[x].user>> \in entitled
      BY <1>2, <3>1 DEF Lists, Entitlements, Others
    <3>3. QED
      BY <1>1, <3>2, ListsQuiet
  <2>3. QED
    BY <1>4, <2>1, <2>2 DEF Quiet, ReceiveCreate, ReceiveEdit, ReceiveDelete, ReceiveRegister,
       ReceiveUnregister, Receive, ReturnId, SelectOrganiser, SelectName, SelectIsPublic,
       RefuseInvitation, SelectFollowers, SelectAttendees, SelectOwner, SelectPrivilege,
       FindConnectionDown, Respond
<1>5. QED
  BY <1>3, <1>4

\* Steps by which the tables change.
LEMMA ListsMove ==
  ASSUME Threads, Lists, NEW w \in Worker, Others(w), Ends(w) \/ Moves(w) \/ Begins(w),
         pc[w] \notin {"select_publicity", "select_invitation"}, TablesOK', ListsBelong',
         entitled \subseteq entitled', invited' \subseteq entitled', attending' \subseteq entitled',
         \A e \in public', u \in User : <<e, u>> \in entitled'
  PROVE  Lists'
<1>1. \A x \in Worker : pc'[x] = "insert_attendance" => <<job'[x].event, job'[x].user>> \in entitled'
  BY Elsewhere DEF Lists
<1>2. QED
  BY <1>1 DEF Lists, Entitlements

LEMMA HandleLists ==
  ASSUME Threads, Lists, NEW w \in Worker,
         \/ InsertEvent(w) \/ UpdateEvent(w) \/ InsertInvitation(w) \/ DeleteInvitation(w)
         \/ Announce(w) \/ SelectInvitations(w) \/ NotifyFollower(w) \/ NotifyAttendee(w)
         \/ InsertAttendance(w) \/ DeleteAttendance(w) \/ DeleteEvent(w)
  PROVE  Lists'
<1>1. Others(w) /\ (Ends(w) \/ Moves(w) \/ Begins(w))
  BY HandleFlow DEF Handle
<1>2. job[w] \in Job /\ Fits(pc[w], job[w])
  BY DEF Threads
<1>3. /\ pc[w] \notin {"select_publicity", "select_invitation"}
      /\ pc[w] \notin {"idle", "insert_event"} => job[w].event \in Event
      /\ job[w].todo \subseteq User /\ job[w].form.added \subseteq User
      /\ pc[w] # "idle" => job[w].user \in User
  BY <1>2 DEF InsertEvent, UpdateEvent, InsertInvitation, DeleteInvitation, Announce, SelectInvitations,
     NotifyFollower, NotifyAttendee, InsertAttendance, DeleteAttendance, DeleteEvent, Fits, Job, Form
<1> USE DEF Lists, TablesOK, ListsBelong, Entitlements, Here
<1>4. CASE InsertEvent(w)
  <2>1. CASE UNCHANGED <<tables, entitled>>
    BY <1>1, <1>3, <2>1, ListsMove DEF tables
  <2>2. CASE ~UNCHANGED <<tables, entitled>>
    <3>1. PICK e \in Event :
            /\ row[e] = "none"
            /\ row' = [row EXCEPT ![e] = IF job[w].form.publish THEN "published" ELSE "draft"]
            /\ public' = IF job[w].form.public = "public" THEN public \cup {e} ELSE public
            /\ entitled' = IF job[w].form.public = "public"
                           THEN entitled \cup PairsOf(e, User) ELSE entitled
            /\ UNCHANGED <<invited, attending, follows>>
      BY <1>4, <2>2 DEF InsertEvent, tables
    <3>2. PairsOf(e, User) \subseteq Event \X User /\ \A u \in User : <<e, u>> \in PairsOf(e, User)
      BY DEF PairsOf
    <3>3. TablesOK' /\ entitled \subseteq entitled'
      BY <3>1, <3>2
    <3>4. ListsBelong'
      BY <3>1
    <3>5. \A f \in public', u \in User : <<f, u>> \in entitled'
      BY <3>1, <3>2
    <3>6. QED
      BY <1>1, <1>3, <3>1, <3>3, <3>4, <3>5, ListsMove
  <2>3. QED
    BY <2>1, <2>2
<1>5. CASE UpdateEvent(w)
  <2>1. CASE UNCHANGED <<tables, entitled>>
    BY <1>1, <1>3, <2>1, ListsMove DEF tables
  <2>2. CASE ~UNCHANGED <<tables, entitled>>
    <3> DEFINE e == job[w].event
    <3>1. /\ Here(e) /\ e \in Event
          /\ row' = IF job[w].form.publish THEN [row EXCEPT ![e] = "published"] ELSE row
          /\ public' \subseteq public \cup {e}
          /\ entitled' = IF e \in public' THEN entitled \cup PairsOf(e, User) ELSE entitled
          /\ UNCHANGED <<invited, attending, follows>>
      BY <1>2, <1>3, <1>5, <2>2 DEF UpdateEvent, tables, Job, Form
    <3>2. PairsOf(e, User) \subseteq Event \X User /\ \A u \in User : <<e, u>> \in PairsOf(e, User)
      BY <3>1 DEF PairsOf
    <3> HIDE DEF e
    <3>3. TablesOK' /\ entitled \subseteq entitled'
      BY <3>1, <3>2
    <3>4. ListsBelong'
      BY <3>1
    <3>5. \A f \in public', u \in User : <<f, u>> \in entitled'
      BY <3>1, <3>2
    <3>6. QED
      BY <1>1, <1>3, <3>1, <3>3, <3>4, <3>5, ListsMove
  <2>3. QED
    BY <2>1, <2>2
<1>6. CASE InsertInvitation(w)
  <2>1. PICK u \in User :
          /\ Here(job[w].event) /\ job[w].event \in Event
          /\ invited' = invited \cup {<<job[w].event, u>>}
          /\ entitled' = entitled \cup {<<job[w].event, u>>}
          /\ UNCHANGED <<row, public, attending, follows>>
    BY <1>3, <1>6 DEF InsertInvitation
  <2>2. TablesOK' /\ ListsBelong' /\ entitled \subseteq entitled'
    BY <2>1
  <2>3. QED
    BY <1>1, <1>3, <2>1, <2>2, ListsMove
<1>7. CASE DeleteInvitation(w) \/ DeleteAttendance(w)
  <2>1. /\ invited' \subseteq invited /\ attending' \subseteq attending
        /\ UNCHANGED <<row, public, follows, entitled>>
    BY <1>7 DEF DeleteInvitation, DeleteAttendance, history
  <2>2. TablesOK' /\ ListsBelong'
    BY <2>1
  <2>3. QED
    BY <1>1, <1>3, <2>1, <2>2, ListsMove
<1>8. CASE Announce(w) \/ SelectInvitations(w) \/ NotifyFollower(w) \/ NotifyAttendee(w)
  <2>1. UNCHANGED <<tables, entitled>>
    BY <1>8 DEF Announce, SelectInvitations, NotifyFollower, NotifyAttendee
  <2>2. QED
    BY <1>1, <1>3, <2>1, ListsMove DEF tables
<1>9. CASE InsertAttendance(w)
  <2>1. CASE UNCHANGED <<tables, entitled>>
    BY <1>1, <1>3, <2>1, ListsMove DEF tables
  <2>2. CASE ~UNCHANGED <<tables, entitled>>
    <3> DEFINE pair == <<job[w].event, job[w].user>>
    <3>1. /\ Here(job[w].event) /\ pc[w] = "insert_attendance"
          /\ attending' = attending \cup {pair}
          /\ UNCHANGED <<row, public, invited, follows, entitled>>
      BY <1>9, <2>2 DEF InsertAttendance, tables, history
    <3>2. pair \in Event \X User /\ pair \in entitled
      BY <1>3, <3>1
    <3>3. TablesOK' /\ ListsBelong'
      BY <3>1, <3>2
    <3>4. QED
      BY <1>1, <1>3, <3>1, <3>2, <3>3, ListsMove
  <2>3. QED
    BY <2>1, <2>2
<1>10. CASE DeleteEvent(w)
  <2>1. CASE UNCHANGED <<tables, entitled>>
    BY <1>1, <1>3, <2>1, ListsMove DEF tables
  <2>2. CASE ~UNCHANGED <<tables, entitled>>
    <3> DEFINE e == job[w].event
    <3>1. /\ row' = [row EXCEPT ![e] = "deleted"]
          /\ public' = public \ {e}
          /\ invited' = {p \in invited : p[1] # e}
          /\ attending' = {p \in attending : p[1] # e}
          /\ UNCHANGED <<follows, entitled>>
      BY <1>10, <2>2 DEF DeleteEvent, tables, history
    <3>2. TablesOK' /\ ListsBelong'
      BY <3>1
    <3>3. QED
      BY <1>1, <1>3, <3>1, <3>2, ListsMove
  <2>3. QED
    BY <2>1, <2>2
<1>11. QED
  BY <1>4, <1>5, <1>6, <1>7, <1>8, <1>9, <1>10

LEMMA NextLists ==
  ASSUME Threads, Lists, [Next]_vars
  PROVE  Lists'
<1>1. ASSUME NEW w \in Worker, LoseConnection(w) \/ FailStatement(w)
      PROVE  Lists'
  <2>1. UNCHANGED <<tables, entitled>>
    BY <1>1 DEF LoseConnection, FailStatement, NoteFault
  <2>2. \A x \in Worker : pc'[x] = "insert_attendance" => <<job'[x].event, job'[x].user>> \in entitled
    <3>1. Others(w) /\ (Ends(w) \/ Begins(w) \/ pc'[w] \in {"insert_invitation", "announce"})
      BY <1>1, FaultFlow
    <3>2. QED
      BY <3>1 DEF Others, Ends, Begins, Firsts, Lists, Entitlements
  <2>3. QED
    BY <2>1, <2>2, ListsQuiet
<1>2. CASE UNCHANGED vars
  BY <1>2, ListsQuiet DEF vars, history, threads, Lists, Entitlements
<1>3. ASSUME NEW u \in Guest, NEW followed \in {Organiser[e] : e \in Event}, Follow(u, followed)
      PROVE  Lists'
  <2>1. u \in User /\ followed \in User
    BY EventsAssumptions
  <2>2. UNCHANGED <<row, public, invited, attending, entitled, pc, job>>
    BY <1>3 DEF Follow, threads, history
  <2>3. follows' \subseteq User \X User
    BY <1>3, <2>1 DEF Follow, Lists, TablesOK
  <2>4. QED
    BY <2>2, <2>3 DEF Lists, TablesOK, ListsBelong, Entitlements, Here
<1>4. QED
  BY <1>1, <1>2, <1>3, Steps, QuietLists, HandleLists

\* The types of what is told, and of the histories.
LEMMA NextTelling ==
  ASSUME Threads, TablesOK, Telling, [Next]_vars
  PROVE  Telling'
<1> USE DEF Telling
<1>1. ASSUME NEW w \in Worker
      PROVE  /\ pc[w] \notin {"idle", "insert_event"} => job[w].event \in Event
             /\ job[w].form.added \in SUBSET User /\ job[w].todo \in SUBSET User
  BY DEF Threads, Fits, Job, Form
<1>2. ASSUME NEW w \in Worker, Quiet(w)
      PROVE  Telling'
  BY <1>2, QuietChangesNothing DEF outcome, history
<1>3. ASSUME NEW w \in Worker, InsertEvent(w)
      PROVE  Telling'
  <2>1. \A e \in Event : PairsOf(e, job[w].form.added) \subseteq Event \X User
    BY <1>1, PairsType
  <2>2. promised' \subseteq Event \X User
    BY <1>3, <2>1 DEF InsertEvent
  <2>3. QED
    BY <1>3, <2>2 DEF InsertEvent, outcome
<1>4. ASSUME NEW w \in Worker, UpdateEvent(w)
      PROVE  Telling'
  <2> DEFINE guests == (ListOf(invited, job[w].event) \cup job[w].form.added) \ job[w].form.removed
  <2>1. guests \in SUBSET User /\ job[w].event \in Event
    BY <1>1, <1>4 DEF UpdateEvent, ListOf
  <2>2. promised' = promised \cup PairsOf(job[w].event, guests) \/ promised' = promised
    BY <1>4 DEF UpdateEvent
  <2> HIDE DEF guests
  <2>3. promised' \subseteq Event \X User
    BY <2>1, <2>2, PairsType
  <2>4. QED
    BY <1>4, <2>3 DEF UpdateEvent, outcome
<1>5. ASSUME NEW w \in Worker,
             \/ InsertInvitation(w) \/ DeleteInvitation(w) \/ InsertAttendance(w)
             \/ DeleteAttendance(w) \/ DeleteEvent(w)
      PROVE  Telling'
  BY <1>5 DEF InsertInvitation, DeleteInvitation, InsertAttendance, DeleteAttendance, DeleteEvent,
     outcome, history
<1>6. ASSUME NEW w \in Worker, Announce(w) \/ SelectInvitations(w)
      PROVE  Telling'
  <2>1. job[w].event \in Event
    BY <1>1, <1>6 DEF Announce, SelectInvitations
  <2>2. PICK users \in SUBSET User : Mail(job[w].event, users)
    BY <1>1, <1>6 DEF Announce, SelectInvitations, ListOf
  <2>3. PairsOf(job[w].event, users) \subseteq Event \X User
    BY <2>1, PairsType
  <2>4. UNCHANGED <<faults, promised, cut>>
    BY <1>6 DEF Announce, SelectInvitations
  <2>5. QED
    BY <2>2, <2>3, <2>4 DEF Mail
<1>7. ASSUME NEW w \in Worker, NotifyFollower(w) \/ NotifyAttendee(w)
      PROVE  Telling'
  <2>1. job[w].event \in Event /\ UNCHANGED <<faults, promised, cut>>
    BY <1>1, <1>7 DEF NotifyFollower, NotifyAttendee
  <2>2. PICK type \in {"NewEvent", "EventChanged", "EventDeleted"}, u \in User : Tell(type, job[w].event, u)
    <3>1. CASE NotifyFollower(w)
      BY <1>1, <3>1 DEF NotifyFollower
    <3>2. CASE NotifyAttendee(w)
      <4> DEFINE type == IF job[w].op = "edit_event" THEN "EventChanged" ELSE "EventDeleted"
      <4>1. \E u \in User : Tell(type, job[w].event, u)
        BY <1>1, <3>2 DEF NotifyAttendee
      <4>2. type \in {"NewEvent", "EventChanged", "EventDeleted"}
        OBVIOUS
      <4> HIDE DEF type
      <4>3. QED
        BY <4>1, <4>2
    <3>3. QED
      BY <1>7, <3>1, <3>2
  <2>3. NewsOf(type, job[w].event, {u})
          \subseteq [type : {"NewEvent", "EventChanged", "EventDeleted"}, event : Event, user : User]
    BY <2>1 DEF NewsOf
  <2>4. news' = news \cup NewsOf(type, job[w].event, {u}) /\ mailed' = mailed
    BY <2>2 DEF Tell
  <2>5. repeated' = repeated \/ repeated' = repeated \cup {<<job[w].event, u>>}
    BY <2>2, Zenon DEF Tell
  <2>6. repeated' \subseteq Event \X User
    BY <2>1, <2>5
  <2>7. QED
    BY <2>1, <2>3, <2>4, <2>6
<1>8. ASSUME NEW w \in Worker, LoseConnection(w) \/ FailStatement(w)
      PROVE  Telling'
  <2>1. NoteFault(w)
    BY <1>8 DEF LoseConnection, FailStatement
  <2>2. faults' \in 0..MaxFaults
    BY <2>1, EventsAssumptions DEF NoteFault
  <2>3. cut' \subseteq Event
    BY <1>1, <2>1 DEF NoteFault, Announcing
  <2>4. QED
    BY <2>1, <2>2, <2>3 DEF NoteFault, outcome
<1>9. ASSUME UNCHANGED vars \/ \E u \in Guest, followed \in {Organiser[e] : e \in Event} : Follow(u, followed)
      PROVE  Telling'
  BY <1>9 DEF vars, Follow, outcome, history
<1>10. QED
  BY <1>2, <1>3, <1>4, <1>5, <1>6, <1>7, <1>8, <1>9, Steps
-----------------------------------------------------------------------------
(***************************************************************************)
(* The round of mails and notifications that announces an event: only one  *)
(* worker is ever in it, and it begins with nothing sent.                  *)
(***************************************************************************)
InRound(w) == Announcing(w) \/ pc[w] \in {"select_followers", "notify_follower"}

Announcements == {n \in news : n.type = "NewEvent"}

Rounds ==
  /\ \A w \in Worker : InRound(w) => row[job[w].event] \in {"published", "deleted"}
  /\ \A w, x \in Worker : w # x /\ InRound(w) /\ InRound(x) => job[w].event # job[x].event
  /\ \A p \in mailed : row[p[1]] \in {"published", "deleted"}
  /\ \A n \in Announcements : row[n.event] \in {"published", "deleted"}
  /\ \A w \in Worker : Announcing(w) => \A p \in mailed : p[1] # job[w].event
  /\ \A w \in Worker : Announcing(w) \/ pc[w] = "select_followers" =>
       \A n \in Announcements : n.event # job[w].event
  /\ \A w \in Worker : pc[w] = "notify_follower" =>
       \A n \in Announcements : n.event = job[w].event => n.user \notin job[w].todo
  /\ ToldOnce

\* A worker that did not just write the row is in a round only if it was.
Onward(w) ==
  /\ InRound(w)' => InRound(w) /\ job'[w].event = job[w].event
  /\ Announcing(w)' => Announcing(w)
  /\ pc'[w] = "select_followers" => Announcing(w) \/ pc[w] = "select_followers"
  /\ pc'[w] = "notify_follower" =>
       \/ pc[w] = "select_followers"
       \/ pc[w] = "notify_follower" /\ job'[w].todo \subseteq job[w].todo

LEMMA FlowOnward ==
  ASSUME Threads, NEW w \in Worker, Ends(w) \/ Moves(w) \/ Begins(w),
         pc[w] \notin {"insert_event", "update_event", "notify_follower"}
  PROVE  Onward(w)
<1>1. Fits(pc[w], job[w])
  BY DEF Threads
<1>2. CASE Ends(w) \/ Begins(w)
  BY <1>2 DEF Ends, Begins, Firsts, Onward, InRound, Announcing
<1>3. CASE Moves(w)
  BY <1>1, <1>3 DEF Moves, Leads, Same, Onward, InRound, Announcing, Fits, ByCreate, ByEdit
<1>4. QED
  BY <1>2, <1>3

\* What a step without mails and announcements needs to keep Rounds.
LEMMA RoundsMove ==
  ASSUME Threads, Telling, Rounds, NEW w \in Worker, Others(w), Onward(w),
         \A e \in Event : row[e] \in {"published", "deleted"} => row'[e] \in {"published", "deleted"},
         mailed' = mailed, repeated' = repeated, Announcements' \subseteq Announcements
  PROVE  Rounds'
<1>1. \A x \in Worker : InRound(x)' => InRound(x) /\ job'[x].event = job[x].event
  BY DEF Others, Onward, InRound, Announcing
<1>2. \A x \in Worker : Announcing(x)' => Announcing(x)
  BY DEF Others, Onward, Announcing
<1>3. \A x \in Worker : InRound(x) => job[x].event \in Event
  BY DEF Threads, Fits, InRound, Announcing
<1>4. \A p \in mailed : p[1] \in Event
  BY DEF Telling
<1>5. \A n \in Announcements : n.event \in Event
  BY DEF Telling, Announcements
<1>6. \A x \in Worker : InRound(x)' => row'[job'[x].event] \in {"published", "deleted"}
  BY <1>1, <1>3 DEF Rounds
<1>7. \A x, y \in Worker : x # y /\ InRound(x)' /\ InRound(y)' => job'[x].event # job'[y].event
  BY <1>1 DEF Rounds
<1>8. /\ \A p \in mailed' : row'[p[1]] \in {"published", "deleted"}
      /\ \A n \in Announcements' : row'[n.event] \in {"published", "deleted"}
  BY <1>4, <1>5 DEF Rounds
<1>9. \A x \in Worker : Announcing(x)' => \A p \in mailed' : p[1] # job'[x].event
  BY <1>1, <1>2 DEF Rounds, InRound
<1>10. ASSUME NEW x \in Worker, Announcing(x)' \/ pc'[x] = "select_followers"
       PROVE  \A n \in Announcements' : n.event # job'[x].event
  <2>1. Announcing(x) \/ pc[x] = "select_followers"
    BY <1>2, <1>10 DEF Others, Onward
  <2>2. job'[x].event = job[x].event
    BY <1>1, <1>10 DEF InRound
  <2>3. QED
    BY <2>1, <2>2 DEF Rounds
<1>11. ASSUME NEW x \in Worker, pc'[x] = "notify_follower"
       PROVE  \A n \in Announcements' : n.event = job'[x].event => n.user \notin job'[x].todo
  <2>1. job'[x].event = job[x].event
    BY <1>1, <1>11 DEF InRound
  <2>2. pc[x] = "select_followers" \/ (pc[x] = "notify_follower" /\ job'[x].todo \subseteq job[x].todo)
    BY <1>11 DEF Others, Onward
  <2>3. QED
    BY <2>1, <2>2 DEF Rounds
<1>12. QED
  BY <1>6, <1>7, <1>8, <1>9, <1>10, <1>11 DEF Rounds, ToldOnce

\* The steps that write the row: the worker of a publication finds the event
\* unpublished, and begins the round.
LEMMA RoundBegins ==
  ASSUME Threads, Telling, Rounds, NEW w \in Worker, Others(w),
         NEW e \in Event, job'[w].event = e,
         \A f \in Event : row[f] \in {"published", "deleted"} => row'[f] \in {"published", "deleted"},
         InRound(w)' => row[e] \notin {"published", "deleted"} /\ row'[e] \in {"published", "deleted"},
         pc'[w] \notin {"select_followers", "notify_follower"},
         UNCHANGED <<mailed, repeated, news>>
  PROVE  Rounds'
<1>1. \A x \in Worker \ {w} :
        /\ (InRound(x)' <=> InRound(x)) /\ (Announcing(x)' <=> Announcing(x))
        /\ pc'[x] = pc[x] /\ job'[x] = job[x]
  BY DEF Others, InRound, Announcing
<1>2. InRound(w)' <=> Announcing(w)'
  BY DEF InRound
<1>3. \A x \in Worker : InRound(x) => job[x].event \in Event
  BY DEF Threads, Fits, InRound, Announcing
<1>4. (\A p \in mailed : p[1] \in Event) /\ (\A n \in Announcements : n.event \in Event)
  BY DEF Telling, Announcements
<1>5. Announcements' = Announcements
  BY DEF Announcements
<1>6. \A x \in Worker : InRound(x)' => row'[job'[x].event] \in {"published", "deleted"}
  BY <1>1, <1>3 DEF Rounds
<1>7. \A x, y \in Worker : x # y /\ InRound(x)' /\ InRound(y)' => job'[x].event # job'[y].event
  <2>1. \A x \in Worker \ {w} : InRound(w)' /\ InRound(x) => job[x].event # e
    BY DEF Rounds
  <2>2. QED
    BY <1>1, <2>1 DEF Rounds
<1>8. /\ \A p \in mailed' : row'[p[1]] \in {"published", "deleted"}
      /\ \A n \in Announcements' : row'[n.event] \in {"published", "deleted"}
  BY <1>4, <1>5 DEF Rounds
<1>9. \A x \in Worker : Announcing(x)' => \A p \in mailed' : p[1] # job'[x].event
  BY <1>1, <1>2 DEF Rounds
<1>10. \A x \in Worker : Announcing(x)' \/ pc'[x] = "select_followers" =>
         \A n \in Announcements' : n.event # job'[x].event
  BY <1>1, <1>2, <1>5 DEF Rounds
<1>11. \A x \in Worker : pc'[x] = "notify_follower" =>
         \A n \in Announcements' : n.event = job'[x].event => n.user \notin job'[x].todo
  BY <1>1, <1>5 DEF Rounds
<1>12. QED
  BY <1>6, <1>7, <1>8, <1>9, <1>10, <1>11 DEF Rounds, ToldOnce

\* The mails go out, and the round is over or goes on with the followers.
LEMMA MailRounds ==
  ASSUME Threads, Telling, Rounds, NEW w \in Worker, Others(w), Announcing(w),
         NEW users \in SUBSET User, Mail(job[w].event, users), UNCHANGED row,
         ~Announcing(w)', pc'[w] # "notify_follower",
         InRound(w)' => job'[w].event = job[w].event
  PROVE  Rounds'
<1> DEFINE e == job[w].event
           pairs == PairsOf(e, users)
<1>1. \A x \in Worker \ {w} :
        /\ (InRound(x)' <=> InRound(x)) /\ (Announcing(x)' <=> Announcing(x))
        /\ pc'[x] = pc[x] /\ job'[x] = job[x]
  BY DEF Others, InRound, Announcing
<1>2. InRound(w) /\ (InRound(w)' => pc'[w] = "select_followers" /\ job'[w].event = e)
  BY DEF InRound
<1>3. \A p \in pairs : p[1] = e
  BY DEF PairsOf
<1>4. \A p \in mailed : p[1] # e
  BY DEF Rounds
<1>5. repeated' = {} /\ mailed' = mailed \cup pairs /\ Announcements' = Announcements
  BY <1>3, <1>4 DEF Mail, Rounds, ToldOnce, Announcements
<1> HIDE DEF e, pairs
<1>6. row[e] \in {"published", "deleted"}
  BY <1>2 DEF Rounds, e
<1>7. \A x \in Worker : InRound(x)' => row'[job'[x].event] \in {"published", "deleted"}
  BY <1>1, <1>2, <1>6 DEF Rounds
<1>8. \A x \in Worker \ {w} : InRound(x) => job[x].event # e
  BY <1>2 DEF Rounds, e
<1>9. \A x, y \in Worker : x # y /\ InRound(x)' /\ InRound(y)' => job'[x].event # job'[y].event
  BY <1>1, <1>2, <1>8 DEF Rounds
<1>10. /\ \A p \in mailed' : row'[p[1]] \in {"published", "deleted"}
       /\ \A n \in Announcements' : row'[n.event] \in {"published", "deleted"}
  BY <1>3, <1>5, <1>6 DEF Rounds
<1>11. \A x \in Worker : Announcing(x)' => \A p \in mailed' : p[1] # job'[x].event
  BY <1>1, <1>3, <1>5, <1>8 DEF Rounds, InRound
<1>12. \A x \in Worker : Announcing(x)' \/ pc'[x] = "select_followers" =>
         \A n \in Announcements' : n.event # job'[x].event
  BY <1>1, <1>2, <1>5 DEF Rounds, e, InRound
<1>13. \A x \in Worker : pc'[x] = "notify_follower" =>
         \A n \in Announcements' : n.event = job'[x].event => n.user \notin job'[x].todo
  BY <1>1, <1>5 DEF Rounds
<1>14. QED
  BY <1>5, <1>7, <1>9, <1>10, <1>11, <1>12, <1>13 DEF Rounds, ToldOnce

\* One follower is told, and is not among those left.
LEMMA TellRounds ==
  ASSUME Threads, Telling, Rounds, NEW w \in Worker, NotifyFollower(w)
  PROVE  Rounds'
<1> DEFINE e == job[w].event
<1>1. PICK u \in job[w].todo : Tell("NewEvent", e, u) /\ TellFollowers(w, job[w].todo \ {u})
  BY DEF NotifyFollower
<1>2. pc[w] = "notify_follower" /\ UNCHANGED row /\ job[w] \in Job /\ InRound(w)
  BY DEF NotifyFollower, tables, Threads, InRound
<1>3. Others(w) /\ (Moves(w) \/ Ends(w) \/ Begins(w))
  BY HandleFlow DEF Handle
<1>4. \A x \in Worker \ {w} :
        /\ (InRound(x)' <=> InRound(x)) /\ (Announcing(x)' <=> Announcing(x))
        /\ pc'[x] = pc[x] /\ job'[x] = job[x]
  BY <1>3 DEF Others, InRound, Announcing
<1>5. ~Announcing(w)' /\ pc'[w] # "select_followers"
  BY <1>2, <1>3 DEF Moves, Ends, Begins, Leads, Firsts, Announcing
<1>6. pc'[w] = "notify_follower" => job'[w].event = e /\ job'[w].todo = job[w].todo \ {u}
  <2> DEFINE left == job[w].todo \ {u}
             after == IF job[w].op = "edit_event" THEN "select_attendees" ELSE "respond"
  <2>1. left \in SUBSET User
    BY <1>2 DEF Job
  <2>2. Proceed(w, IF left = {} THEN after ELSE "notify_follower", [job[w] EXCEPT !.todo = left], owed)
    BY <1>1 DEF TellFollowers
  <2>3. job'[w] = [job[w] EXCEPT !.todo = left]
    BY <2>2, ProceedMoves
  <2>4. QED
    BY <1>2, <2>1, <2>3, WithTodo
<1>7. /\ mailed' = mailed
      /\ Announcements' = Announcements \cup NewsOf("NewEvent", e, {u})
      /\ \A n \in NewsOf("NewEvent", e, {u}) : n.event = e /\ n.user = u
  BY <1>1 DEF Tell, NewsOf, Announcements
<1>8. repeated' = {}
  <2>1. [type |-> "NewEvent", event |-> e, user |-> u] \notin news
    BY <1>2 DEF Rounds, Announcements
  <2>2. [type |-> "NewEvent", event |-> e, user |-> u] \in NewsOf("NewEvent", e, {u})
    BY DEF NewsOf
  <2>3. QED
    BY <1>1, <2>1, <2>2 DEF Tell, Rounds, ToldOnce
<1>9. row[e] \in {"published", "deleted"} /\ \A x \in Worker \ {w} : InRound(x) => job[x].event # e
  BY <1>2 DEF Rounds
<1> HIDE DEF e
<1>10. InRound(w)' => job'[w].event = e
  BY <1>5, <1>6 DEF InRound
<1>11. \A x \in Worker : InRound(x)' => row'[job'[x].event] \in {"published", "deleted"}
  BY <1>2, <1>4, <1>9, <1>10 DEF Rounds
<1>12. \A x, y \in Worker : x # y /\ InRound(x)' /\ InRound(y)' => job'[x].event # job'[y].event
  BY <1>4, <1>9, <1>10 DEF Rounds
<1>13. /\ \A p \in mailed' : row'[p[1]] \in {"published", "deleted"}
       /\ \A n \in Announcements' : row'[n.event] \in {"published", "deleted"}
  BY <1>2, <1>7, <1>9 DEF Rounds
<1>14. \A x \in Worker : Announcing(x)' => \A p \in mailed' : p[1] # job'[x].event
  BY <1>4, <1>5, <1>7 DEF Rounds
<1>15. \A x \in Worker : Announcing(x)' \/ pc'[x] = "select_followers" =>
         \A n \in Announcements' : n.event # job'[x].event
  BY <1>4, <1>5, <1>7, <1>9 DEF Rounds, InRound
<1>16. \A x \in Worker : pc'[x] = "notify_follower" =>
         \A n \in Announcements' : n.event = job'[x].event => n.user \notin job'[x].todo
  BY <1>2, <1>4, <1>6, <1>7, <1>9 DEF Rounds, InRound, e
<1>17. QED
  BY <1>8, <1>11, <1>12, <1>13, <1>14, <1>15, <1>16 DEF Rounds, ToldOnce

LEMMA EndsOnward ==
  ASSUME NEW w \in Worker, Ends(w) \/ Begins(w)
  PROVE  Onward(w)
BY DEF Ends, Begins, Firsts, Onward, InRound, Announcing

LEMMA FaultOnward ==
  ASSUME Threads, NEW w \in Worker, LoseConnection(w) \/ FailStatement(w)
  PROVE  Onward(w)
<1>1. CASE Ends(w) \/ Begins(w)
  BY <1>1, EndsOnward
<1>2. CASE Moves(w) /\ pc'[w] \in {"insert_invitation", "announce"}
  BY <1>2 DEF Moves, Leads, Same, Onward, InRound, Announcing
<1>3. QED
  BY <1>1, <1>2, FaultFlow

LEMMA HandleRounds ==
  ASSUME Threads, TablesOK, Telling, Rounds, NEW w \in Worker,
         \/ InsertEvent(w) \/ UpdateEvent(w) \/ InsertInvitation(w) \/ DeleteInvitation(w)
         \/ Announce(w) \/ SelectInvitations(w) \/ NotifyFollower(w) \/ NotifyAttendee(w)
         \/ InsertAttendance(w) \/ DeleteAttendance(w) \/ DeleteEvent(w)
  PROVE  Rounds'
<1>1. Others(w) /\ (Ends(w) \/ Moves(w) \/ Begins(w))
  BY HandleFlow DEF Handle
<1>2. job[w] \in Job /\ Fits(pc[w], job[w])
  BY DEF Threads
<1>3. CASE InsertEvent(w)
  <2>1. CASE Finish(w) /\ UNCHANGED row
    <3>1. Onward(w)
      BY <2>1, FinishEnds, EndsOnward
    <3>2. mailed' = mailed /\ repeated' = repeated /\ Announcements' = Announcements
      BY <1>3 DEF InsertEvent, outcome, Announcements
    <3>3. QED
      BY <1>1, <2>1, <3>1, <3>2, RoundsMove
  <2>2. ASSUME NEW e \in Event, row[e] = "none",
               row' = [row EXCEPT ![e] = IF job[w].form.publish THEN "published" ELSE "draft"],
               Proceed(w, "id_returned", [job[w] EXCEPT !.event = e], owed)
        PROVE  Rounds'
    <3>1. pc'[w] = "id_returned" /\ job'[w] = [job[w] EXCEPT !.event = e]
      BY <2>2, ProceedMoves
    <3>2. job'[w].event = e /\ job'[w].form = job[w].form
      BY <1>2, <3>1 DEF Job
    <3>3. InRound(w)' => job[w].form.publish
      BY <3>1, <3>2 DEF InRound, Announcing
    <3>4. UNCHANGED <<mailed, repeated, news>>
      BY <1>3 DEF InsertEvent, outcome
    <3>5. /\ \A f \in Event : row[f] \in {"published", "deleted"} => row'[f] \in {"published", "deleted"}
          /\ InRound(w)' => row[e] \notin {"published", "deleted"} /\ row'[e] \in {"published", "deleted"}
      BY <2>2, <3>3 DEF TablesOK
    <3>6. QED
      BY <1>1, <3>1, <3>2, <3>4, <3>5, RoundBegins
  <2>3. QED
    BY <1>3, <2>1, <2>2 DEF InsertEvent
<1>4. CASE UpdateEvent(w)
  <2> DEFINE e == job[w].event
  <2>1. CASE Finish(w) /\ UNCHANGED row
    <3>1. Onward(w)
      BY <2>1, FinishEnds, EndsOnward
    <3>2. mailed' = mailed /\ repeated' = repeated /\ Announcements' = Announcements
      BY <1>4 DEF UpdateEvent, outcome, Announcements
    <3>3. QED
      BY <1>1, <2>1, <3>1, <3>2, RoundsMove
  <2>2. CASE ~(Finish(w) /\ UNCHANGED row)
    <3>1. /\ pc[w] = "update_event" /\ e \in Event
          /\ job[w].form.publish => row[e] = "draft"
          /\ row' = IF job[w].form.publish THEN [row EXCEPT ![e] = "published"] ELSE row
          /\ GoTo(w, "select_name") \/ Named(w)
          /\ UNCHANGED <<mailed, repeated, news>>
      BY <1>2, <1>4, <2>2 DEF UpdateEvent, outcome, Fits
    <3>2. Moves(w)
      BY <3>1, GoToFlow, NamedMoves DEF Moves, Leads
    <3>3. /\ job'[w].event = e /\ job'[w].form = job[w].form
          /\ pc'[w] \notin {"select_followers", "notify_follower"}
      BY <3>1, <3>2 DEF Moves, Leads, Same
    <3>4. InRound(w)' => job[w].form.publish
      BY <3>3 DEF InRound, Announcing
    <3> HIDE DEF e
    <3>5. /\ \A f \in Event : row[f] \in {"published", "deleted"} => row'[f] \in {"published", "deleted"}
          /\ InRound(w)' => row[e] \notin {"published", "deleted"} /\ row'[e] \in {"published", "deleted"}
      BY <3>1, <3>4 DEF TablesOK
    <3>6. QED
      BY <1>1, <3>1, <3>3, <3>5, RoundBegins
  <2>3. QED
    BY <2>1, <2>2
<1>5. CASE \/ InsertInvitation(w) \/ DeleteInvitation(w)
           \/ InsertAttendance(w) \/ DeleteAttendance(w) \/ DeleteEvent(w)
  <2>1. pc[w] \notin {"insert_event", "update_event", "notify_follower"}
    BY <1>5 DEF InsertInvitation, DeleteInvitation, InsertAttendance, DeleteAttendance, DeleteEvent
  <2>2. mailed' = mailed /\ repeated' = repeated /\ Announcements' = Announcements
    BY <1>5 DEF InsertInvitation, DeleteInvitation, InsertAttendance, DeleteAttendance, DeleteEvent,
       outcome, history, Announcements
  <2>3. row' = row \/ row' = [row EXCEPT ![job[w].event] = "deleted"]
    BY <1>5 DEF InsertInvitation, DeleteInvitation, InsertAttendance, DeleteAttendance, DeleteEvent
  <2>4. \A f \in Event : row[f] \in {"published", "deleted"} => row'[f] \in {"published", "deleted"}
    BY <2>3 DEF TablesOK
  <2>5. QED
    BY <1>1, <2>1, <2>2, <2>4, FlowOnward, RoundsMove
<1>6. CASE Announce(w) \/ SelectInvitations(w)
  <2>1. pc[w] \in {"announce", "select_invitations"} /\ UNCHANGED row
    BY <1>6 DEF Announce, SelectInvitations, tables
  <2>2. PICK users \in SUBSET User : Mail(job[w].event, users)
    <3>1. job[w].form.added \in SUBSET User
      BY <1>2 DEF Job, Form
    <3>2. QED
      BY <1>6, <3>1 DEF Announce, SelectInvitations, ListOf
  <2>3. Announcing(w)
    BY <1>2, <2>1 DEF Announcing, Fits
  <2>4. ~Announcing(w)' /\ pc'[w] # "notify_follower" /\ (InRound(w)' => job'[w].event = job[w].event)
    BY <1>1, <1>6, <2>1, AnnounceLeaves DEF SelectInvitations, Ends, Moves, Begins, Leads, Same, Firsts, Announcing, InRound
  <2>5. QED
    BY <1>1, <2>1, <2>2, <2>3, <2>4, MailRounds
<1>7. CASE NotifyFollower(w)
  BY <1>7, TellRounds
<1>8. CASE NotifyAttendee(w)
  <2> DEFINE type == IF job[w].op = "edit_event" THEN "EventChanged" ELSE "EventDeleted"
  <2>1. PICK u \in job[w].todo : Tell(type, job[w].event, u)
    BY <1>8 DEF NotifyAttendee
  <2>2. type # "NewEvent"
    OBVIOUS
  <2> HIDE DEF type
  <2>3. mailed' = mailed /\ repeated' = repeated /\ Announcements' = Announcements
    BY <2>1, <2>2 DEF Tell, NewsOf, Announcements
  <2>4. pc[w] = "notify_attendee" /\ UNCHANGED row
    BY <1>8 DEF NotifyAttendee, tables
  <2>5. Onward(w)
    BY <1>1, <2>4, FlowOnward
  <2>6. QED
    BY <1>1, <2>3, <2>4, <2>5, RoundsMove
<1>9. QED
  BY <1>3, <1>4, <1>5, <1>6, <1>7, <1>8

LEMMA NextRounds ==
  ASSUME Threads, TablesOK, Telling, Rounds, [Next]_vars
  PROVE  Rounds'
<1>1. ASSUME NEW w \in Worker, Quiet(w)
      PROVE  Rounds'
  <2>1. UNCHANGED <<row, mailed, repeated>> /\ Announcements' = Announcements
    BY <1>1, QuietChangesNothing DEF tables, outcome, history, Announcements
  <2>2. Others(w) /\ (Ends(w) \/ Moves(w) \/ Begins(w))
    BY <1>1, QuietFlow
  <2>3. pc[w] \notin {"insert_event", "update_event", "notify_follower"}
    BY <1>1 DEF Quiet, ReceiveCreate, ReceiveEdit, ReceiveDelete, ReceiveRegister,
       ReceiveUnregister, Receive, ReturnId, SelectOrganiser, SelectName, SelectIsPublic,
       RefuseInvitation, SelectFollowers, SelectAttendees, SelectPublicity, SelectInvitation,
       SelectOwner, SelectPrivilege, FindConnectionDown, Respond
  <2>4. QED
    BY <2>1, <2>2, <2>3, FlowOnward, RoundsMove
<1>2. ASSUME NEW w \in Worker, LoseConnection(w) \/ FailStatement(w)
      PROVE  Rounds'
  <2>1. UNCHANGED <<row, mailed, repeated>> /\ Announcements' = Announcements
    BY <1>2 DEF LoseConnection, FailStatement, NoteFault, tables, outcome, Announcements
  <2>2. QED
    BY <1>2, <2>1, FaultFlow, FaultOnward, RoundsMove
<1>3. ASSUME UNCHANGED vars \/ \E u \in Guest, followed \in {Organiser[e] : e \in Event} : Follow(u, followed)
      PROVE  Rounds'
  <2>1. UNCHANGED <<row, mailed, news, repeated, pc, job>>
    BY <1>3 DEF vars, Follow, tables, outcome, threads, history
  <2>2. QED
    BY <2>1 DEF Rounds, InRound, Announcing, Announcements, ToldOnce
<1>4. QED
  BY <1>1, <1>2, <1>3, HandleRounds, Steps
-----------------------------------------------------------------------------
(***************************************************************************)
(* Promises: the worker of a publication has on its list, until it mails,  *)
(* everybody who was promised a mail.                                      *)
(***************************************************************************)
Listed(w) ==
  IF job[w].op = "create_event"
  THEN job[w].form.added
  ELSE (ListOf(invited, job[w].event) \cup job[w].form.added) \ job[w].form.removed

Promises ==
  /\ \A p \in promised : row[p[1]] \in {"published", "deleted"}
  /\ \A w \in Worker : Announcing(w) =>
       \A p \in promised : p[1] = job[w].event => p[2] \in Listed(w) \/ row[p[1]] = "deleted"
  /\ PromisesKept

\* A worker that announces goes on announcing, unless its event is gone.
LEMMA AnnouncingGoesOn ==
  ASSUME Threads, NEW w \in Worker, Announcing(w),
         \/ ReturnId(w) \/ RefuseInvitation(w) \/ InsertInvitation(w)
         \/ SelectName(w) \/ SelectIsPublic(w)
  PROVE  Announcing(w)' \/ ~Here(job[w].event)
<1>1. job[w] \in Job /\ Fits(pc[w], job[w]) /\ job[w].form.publish
  BY DEF Threads, Announcing
<1>2. job[w].todo \in SUBSET User /\ job[w].form.added \in SUBSET User
  BY <1>1 DEF Job, Form
<1>3. ASSUME NEW r \in Job, NEW left \in SUBSET User, Add(w, r, left), job[w].op = "create_event",
             r.op = job[w].op, r.form = job[w].form
      PROVE  Announcing(w)'
  BY <1>1, <1>3, AddMoves DEF Announcing
<1>4. CASE ReturnId(w)
  <2>1. job[w].op = "create_event"
    BY <1>1, <1>4 DEF ReturnId, Fits, ByCreate
  <2>2. QED
    BY <1>1, <1>2, <1>3, <1>4, <2>1 DEF ReturnId
<1>5. CASE RefuseInvitation(w) \/ InsertInvitation(w)
  <2>1. pc[w] = "insert_invitation"
    BY <1>5 DEF RefuseInvitation, InsertInvitation
  <2>2. job[w].op = "create_event"
    BY <1>1, <2>1 DEF Fits
  <2>3. PICK u : AddNext(w, u)
    BY <1>5, <2>2 DEF InsertInvitation, RefuseInvitation
  <2>4. QED
    BY <1>1, <1>3, <2>2, <2>3, AddNextAdds
<1>6. CASE SelectName(w) /\ Here(job[w].event)
  <2>1. pc[w] = "select_name" /\ Named(w)
    BY <1>6 DEF SelectName
  <2>2. Moves(w)
    BY <2>1, NamedMoves
  <2>3. QED
    BY <1>1, <2>1, <2>2 DEF Moves, Leads, Same, Announcing
<1>7. CASE SelectIsPublic(w) /\ Here(job[w].event)
  <2> DEFINE open == job[w].event \in public
             r == [job[w] EXCEPT !.open = open]
  <2>1. pc[w] = "select_is_public" /\ Known(w, r)
    BY <1>7 DEF SelectIsPublic
  <2>2. job[w].op = "edit_event"
    BY <1>1, <2>1 DEF Fits, ByEdit
  <2>3. open \in BOOLEAN
    OBVIOUS
  <2> HIDE DEF open
  <2>4. r \in Job /\ r.op = job[w].op /\ r.form = job[w].form
    BY <1>1, <2>3, WithOpen
  <2> HIDE DEF r
  <2>5. QED
    BY <1>1, <2>1, <2>2, <2>4, KnownMoves DEF Announcing
<1>8. QED
  BY <1>4, <1>5, <1>6, <1>7

\* What a step that publishes nothing needs to keep Promises.
LEMMA PromisesMove ==
  ASSUME Threads, Telling, Promises, NEW w \in Worker, Others(w),
         promised' \subseteq promised, mailed \subseteq mailed', cut \subseteq cut',
         \A e \in Event : row[e] \in {"published", "deleted"} => row'[e] \in {row[e], "deleted"},
         \A p \in promised' : p \in invited => p \in invited' \/ row'[p[1]] = "deleted",
         Announcing(w)' => Announcing(w) /\ Same(w),
         Announcing(w) => \/ Announcing(w)' \/ row'[job[w].event] = "deleted"
                          \/ job[w].event \in cut'
                          \/ \A p \in promised' : p[1] = job[w].event => p \in mailed'
  PROVE  Promises'
<1>1. \A x \in Worker : Announcing(x)' =>
        /\ Announcing(x) /\ job'[x].op = job[x].op
        /\ job'[x].event = job[x].event /\ job'[x].form = job[x].form
  BY DEF Others, Announcing, Same
<1>2. \A x \in Worker \ {w} : Announcing(x) => Announcing(x)' /\ job'[x].event = job[x].event
  BY DEF Others, Announcing
<1>3. \A p \in promised : p = <<p[1], p[2]>> /\ p[1] \in Event /\ p[2] \in User
  BY DEF Telling
<1>4. \A p \in promised' : row'[p[1]] \in {"published", "deleted"}
  BY <1>3 DEF Promises
<1>5. ASSUME NEW x \in Worker, Announcing(x)', NEW p \in promised', p[1] = job'[x].event
      PROVE  p[2] \in Listed(x)' \/ row'[p[1]] = "deleted"
  <2>1. p[2] \in Listed(x) \/ row[p[1]] = "deleted"
    BY <1>1, <1>5 DEF Promises
  <2>2. CASE row[p[1]] = "deleted"
    BY <1>3, <2>2
  <2>3. CASE p[2] \in Listed(x)
    <3>1. p \in invited \/ ~(p[2] \in ListOf(invited, job[x].event))
      BY <1>1, <1>3, <1>5 DEF ListOf
    <3>2. p \in invited' => p[2] \in ListOf(invited', job'[x].event)
      BY <1>3, <1>5 DEF ListOf
    <3>3. QED
      BY <1>1, <1>5, <2>3, <3>1, <3>2 DEF Listed
  <2>4. QED
    BY <2>1, <2>2, <2>3
<1>6. ASSUME NEW p \in promised'
      PROVE  \/ p \in mailed' \/ p[1] \in cut' \/ row'[p[1]] = "deleted"
             \/ \E x \in Worker : Announcing(x)' /\ job'[x].event = p[1]
  <2>1. CASE p \in mailed \/ p[1] \in cut \/ row[p[1]] = "deleted"
    BY <1>3, <2>1
  <2>2. ASSUME NEW x \in Worker, Announcing(x), job[x].event = p[1]
        PROVE  \/ p \in mailed' \/ p[1] \in cut' \/ row'[p[1]] = "deleted"
               \/ \E y \in Worker : Announcing(y)' /\ job'[y].event = p[1]
    BY <1>1, <1>2, <2>2
  <2>3. QED
    BY <2>1, <2>2 DEF Promises, PromisesKept
<1>7. QED
  BY <1>4, <1>5, <1>6 DEF Promises, PromisesKept

\* A publication promises mails to everybody on the list of its worker.
LEMMA PromisesBegin ==
  ASSUME Threads, Telling, Rounds, Promises, NEW w \in Worker, Others(w), ~Announcing(w),
         NEW e \in Event, job'[w].event = e, NEW f,
         row' = [row EXCEPT ![e] = f], row \in [Event -> {"none", "draft", "published", "deleted"}],
         NEW users \in SUBSET User, UNCHANGED <<invited, mailed, cut>>,
         \/ /\ promised' = promised \cup PairsOf(e, users)
            /\ row[e] \notin {"published", "deleted"}
            /\ f = "published"
            /\ Announcing(w)'
            /\ Listed(w)' = users
         \/ /\ promised' = promised
            /\ row[e] \in {"published", "deleted"} => f = row[e]
            /\ ~Announcing(w)'
  PROVE  Promises'
<1>1. \A x \in Worker \ {w} : (Announcing(x)' <=> Announcing(x)) /\ job'[x] = job[x]
  BY DEF Others, Announcing
<1>2. \A p \in promised : p[1] \in Event
  BY DEF Telling
<1>3. \A x \in Worker \ {w} : Listed(x)' = Listed(x)
  BY <1>1 DEF Listed
<1>4. \A g \in Event : row[g] \in {"published", "deleted"} => row'[g] = row[g]
  OBVIOUS
<1>5. CASE promised' = promised /\ ~Announcing(w)'
  <2>1. \A p \in promised' : row'[p[1]] \in {"published", "deleted"}
    BY <1>2, <1>4, <1>5 DEF Promises
  <2>2. \A x \in Worker : Announcing(x)' =>
          \A p \in promised' : p[1] = job'[x].event => p[2] \in Listed(x)' \/ row'[p[1]] = "deleted"
    BY <1>1, <1>2, <1>3, <1>4, <1>5 DEF Promises
  <2>3. PromisesKept'
    BY <1>1, <1>2, <1>4, <1>5 DEF Promises, PromisesKept
  <2>4. QED
    BY <2>1, <2>2, <2>3 DEF Promises
<1>6. CASE /\ promised' = promised \cup PairsOf(e, users)
           /\ row[e] \notin {"published", "deleted"}
           /\ f = "published"
           /\ Announcing(w)'
           /\ Listed(w)' = users
  <2>1. \A p \in PairsOf(e, users) : p[1] = e /\ p[2] \in users
    BY DEF PairsOf
  <2>2. row'[e] = "published" /\ \A p \in promised : p[1] # e
    BY <1>6 DEF Promises
  <2>3. \A p \in promised' : row'[p[1]] \in {"published", "deleted"}
    BY <1>2, <1>4, <1>6, <2>1, <2>2 DEF Promises
  <2>4. \A x \in Worker \ {w} : Announcing(x) => job[x].event # e
    BY <1>6 DEF Rounds, InRound
  <2>5. ASSUME NEW x \in Worker, Announcing(x)', NEW p \in promised', p[1] = job'[x].event
        PROVE  p[2] \in Listed(x)' \/ row'[p[1]] = "deleted"
    <3>1. CASE x = w
      BY <1>6, <2>1, <2>2, <2>5, <3>1
    <3>2. CASE x # w
      <4>1. p \in promised
        BY <1>1, <1>6, <2>1, <2>4, <2>5, <3>2
      <4>2. QED
        BY <1>1, <1>2, <1>3, <1>4, <2>5, <3>2, <4>1 DEF Promises
    <3>3. QED
      BY <3>1, <3>2
  <2>6. PromisesKept'
    <3>1. SUFFICES ASSUME NEW p \in promised'
                   PROVE  \/ p \in mailed' \/ p[1] \in cut' \/ row'[p[1]] = "deleted"
                          \/ \E x \in Worker : Announcing(x)' /\ job'[x].event = p[1]
      BY DEF PromisesKept
    <3>2. CASE p \in promised
      BY <1>1, <1>2, <1>4, <3>2 DEF Promises, PromisesKept
    <3>3. CASE p \in PairsOf(e, users)
      BY <1>6, <2>1, <3>3
    <3>4. QED
      BY <1>6, <3>2, <3>3
  <2>7. QED
    BY <2>3, <2>5, <2>6 DEF Promises
<1>7. QED
  BY <1>5, <1>6

LEMMA FlowAnnouncing ==
  ASSUME Threads, NEW w \in Worker, Ends(w) \/ Moves(w) \/ Begins(w),
         pc[w] \notin {"insert_event", "update_event"}
  PROVE  Announcing(w)' => Announcing(w) /\ Same(w)
<1>1. Fits(pc[w], job[w])
  BY DEF Threads
<1>2. CASE Ends(w) \/ Begins(w)
  BY <1>2 DEF Ends, Begins, Firsts, Announcing
<1>3. CASE Moves(w)
  BY <1>1, <1>3 DEF Moves, Leads, Same, Announcing, Fits, ByCreate, ByEdit
<1>4. QED
  BY <1>2, <1>3

LEMMA QuietPromises ==
  ASSUME Threads, TablesOK, Telling, Rounds, Promises, NEW w \in Worker,
         Quiet(w) \/ InsertInvitation(w)
  PROVE  Promises'
<1>1. Others(w) /\ (Ends(w) \/ Moves(w) \/ Begins(w))
  BY QuietFlow, HandleFlow DEF Handle
<1>2. UNCHANGED <<row, mailed, promised, cut>> /\ invited \subseteq invited'
  BY QuietChangesNothing DEF tables, outcome, history, InsertInvitation
<1>3. pc[w] \notin {"insert_event", "update_event"}
  BY DEF Quiet, ReceiveCreate, ReceiveEdit, ReceiveDelete, ReceiveRegister,
     ReceiveUnregister, Receive, ReturnId, SelectOrganiser, SelectName, SelectIsPublic,
     RefuseInvitation, SelectFollowers, SelectAttendees, SelectPublicity, SelectInvitation,
     SelectOwner, SelectPrivilege, FindConnectionDown, Respond, InsertInvitation
<1>4. Announcing(w) =>
        \/ ReturnId(w) \/ RefuseInvitation(w) \/ InsertInvitation(w)
        \/ SelectName(w) \/ SelectIsPublic(w)
  BY DEF Announcing, Quiet, ReceiveCreate, ReceiveEdit, ReceiveDelete, ReceiveRegister,
     ReceiveUnregister, Receive, SelectOrganiser, SelectFollowers, SelectAttendees, SelectPublicity,
     SelectInvitation, SelectOwner, SelectPrivilege, FindConnectionDown, Respond
<1>5. Announcing(w) => Announcing(w)' \/ row'[job[w].event] = "deleted"
  BY <1>2, <1>4, AnnouncingGoesOn DEF Rounds, InRound, Here
<1>6. \A e \in Event : row[e] \in {"published", "deleted"} => row'[e] \in {row[e], "deleted"}
  BY <1>2
<1>7. QED
  BY <1>1, <1>2, <1>3, <1>5, <1>6, FlowAnnouncing, PromisesMove

\* Workers outside a publication.
LEMMA AsidePromises ==
  ASSUME Threads, TablesOK, Telling, Rounds, Promises, NEW w \in Worker,
         \/ DeleteInvitation(w) \/ NotifyFollower(w) \/ NotifyAttendee(w)
         \/ InsertAttendance(w) \/ DeleteAttendance(w) \/ DeleteEvent(w)
  PROVE  Promises'
<1>1. Others(w) /\ (Ends(w) \/ Moves(w) \/ Begins(w))
  BY HandleFlow DEF Handle
<1>2. pc[w] \in {"delete_invitation", "notify_follower", "notify_attendee", "insert_attendance",
                 "delete_attendance", "delete_event"}
  BY DEF DeleteInvitation, NotifyFollower, NotifyAttendee, InsertAttendance, DeleteAttendance, DeleteEvent
<1>3. ~Announcing(w)
  BY <1>2 DEF Announcing
<1>4. mailed' = mailed /\ cut' = cut /\ promised' \subseteq promised
  BY DEF DeleteInvitation, NotifyFollower, NotifyAttendee, InsertAttendance, DeleteAttendance,
     DeleteEvent, Tell, outcome, history
<1>5. row' = row \/ (DeleteEvent(w) /\ row' = [row EXCEPT ![job[w].event] = "deleted"])
  BY DEF DeleteInvitation, NotifyFollower, NotifyAttendee, InsertAttendance, DeleteAttendance,
     DeleteEvent, tables
<1>6. \A e \in Event : row[e] \in {"published", "deleted"} => row'[e] \in {row[e], "deleted"}
  BY <1>5 DEF TablesOK
<1>7. \A p \in promised' : p \in invited => p \in invited' \/ row'[p[1]] = "deleted"
  <2>1. CASE DeleteInvitation(w)
    <3>1. PICK u : /\ invited' = invited \ {<<job[w].event, u>>}
                   /\ promised' = promised \ {<<job[w].event, u>>}
      BY <2>1 DEF DeleteInvitation
    <3>2. QED
      BY <3>1
  <2>2. CASE DeleteEvent(w)
    <3>1. CASE invited' = invited
      BY <3>1
    <3>2. CASE invited' # invited
      <4>1. /\ invited' = {p \in invited : p[1] # job[w].event}
            /\ row' = [row EXCEPT ![job[w].event] = "deleted"]
        BY <2>2, <3>2 DEF DeleteEvent
      <4>2. \A p \in promised : p[1] \in Event
        BY DEF Telling
      <4>3. QED
        BY <1>4, <4>1, <4>2 DEF TablesOK
    <3>3. QED
      BY <3>1, <3>2
  <2>3. CASE NotifyFollower(w) \/ NotifyAttendee(w) \/ InsertAttendance(w) \/ DeleteAttendance(w)
    <3>1. invited' = invited
      BY <2>3 DEF NotifyFollower, NotifyAttendee, InsertAttendance, DeleteAttendance, tables
    <3>2. QED
      BY <3>1
  <2>4. QED
    BY <2>1, <2>2, <2>3
<1>8. QED
  BY <1>1, <1>2, <1>3, <1>4, <1>6, <1>7, FlowAnnouncing, PromisesMove

LEMMA MailPromises ==
  ASSUME Threads, TablesOK, Telling, Rounds, Promises, NEW w \in Worker,
         Announce(w) \/ SelectInvitations(w)
  PROVE  Promises'
<1> DEFINE e == job[w].event
<1>1. Others(w) /\ (Ends(w) \/ Moves(w) \/ Begins(w))
  BY HandleFlow DEF Handle
<1>2. Fits(pc[w], job[w]) /\ pc[w] \in {"announce", "select_invitations"}
  BY DEF Threads, Announce, SelectInvitations
<1>3. Announcing(w)
  BY <1>2 DEF Fits, Announcing
<1>4. UNCHANGED <<row, invited, promised, cut>>
  BY DEF Announce, SelectInvitations, tables
<1>5. Mail(e, Listed(w))
  BY <1>2 DEF Announce, SelectInvitations, Listed, Fits, ByCreate, ByEdit
<1>6. mailed' = mailed \cup PairsOf(e, Listed(w))
  BY <1>5 DEF Mail
<1>7. \A p \in promised : p = <<p[1], p[2]>>
  BY DEF Telling
<1>8. \A p \in promised : p[1] = e => p \in PairsOf(e, Listed(w)) \/ row[e] = "deleted"
  BY <1>3, <1>7 DEF Promises, PairsOf
<1>9. \A f \in Event : row[f] \in {"published", "deleted"} => row'[f] \in {row[f], "deleted"}
  BY <1>4
<1>10. QED
  BY <1>1, <1>2, <1>4, <1>6, <1>8, <1>9, FlowAnnouncing, PromisesMove

LEMMA WritePromises ==
  ASSUME Threads, TablesOK, Telling, Rounds, Promises, NEW w \in Worker,
         InsertEvent(w) \/ UpdateEvent(w)
  PROVE  Promises'
<1>1. Others(w)
  BY HandleFlow DEF Handle
<1>2. job[w] \in Job /\ Fits(pc[w], job[w]) /\ pc[w] \in {"insert_event", "update_event"}
  BY DEF Threads, InsertEvent, UpdateEvent
<1>3. ~Announcing(w)
  BY <1>2 DEF Announcing
<1>4. UNCHANGED <<invited, mailed, cut>>
  BY DEF InsertEvent, UpdateEvent, outcome
<1>5. CASE Finish(w) /\ UNCHANGED <<row, promised>>
  <2>1. ~Announcing(w)'
    BY <1>5, FinishEnds DEF Ends, Announcing
  <2>2. \A f \in Event : row[f] \in {"published", "deleted"} => row'[f] \in {row[f], "deleted"}
    BY <1>5
  <2>3. QED
    BY <1>1, <1>3, <1>4, <1>5, <2>1, <2>2, PromisesMove
<1>6. ASSUME NEW e \in Event, row[e] = "none", InsertEvent(w),
             row' = [row EXCEPT ![e] = IF job[w].form.publish THEN "published" ELSE "draft"],
             promised' = IF job[w].form.publish
                         THEN promised \cup PairsOf(e, job[w].form.added) ELSE promised,
             Proceed(w, "id_returned", [job[w] EXCEPT !.event = e], owed)
      PROVE  Promises'
  <2>1. pc'[w] = "id_returned" /\ job'[w] = [job[w] EXCEPT !.event = e]
    BY <1>6, ProceedMoves
  <2>2. job'[w].event = e /\ job'[w].form = job[w].form /\ job'[w].op = "create_event"
    BY <1>2, <1>6, <2>1 DEF Job, InsertEvent, Fits, ByCreate
  <2>3. (Announcing(w)' <=> job[w].form.publish) /\ Listed(w)' = job[w].form.added
    BY <2>1, <2>2 DEF Announcing, Listed
  <2>4. job[w].form.added \in SUBSET User
    BY <1>2 DEF Job, Form
  <2> DEFINE f == IF job[w].form.publish THEN "published" ELSE "draft"
  <2>5. row' = [row EXCEPT ![e] = f] /\ (job[w].form.publish => f = "published")
    BY <1>6
  <2> HIDE DEF f
  <2>6. QED
    BY <1>1, <1>3, <1>4, <1>6, <2>2, <2>3, <2>4, <2>5, PromisesBegin DEF TablesOK
<1>7. CASE UpdateEvent(w) /\ ~(Finish(w) /\ UNCHANGED <<row, promised>>)
  <2> DEFINE e == job[w].event
             guests == (ListOf(invited, e) \cup job[w].form.added) \ job[w].form.removed
  <2>1. /\ pc[w] = "update_event" /\ e \in Event /\ Here(e)
        /\ job[w].form.publish => row[e] = "draft"
        /\ row' = IF job[w].form.publish THEN [row EXCEPT ![e] = "published"] ELSE row
        /\ promised' = IF job[w].form.publish THEN promised \cup PairsOf(e, guests) ELSE promised
        /\ GoTo(w, "select_name") \/ Named(w)
    BY <1>2, <1>7 DEF UpdateEvent, Fits
  <2>2. Moves(w)
    BY <2>1, GoToFlow, NamedMoves DEF Moves, Leads
  <2>3. job'[w].event = e /\ job'[w].form = job[w].form /\ job'[w].op = job[w].op
    BY <2>1, <2>2 DEF Moves, Same
  <2>4. job[w].op = "edit_event"
    BY <1>2, <2>1 DEF Fits, ByEdit
  <2>5. Listed(w)' = guests
    BY <1>4, <2>3, <2>4 DEF Listed
  <2>6. Announcing(w)' <=> job[w].form.publish
    BY <2>1, <2>2, <2>3 DEF Moves, Leads, Announcing
  <2>7. guests \in SUBSET User
    BY <1>2 DEF Job, Form, ListOf
  <2> DEFINE f == IF job[w].form.publish THEN "published" ELSE row[e]
  <2>8. row' = [row EXCEPT ![e] = f]
    BY <2>1 DEF TablesOK
  <2>9. (job[w].form.publish => f = "published") /\ (~job[w].form.publish => f = row[e])
    OBVIOUS
  <2> HIDE DEF e, guests, f
  <2>10. QED
    BY <1>1, <1>3, <1>4, <2>1, <2>3, <2>5, <2>6, <2>7, <2>8, <2>9, PromisesBegin DEF TablesOK
<1>8. QED
  BY <1>5, <1>6, <1>7 DEF InsertEvent

LEMMA FaultPromises ==
  ASSUME Threads, TablesOK, Telling, Rounds, Promises, NEW w \in Worker,
         LoseConnection(w) \/ FailStatement(w)
  PROVE  Promises'
<1>1. Others(w) /\ UNCHANGED <<row, invited, mailed, promised>>
  BY FaultFlow DEF LoseConnection, FailStatement, NoteFault, tables, outcome
<1>2. cut \subseteq cut' /\ (Announcing(w) /\ ~Swallows(w) => job[w].event \in cut')
  BY DEF LoseConnection, FailStatement, NoteFault
<1>3. Announcing(w)' => Announcing(w) /\ Same(w)
  <2>1. CASE Ends(w) \/ Begins(w)
    BY <2>1 DEF Ends, Begins, Firsts, Announcing
  <2>2. CASE Moves(w) /\ pc'[w] \in {"insert_invitation", "announce"}
    BY <2>2 DEF Moves, Leads, Same, Announcing
  <2>3. QED
    BY <2>1, <2>2, FaultFlow
<1>4. ASSUME Announcing(w), Swallows(w)
      PROVE  Announcing(w)'
  <2>1. job[w] \in Job /\ job[w].form.publish /\ job[w].op = "create_event"
    BY <1>4 DEF Threads, Announcing, Swallows
  <2>2. CASE LoseConnection(w)
    <3>1. Proceed(w, "announce", [job[w] EXCEPT !.todo = {}, !.down = TRUE], owed)
      BY <1>4, <2>1, <2>2 DEF LoseConnection
    <3>2. pc'[w] = "announce" /\ job'[w] = [job[w] EXCEPT !.todo = {}, !.down = TRUE]
      BY <3>1, ProceedMoves
    <3>3. job'[w].form = job[w].form
      BY <2>1, <3>2 DEF Job
    <3>4. QED
      BY <2>1, <3>2, <3>3 DEF Announcing
  <2>3. CASE FailStatement(w)
    <3>1. PICK u : AddNext(w, u)
      BY <1>4, <2>3 DEF FailStatement
    <3>2. PICK r \in Job, left \in SUBSET User :
            /\ r.op = job[w].op /\ r.user = job[w].user
            /\ r.event = job[w].event /\ r.form = job[w].form
            /\ Add(w, r, left)
      BY <2>1, <3>1, AddNextAdds
    <3>3. QED
      BY <2>1, <3>2, AddMoves DEF Announcing
  <2>4. QED
    BY <2>2, <2>3
<1>5. \A f \in Event : row[f] \in {"published", "deleted"} => row'[f] \in {row[f], "deleted"}
  BY <1>1
<1>6. QED
  BY <1>1, <1>2, <1>3, <1>4, <1>5, PromisesMove

LEMMA NextPromises ==
  ASSUME Threads, TablesOK, Telling, Rounds, Promises, [Next]_vars
  PROVE  Promises'
<1>1. ASSUME UNCHANGED vars \/ \E u \in Guest, followed \in {Organiser[e] : e \in Event} : Follow(u, followed)
      PROVE  Promises'
  <2>1. UNCHANGED <<row, invited, mailed, promised, cut, pc, job>>
    BY <1>1 DEF vars, Follow, tables, outcome, threads, history
  <2>2. QED
    BY <2>1 DEF Promises, PromisesKept, Announcing, Listed
<1>2. QED
  BY <1>1, QuietPromises, AsidePromises, MailPromises, WritePromises, FaultPromises, Steps
-----------------------------------------------------------------------------
(***************************************************************************)
(* Debts: those whom an edit has still to tell attend the event, and once  *)
(* the attendees were asked for they are among those left in the loop.     *)
(***************************************************************************)
Debts == \A w \in Worker :
  /\ pc[w] = "idle" => owed[w] = {}
  /\ job[w].op = "edit_event" =>
       /\ pc[w] \notin {"notify_attendee", "respond"} => owed[w] \subseteq ListOf(attending, job[w].event)
       /\ pc[w] = "notify_attendee" => owed[w] \subseteq job[w].todo
       /\ pc[w] = "respond" => owed[w] = {}

\* A handler that goes on keeps its debts, one that ends or restarts has none.
Keeps(w) == owed' = [owed EXCEPT ![w] = {}] \/ (owed' = owed /\ pc'[w] \notin {"idle"} \cup Firsts)

LEMMA ProceedKeeps ==
  ASSUME Threads, NEW w \in Worker, NEW place, place \notin {"idle"} \cup Firsts, NEW r, Proceed(w, place, r, owed)
  PROVE  Keeps(w)
BY DEF Threads, Proceed, Keeps, Firsts

LEMMA AddKeeps ==
  ASSUME Threads, NEW w \in Worker, NEW r, NEW left, Add(w, r, left)
  PROVE  Keeps(w)
<1>1. Finish(w) => Keeps(w)
  BY DEF Finish, Keeps, Firsts
<1>2. ASSUME NEW rest, Remove(w, r, rest)
      PROVE  Keeps(w)
  <2> DEFINE place == IF rest = {} THEN "select_attendees" ELSE "delete_invitation"
  <2>1. place \notin {"idle"} \cup Firsts /\ Proceed(w, place, [r EXCEPT !.todo = rest], owed)
    BY <1>2 DEF Remove, Firsts
  <2> HIDE DEF place
  <2>2. QED
    BY <2>1, ProceedKeeps DEF Firsts
<1>3. QED
  BY <1>1, <1>2, ProceedKeeps DEF Add, Firsts

LEMMA AddNextKeeps ==
  ASSUME Threads, NEW w \in Worker, NEW u, AddNext(w, u)
  PROVE  Keeps(w)
<1>1. PICK r, left : Add(w, r, left)
  BY DEF AddNext
<1>2. QED
  BY <1>1, AddKeeps

LEMMA NamedKeeps ==
  ASSUME Threads, NEW w \in Worker
  PROVE  /\ \A r : Known(w, r) => Keeps(w)
         /\ Named(w) => Keeps(w)
<1>1. ASSUME NEW r, Known(w, r) PROVE Keeps(w)
  BY <1>1, ProceedKeeps, AddKeeps DEF Known, Firsts
<1>2. ASSUME Named(w) PROVE Keeps(w)
  BY <1>1, <1>2, ProceedKeeps DEF Named, GoTo, Firsts
<1>3. QED
  BY <1>1, <1>2 DEF Firsts

LEMMA HandleKeeps ==
  ASSUME Threads, NEW w \in Worker, Handle(w)
  PROVE  \/ Keeps(w)
         \/ SelectOrganiser(w) \/ SelectOwner(w) \/ NotifyAttendee(w)
         \/ DeleteAttendance(w) \/ DeleteEvent(w)
<1>1. Finish(w) => Keeps(w)
  BY DEF Finish, Keeps, Firsts
<1>2. ASSUME NEW place, place \notin {"idle"} \cup Firsts, GoTo(w, place)
      PROVE  Keeps(w)
  BY <1>2, ProceedKeeps DEF GoTo, Firsts
<1>3. CASE InsertEvent(w)
  BY <1>1, <1>3, ProceedKeeps DEF InsertEvent, Firsts
<1>4. CASE ReturnId(w) \/ InsertInvitation(w) \/ RefuseInvitation(w)
  BY <1>1, <1>4, AddKeeps, AddNextKeeps DEF ReturnId, InsertInvitation, RefuseInvitation, Firsts
<1>5. CASE Announce(w)
  BY <1>1, <1>2, <1>5 DEF Announce, Firsts
<1>6. CASE UpdateEvent(w) \/ SelectName(w) \/ SelectIsPublic(w)
  BY <1>1, <1>2, <1>6, NamedKeeps DEF UpdateEvent, SelectName, SelectIsPublic, Firsts
<1>7. CASE DeleteInvitation(w)
  <2>1. PICK u \in job[w].todo : Remove(w, job[w], job[w].todo \ {u})
    BY <1>7 DEF DeleteInvitation, Firsts
  <2> DEFINE left == job[w].todo \ {u}
             place == IF left = {} THEN "select_attendees" ELSE "delete_invitation"
  <2>2. place \notin {"idle"} \cup Firsts /\ Proceed(w, place, [job[w] EXCEPT !.todo = left], owed)
    BY <2>1 DEF Remove, Firsts
  <2> HIDE DEF place, left
  <2>3. QED
    BY <2>2, ProceedKeeps DEF Firsts
<1>8. CASE SelectInvitations(w)
  <2> DEFINE place == IF job[w].open THEN "select_followers" ELSE "select_attendees"
  <2>1. place \notin {"idle"} \cup Firsts /\ GoTo(w, place)
    BY <1>8 DEF SelectInvitations, Firsts
  <2> HIDE DEF place
  <2>2. QED
    BY <1>2, <2>1 DEF Firsts
<1>9. CASE SelectFollowers(w) \/ NotifyFollower(w)
  <2>1. PICK left : TellFollowers(w, left)
    BY <1>9 DEF SelectFollowers, NotifyFollower, Firsts
  <2> DEFINE place == IF left = {} THEN IF job[w].op = "edit_event" THEN "select_attendees" ELSE "respond"
                      ELSE "notify_follower"
  <2>2. place \notin {"idle"} \cup Firsts /\ Proceed(w, place, [job[w] EXCEPT !.todo = left], owed)
    BY <2>1 DEF TellFollowers, Firsts
  <2> HIDE DEF place
  <2>3. QED
    BY <2>2, ProceedKeeps DEF Firsts
<1>10. CASE SelectAttendees(w)
  <2> DEFINE left == ListOf(attending, job[w].event)
             place == IF left = {} THEN "respond" ELSE "notify_attendee"
  <2>1. place \notin {"idle"} \cup Firsts /\ Proceed(w, place, [job[w] EXCEPT !.todo = left], owed)
    BY <1>10 DEF SelectAttendees, TellAttendees, Firsts
  <2> HIDE DEF place, left
  <2>2. QED
    BY <2>1, ProceedKeeps DEF Firsts
<1>11. CASE SelectPublicity(w) \/ SelectInvitation(w) \/ InsertAttendance(w) \/ SelectPrivilege(w)
  BY <1>1, <1>2, <1>11 DEF SelectPublicity, SelectInvitation, InsertAttendance, SelectPrivilege, Firsts
<1>12. CASE FindConnectionDown(w) \/ Respond(w)
  BY <1>1, <1>12 DEF FindConnectionDown, Respond, Restart, Keeps, Firsts
<1>13. QED
  BY <1>3, <1>4, <1>5, <1>6, <1>7, <1>8, <1>9, <1>10, <1>11, <1>12 DEF Handle, Firsts

LEMMA FaultKeeps ==
  ASSUME Threads, NEW w \in Worker, LoseConnection(w) \/ FailStatement(w)
  PROVE  Keeps(w)
<1>1. Finish(w) \/ Restart(w) => Keeps(w)
  BY DEF Finish, Restart, Keeps, Firsts
<1>2. ASSUME NEW r, Proceed(w, "announce", r, owed)
      PROVE  Keeps(w)
  BY <1>2, ProceedKeeps DEF Firsts
<1>3. QED
  BY <1>1, <1>2, AddNextKeeps DEF LoseConnection, FailStatement, Firsts

\* What a step of a handler needs to keep Debts.
LEMMA DebtsMove ==
  ASSUME Threads, Threads', Debts, NEW w \in Worker, Others(w), Ends(w) \/ Moves(w) \/ Begins(w), Keeps(w),
         pc[w] \notin {"select_attendees", "notify_attendee"}, attending \subseteq attending'
  PROVE  Debts'
<1>1. ASSUME NEW x \in Worker \ {w}
      PROVE  pc'[x] = pc[x] /\ job'[x] = job[x] /\ owed'[x] = owed[x]
  BY DEF Threads, Others, Keeps
<1>2. \A e : ListOf(attending, e) \subseteq ListOf(attending', e)
  BY DEF ListOf
<1>3. owed'[w] = {} \/ (owed'[w] = owed[w] /\ Moves(w))
  BY DEF Threads, Keeps, Ends, Begins
<1>4. CASE owed'[w] = {}
  BY <1>1, <1>2, <1>4 DEF Debts
<1>5. CASE owed'[w] = owed[w] /\ Moves(w)
  <2>1. Fits(pc[w], job[w])
    BY DEF Threads
  <2>2. ASSUME job'[w].op = "edit_event"
        PROVE  pc'[w] \notin {"notify_attendee", "respond", "idle"} /\ job'[w].event = job[w].event
               /\ pc[w] \notin {"notify_attendee", "respond"} /\ job[w].op = "edit_event"
    BY <1>5, <2>1, <2>2 DEF Moves, Leads, Same, Fits, ByCreate, ByRegister
  <2>3. pc'[w] # "idle"
    BY <1>5 DEF Moves, Leads
  <2>4. QED
    BY <1>1, <1>2, <1>5, <2>2, <2>3 DEF Debts
<1>6. QED
  BY <1>3, <1>4, <1>5

\* The statements that work on debts: a handler takes on the attendees it
\* finds, tells them one by one, and nobody is owed who has left.
LEMMA SelectDebts ==
  ASSUME Threads, Debts, NEW w \in Worker, SelectOrganiser(w) \/ SelectOwner(w)
  PROVE  Debts'
<1>1. UNCHANGED attending /\ Others(w) /\ pc[w] \in {"select_organiser", "select_owner"}
  BY HandleFlow DEF Handle, SelectOrganiser, SelectOwner, tables
<1>2. CASE Finish(w)
  BY <1>1, <1>2, FinishEnds DEF Debts, Finish, Ends, Others, Threads, NoJob
<1>3. CASE ~Finish(w)
  <2>1. PICK place :
          /\ place \notin {"idle", "notify_attendee", "respond"}
          /\ Proceed(w, place, job[w], [owed EXCEPT ![w] = ListOf(attending, job[w].event)])
    BY <1>3 DEF SelectOrganiser, SelectOwner
  <2>2. /\ pc'[w] = place /\ job'[w] = job[w] /\ owed'[w] = ListOf(attending, job[w].event)
        /\ \A x \in Worker \ {w} : owed'[x] = owed[x]
    BY <2>1 DEF Threads, Proceed
  <2>3. QED
    BY <1>1, <2>1, <2>2 DEF Debts, Others
<1>4. QED
  BY <1>2, <1>3

LEMMA TellDebts ==
  ASSUME Threads, Debts, NEW w \in Worker, SelectAttendees(w) \/ NotifyAttendee(w)
  PROVE  Debts'
<1>1. /\ UNCHANGED attending /\ Others(w) /\ pc[w] \in {"select_attendees", "notify_attendee"}
      /\ job[w] \in Job
  BY HandleFlow DEF Handle, SelectAttendees, NotifyAttendee, tables, Threads
<1>2. PICK left \in SUBSET User, debts \in [Worker -> SUBSET User] :
        /\ TellAttendees(w, left, debts)
        /\ \A x \in Worker \ {w} : debts[x] = owed[x]
        /\ job[w].op = "edit_event" => debts[w] \subseteq left
  <2>1. CASE SelectAttendees(w)
    <3>1. /\ ListOf(attending, job[w].event) \in SUBSET User
          /\ TellAttendees(w, ListOf(attending, job[w].event), owed)
          /\ owed \in [Worker -> SUBSET User]
          /\ pc[w] = "select_attendees"
      BY <2>1 DEF SelectAttendees, ListOf, Threads
    <3>2. job[w].op = "edit_event" => owed[w] \subseteq ListOf(attending, job[w].event)
      BY <3>1 DEF Debts
    <3>3. QED
      BY <3>1, <3>2
  <2>2. CASE NotifyAttendee(w)
    <3>1. PICK u \in job[w].todo : TellAttendees(w, job[w].todo \ {u}, [owed EXCEPT ![w] = @ \ {u}])
      BY <2>2 DEF NotifyAttendee
    <3> DEFINE debts == [owed EXCEPT ![w] = @ \ {u}]
    <3>2. /\ debts \in [Worker -> SUBSET User] /\ debts[w] = owed[w] \ {u}
          /\ \A x \in Worker \ {w} : debts[x] = owed[x]
      BY DEF Threads
    <3>3. job[w].todo \ {u} \in SUBSET User
      BY <1>1 DEF Job
    <3>4. job[w].op = "edit_event" => owed[w] \subseteq job[w].todo
      BY <2>2 DEF NotifyAttendee, Debts
    <3> HIDE DEF debts
    <3>5. job[w].op = "edit_event" => debts[w] \subseteq job[w].todo \ {u}
      BY <3>2, <3>4
    <3>6. QED
      BY <3>1, <3>2, <3>3, <3>5 DEF debts
  <2>3. QED
    BY <2>1, <2>2
<1> DEFINE place == IF left = {} THEN "respond" ELSE "notify_attendee"
<1>3. Proceed(w, place, [job[w] EXCEPT !.todo = left], debts)
  BY <1>2 DEF TellAttendees
<1>4. pc'[w] = place /\ job'[w] = [job[w] EXCEPT !.todo = left] /\ owed' = debts
  BY <1>3, ProceedMoves DEF Proceed
<1>5. job'[w].op = job[w].op /\ job'[w].todo = left
  BY <1>1, <1>4, WithTodo
<1>6. QED
  BY <1>1, <1>2, <1>4, <1>5 DEF Debts, Others

LEMMA LeaveDebts ==
  ASSUME Threads, Debts, NEW w \in Worker, DeleteAttendance(w)
  PROVE  Debts'
<1> DEFINE e == job[w].event
           u == job[w].user
           debts == [x \in Worker |-> IF job[x].event = e THEN owed[x] \ {u} ELSE owed[x]]
<1>1. /\ pc[w] = "delete_attendance" /\ Proceed(w, "respond", job[w], debts)
      /\ attending' = attending \ {<<e, u>>}
  BY DEF DeleteAttendance
<1>2. Others(w) /\ pc'[w] = "respond" /\ job'[w] = job[w] /\ owed' = debts
  BY <1>1, ProceedMoves DEF Proceed
<1>3. job[w].op = "unregister_attendance"
  BY <1>1 DEF Threads, Fits
<1>4. ASSUME NEW x \in Worker
      PROVE  /\ owed'[x] = IF job[x].event = e THEN owed[x] \ {u} ELSE owed[x]
             /\ owed[x] \subseteq ListOf(attending, job[x].event) =>
                  owed'[x] \subseteq ListOf(attending', job[x].event)
  BY <1>1, <1>2 DEF ListOf
<1> HIDE DEF debts
<1>5. QED
  BY <1>2, <1>3, <1>4 DEF Debts, Others

LEMMA DeleteDebts ==
  ASSUME Threads, Debts, NEW w \in Worker, DeleteEvent(w)
  PROVE  Debts'
<1> DEFINE e == job[w].event
           debts == [x \in Worker |-> IF x # w /\ job[x].event = e THEN {} ELSE owed[x]]
<1>1. pc[w] = "delete_event" /\ job[w].op = "delete_event"
  BY DEF DeleteEvent, Threads, Fits, ByDelete
<1>2. CASE Finish(w) /\ UNCHANGED attending
  BY <1>2, FinishEnds DEF Debts, Finish, Ends, Others, Threads, NoJob
<1>3. CASE ~(Finish(w) /\ UNCHANGED attending)
  <2>1. Proceed(w, "select_attendees", job[w], debts) /\ attending' = {p \in attending : p[1] # e}
    BY <1>3 DEF DeleteEvent
  <2>2. Others(w) /\ pc'[w] = "select_attendees" /\ job'[w] = job[w] /\ owed' = debts
    BY <2>1, ProceedMoves DEF Proceed
  <2>3. ASSUME NEW x \in Worker \ {w}
        PROVE  /\ owed'[x] = IF job[x].event = e THEN {} ELSE owed[x]
               /\ owed[x] \subseteq ListOf(attending, job[x].event) =>
                    owed'[x] \subseteq ListOf(attending', job[x].event)
    BY <2>1, <2>2 DEF ListOf
  <2> HIDE DEF debts
  <2>4. QED
    BY <1>1, <2>2, <2>3 DEF Debts, Others
<1>4. QED
  BY <1>2, <1>3

LEMMA NextDebts ==
  ASSUME Threads, Threads', Debts, [Next]_vars
  PROVE  Debts'
<1>1. ASSUME NEW w \in Worker,
             \/ ReceiveCreate(w) \/ ReceiveEdit(w) \/ ReceiveDelete(w)
             \/ ReceiveRegister(w) \/ ReceiveUnregister(w)
      PROVE  Debts'
  <2>1. pc[w] = "idle" /\ UNCHANGED <<owed, attending>>
    BY <1>1 DEF ReceiveCreate, ReceiveEdit, ReceiveDelete, ReceiveRegister, ReceiveUnregister, Receive,
       tables
  <2>2. owed'[w] = {} /\ Others(w) /\ Begins(w)
    BY <1>1, <2>1, ReceivesFlow DEF Debts
  <2>3. QED
    BY <2>1, <2>2 DEF Debts, Others, Begins, Firsts
<1>2. ASSUME NEW w \in Worker, Keeps(w), Others(w), Ends(w) \/ Moves(w) \/ Begins(w),
             pc[w] \notin {"select_attendees", "notify_attendee"}, attending \subseteq attending'
      PROVE  Debts'
  BY <1>2, DebtsMove
<1>3. ASSUME NEW w \in Worker, Handle(w)
      PROVE  Debts'
  <2>1. CASE SelectOrganiser(w) \/ SelectOwner(w) \/ SelectAttendees(w) \/ NotifyAttendee(w)
             \/ DeleteAttendance(w) \/ DeleteEvent(w)
    BY <2>1, SelectDebts, TellDebts, LeaveDebts, DeleteDebts
  <2>2. CASE ~(SelectOrganiser(w) \/ SelectOwner(w) \/ SelectAttendees(w) \/ NotifyAttendee(w)
               \/ DeleteAttendance(w) \/ DeleteEvent(w))
    <3>1. pc[w] \notin {"select_attendees", "notify_attendee"} /\ attending \subseteq attending'
      BY <1>3, <2>2 DEF Handle, InsertEvent, ReturnId, Announce, UpdateEvent, SelectName, SelectIsPublic,
         InsertInvitation, RefuseInvitation, DeleteInvitation, SelectInvitations, SelectFollowers,
         NotifyFollower, SelectPublicity, SelectInvitation, InsertAttendance, SelectPrivilege,
         FindConnectionDown, Respond, tables
    <3>2. QED
      BY <1>2, <1>3, <2>2, <3>1, HandleKeeps, HandleFlow
  <2>3. QED
    BY <2>1, <2>2
<1>4. ASSUME NEW w \in Worker, LoseConnection(w) \/ FailStatement(w)
      PROVE  Debts'
  <2>1. UNCHANGED attending
    BY <1>4 DEF LoseConnection, FailStatement, NoteFault, tables
  <2>2. CASE pc[w] \notin {"select_attendees", "notify_attendee"}
    BY <1>2, <1>4, <2>1, <2>2, FaultKeeps, FaultFlow
  <2>3. CASE pc[w] \in {"select_attendees", "notify_attendee"}
    <3>1. Ends(w) \/ Begins(w)
      BY <1>4, <2>3, FaultFlow DEF Moves, Leads
    <3>2. owed'[w] = {} /\ \A x \in Worker \ {w} : owed'[x] = owed[x]
      BY <1>4, <3>1, FaultKeeps DEF Keeps, Ends, Begins, Threads
    <3>3. QED
      BY <1>4, <2>1, <3>2, FaultFlow DEF Debts, Others
  <2>4. QED
    BY <2>2, <2>3
<1>5. ASSUME UNCHANGED vars \/ \E u \in Guest, followed \in {Organiser[e] : e \in Event} : Follow(u, followed)
      PROVE  Debts'
  <2>1. UNCHANGED <<attending, pc, job, owed>>
    BY <1>5 DEF vars, Follow, tables, threads
  <2>2. QED
    BY <2>1 DEF Debts
<1>6. QED
  BY <1>1, <1>3, <1>4, <1>5 DEF Next
-----------------------------------------------------------------------------
(***************************************************************************)
(* The parts together, and what follows from them.                         *)
(***************************************************************************)
IInv == Threads /\ Lists /\ Telling /\ Rounds /\ Promises /\ Debts

LEMMA InitHolds == Init => IInv
<1> SUFFICES ASSUME Init PROVE IInv
  OBVIOUS
<1>1. NoJob.op = "none" /\ NoJob \in Job
  BY NoJobIsJob DEF NoJob
<1>2. \A w \in Worker : pc[w] = "idle" /\ job[w] = NoJob /\ owed[w] = {}
  BY DEF Init
<1>3. Threads
  <2>1. /\ pc \in [Worker -> Place] /\ attempt \in [Worker -> {1, 2}]
        /\ job \in [Worker -> Job] /\ owed \in [Worker -> SUBSET User]
    BY <1>1 DEF Init, Place
  <2>2. Fits("idle", NoJob)
    BY <1>1 DEF Fits, Operation, ByCreate, ByEdit, ByDelete, ByRegister
  <2>3. QED
    BY <1>2, <2>1, <2>2 DEF Threads
<1>4. Lists
  BY <1>2 DEF Init, Lists, TablesOK, ListsBelong, Entitlements
<1>5. Telling
  BY EventsAssumptions DEF Init, Telling
<1>6. \A w \in Worker : ~Announcing(w) /\ ~InRound(w)
  BY <1>2 DEF Announcing, InRound
<1>7. Rounds
  BY <1>2, <1>6 DEF Init, Rounds, Announcements, ToldOnce
<1>8. Promises
  BY <1>6 DEF Init, Promises, PromisesKept
<1>9. Debts
  BY <1>1, <1>2 DEF Debts
<1>10. QED
  BY <1>3, <1>4, <1>5, <1>7, <1>8, <1>9 DEF IInv

LEMMA StepHolds == IInv /\ [Next]_vars => IInv'
<1> SUFFICES ASSUME IInv, [Next]_vars PROVE IInv'
  OBVIOUS
<1> USE DEF IInv
<1>1. TablesOK
  BY DEF Lists
<1>2. Threads'
  BY NextThreads
<1>3. Lists' /\ Telling'
  BY <1>1, NextLists, NextTelling
<1>4. Rounds' /\ Promises'
  BY <1>1, NextRounds, NextPromises
<1>5. Debts'
  BY <1>2, NextDebts
<1>6. QED
  BY <1>2, <1>3, <1>4, <1>5

LEMMA Invariant == Spec => []IInv
BY InitHolds, StepHolds, PTL DEF Spec

\* In every reachable state the tables, the handlers' variables and what was
\* told have the types that Events.cpp and the schema give them.
THEOREM TypeCorrect == Spec => []TypeOK
<1>1. IInv => TypeOK
  BY TypeParts DEF IInv, Lists, Threads
<1>2. QED
  BY <1>1, Invariant, PTL

\* Guest lists and attendances are always those of events that are there:
\* what the foreign keys on Events do for every order of the statements.
THEOREM ListsBelongCorrect == Spec => []ListsBelong
<1>1. IInv => ListsBelong
  BY DEF IInv, Lists
<1>2. QED
  BY <1>1, Invariant, PTL

\* Nobody attends who was not entitled to at some time, although
\* register_attendance reads the publicity, reads the invitation and inserts
\* in three statements.
THEOREM AttendeesEntitledCorrect == Spec => []AttendeesEntitled
<1>1. IInv => AttendeesEntitled
  BY DEF IInv, Lists, Entitlements, AttendeesEntitled
<1>2. QED
  BY <1>1, Invariant, PTL

\* However many workers edit_event runs in, and whatever is re-run, nobody is
\* mailed or told of a new event in a second round.
THEOREM ToldOnceCorrect == Spec => []ToldOnce
<1>1. IInv => ToldOnce
  BY DEF IInv, Rounds
<1>2. QED
  BY <1>1, Invariant, PTL

\* create_event and edit_event mail and announce no event that is a draft.
THEOREM NothingLeaksCorrect == Spec => []NothingLeaks
<1>1. IInv => NothingLeaks
  <2> SUFFICES ASSUME Rounds,
                      NEW p \in mailed \cup {<<n.event, n.user>> : n \in {m \in news : m.type = "NewEvent"}}
               PROVE  row[p[1]] \in {"published", "deleted"}
    BY DEF IInv, NothingLeaks
  <2>1. CASE p \in mailed
    BY <2>1 DEF Rounds
  <2>2. CASE p \notin mailed
    <3>1. PICK n \in Announcements : p = <<n.event, n.user>>
      BY <2>2 DEF Announcements
    <3>2. QED
      BY <3>1 DEF Rounds
  <2>3. QED
    BY <2>1, <2>2
<1>2. QED
  BY <1>1, Invariant, PTL

\* Who was on the guest list when the event was published has been mailed
\* once the publishing handler is past its mails, unless it was interrupted.
THEOREM PromisesKeptCorrect == Spec => []PromisesKept
<1>1. IInv => PromisesKept
  BY DEF IInv, Promises
<1>2. QED
  BY <1>1, Invariant, PTL

\* When edit_event responds it has told everybody who attended when it began
\* and has not left since.
THEOREM ChangeToldCorrect == Spec => []ChangeTold
<1>1. IInv => ChangeTold
  BY DEF IInv, Debts, ChangeTold
<1>2. QED
  BY <1>1, Invariant, PTL
-----------------------------------------------------------------------------
(***************************************************************************)
(* What no run of a small instance can show in general: a cancellation is  *)
(* never told to anybody, and without faults no publication is excused.    *)
(***************************************************************************)
CancellationUntold == \A n \in news : n.type # "EventDeleted"

\* Between the DELETE and the loop over the attendees the event is gone, so
\* that nobody attends it, and no delete_event reaches the body of the loop.
LoopEmpty == \A w \in Worker : job[w].op = "delete_event" =>
  /\ pc[w] # "notify_attendee"
  /\ pc[w] = "select_attendees" => row[job[w].event] = "deleted"

\* No row comes back, whatever a step does.
RowsOnward == \A e \in Event :
  /\ row[e] = "deleted" => row'[e] = "deleted"
  /\ row[e] = "published" => row'[e] \in {"published", "deleted"}
  /\ row[e] = "draft" => row'[e] # "none"

LEMMA RowsGoOn ==
  ASSUME TablesOK, [Next]_vars
  PROVE  RowsOnward
<1>1. ASSUME NEW w \in Worker, InsertEvent(w) \/ UpdateEvent(w) \/ DeleteEvent(w)
      PROVE  RowsOnward
  <2>1. \/ row' = row
        \/ \E e : row[e] = "none" /\ \E v \in {"published", "draft"} : row' = [row EXCEPT ![e] = v]
        \/ \E e : Here(e) /\ row' = [row EXCEPT ![e] = "published"]
        \/ \E e : row' = [row EXCEPT ![e] = "deleted"]
    <3>1. InsertEvent(w) => row' = row \/ \E e : row[e] = "none" /\ \E v \in {"published", "draft"} :
                                              row' = [row EXCEPT ![e] = v]
      BY DEF InsertEvent
    <3>2. UpdateEvent(w) => row' = row \/ \E e : Here(e) /\ row' = [row EXCEPT ![e] = "published"]
      BY DEF UpdateEvent
    <3>3. DeleteEvent(w) => row' = row \/ \E e : row' = [row EXCEPT ![e] = "deleted"]
      BY DEF DeleteEvent
    <3>4. QED
      BY <1>1, <3>1, <3>2, <3>3, Zenon
  <2>2. QED
    BY <2>1 DEF TablesOK, RowsOnward, Here
<1>2. CASE row' = row
  BY <1>2 DEF RowsOnward
<1>3. ASSUME NEW w \in Worker,
             \/ Quiet(w) \/ InsertInvitation(w) \/ DeleteInvitation(w) \/ Announce(w)
             \/ SelectInvitations(w) \/ NotifyFollower(w) \/ NotifyAttendee(w)
             \/ InsertAttendance(w) \/ DeleteAttendance(w) \/ LoseConnection(w) \/ FailStatement(w)
      PROVE  row' = row
  BY <1>3, QuietChangesNothing
     DEF tables, InsertInvitation, DeleteInvitation, Announce, SelectInvitations, NotifyFollower,
         NotifyAttendee, InsertAttendance, DeleteAttendance, LoseConnection, FailStatement, NoteFault
<1>4. UNCHANGED vars \/ (\E u \in Guest, followed \in {Organiser[e] : e \in Event} : Follow(u, followed))
        => row' = row
  BY DEF vars, tables, Follow
<1>5. QED
  BY <1>1, <1>2, <1>3, <1>4, Steps

LEMMA LoopStaysEmpty ==
  ASSUME Threads, Threads', Lists, LoopEmpty, [Next]_vars
  PROVE  LoopEmpty'
<1>1. RowsOnward
  BY RowsGoOn DEF Lists
<1>2. ASSUME NEW x \in Worker, pc'[x] = pc[x], job'[x] = job[x], job'[x].op = "delete_event"
      PROVE  /\ pc'[x] # "notify_attendee"
             /\ pc'[x] = "select_attendees" => row'[job'[x].event] = "deleted"
  <2>1. job[x].event \in Event
    BY <1>2 DEF Threads, Fits, Operation
  <2>2. QED
    BY <1>1, <1>2, <2>1 DEF LoopEmpty, RowsOnward
<1>3. ASSUME NEW w \in Worker, Others(w), Ends(w) \/ Moves(w) \/ Begins(w),
             ~DeleteEvent(w), ~SelectAttendees(w)
      PROVE  pc[w] \notin {"delete_event", "select_attendees"} => LoopEmpty'
  <2>1. SUFFICES ASSUME pc[w] \notin {"delete_event", "select_attendees"} PROVE LoopEmpty'
    OBVIOUS
  <2>2. job'[w].op = "delete_event" => pc'[w] \notin {"notify_attendee", "select_attendees"}
    <3>1. CASE Ends(w) \/ Begins(w)
      BY <3>1 DEF Ends, Begins, Firsts
    <3>2. CASE Moves(w)
      <4>1. SUFFICES ASSUME job'[w].op = "delete_event" PROVE pc'[w] \notin {"notify_attendee", "select_attendees"}
        OBVIOUS
      <4>2. job[w].op = "delete_event" /\ Leads(pc[w], job[w], pc'[w])
        BY <3>2, <4>1 DEF Moves, Same
      <4>3. Fits(pc[w], job[w]) /\ pc[w] # "notify_attendee"
        BY <4>2 DEF Threads, LoopEmpty
      <4>4. pc[w] \notin ByCreate \cup ByEdit \cup {"insert_invitation", "select_followers", "notify_follower"}
        BY <4>2, <4>3 DEF Fits
      <4>5. QED
        BY <2>1, <4>2, <4>3, <4>4 DEF Leads, ByCreate, ByEdit
    <3>3. QED
      BY <1>3, <3>1, <3>2
  <2>3. QED
    BY <1>2, <1>3, <2>2 DEF LoopEmpty, Others
<1>4. ASSUME NEW w \in Worker, DeleteEvent(w)
      PROVE  LoopEmpty'
  <2>1. job[w].event \in Event /\ pc[w] = "delete_event"
    BY <1>4 DEF DeleteEvent, Threads, Fits
  <2>2. CASE ~Here(job[w].event)
    <3>1. Others(w) /\ pc'[w] = "idle"
      BY <1>4, <2>2, FinishEnds DEF DeleteEvent, Ends
    <3>2. QED
      BY <1>2, <3>1 DEF LoopEmpty, Others
  <2>3. CASE Here(job[w].event)
    <3>1. \E debts : Proceed(w, "select_attendees", job[w], debts)
      BY <1>4, <2>3 DEF DeleteEvent
    <3>2. Others(w) /\ pc'[w] = "select_attendees" /\ job'[w] = job[w]
      BY <3>1, ProceedMoves
    <3>3. row'[job[w].event] = "deleted"
      BY <1>4, <2>1, <2>3 DEF DeleteEvent, Lists, TablesOK
    <3>4. QED
      BY <1>2, <3>2, <3>3 DEF LoopEmpty, Others
  <2>4. QED
    BY <2>2, <2>3
<1>5. ASSUME NEW w \in Worker, SelectAttendees(w)
      PROVE  LoopEmpty'
  <2> DEFINE left == ListOf(attending, job[w].event)
             place == IF left = {} THEN "respond" ELSE "notify_attendee"
  <2>1. Proceed(w, place, [job[w] EXCEPT !.todo = left], owed) /\ pc[w] = "select_attendees"
    BY <1>5 DEF SelectAttendees, TellAttendees
  <2>2. job[w].op = "delete_event" => left = {}
    BY <2>1 DEF LoopEmpty, Lists, ListsBelong, Here, ListOf
  <2>3. Others(w) /\ pc'[w] = place /\ job'[w] = [job[w] EXCEPT !.todo = left]
    BY <2>1, ProceedMoves
  <2>4. job'[w].op = job[w].op
    BY <2>3 DEF Threads, Job
  <2>5. job'[w].op = "delete_event" => pc'[w] = "respond"
    BY <2>2, <2>3, <2>4
  <2> HIDE DEF left, place
  <2>6. QED
    BY <1>2, <2>3, <2>5 DEF LoopEmpty, Others
<1>6. ASSUME NEW w \in Worker, LoseConnection(w) \/ FailStatement(w)
      PROVE  LoopEmpty'
  <2>1. Others(w) /\ (Ends(w) \/ Begins(w) \/ pc'[w] \in {"insert_invitation", "announce"})
    BY <1>6, FaultFlow
  <2>2. pc'[w] \notin {"notify_attendee", "select_attendees"}
    BY <2>1 DEF Ends, Begins, Firsts
  <2>3. QED
    BY <1>2, <2>1, <2>2 DEF LoopEmpty, Others
<1>7. ASSUME NEW w \in Worker,
             \/ ReceiveCreate(w) \/ ReceiveEdit(w) \/ ReceiveDelete(w)
             \/ ReceiveRegister(w) \/ ReceiveUnregister(w)
      PROVE  LoopEmpty'
  BY <1>2, <1>7, ReceivesFlow DEF LoopEmpty, Others, Begins, Firsts
<1>8. ASSUME NEW w \in Worker, Handle(w)
      PROVE  LoopEmpty'
  <2>1. CASE DeleteEvent(w) \/ SelectAttendees(w)
    BY <1>4, <1>5, <2>1
  <2>2. CASE ~DeleteEvent(w) /\ ~SelectAttendees(w)
    <3>1. pc[w] \notin {"delete_event", "select_attendees"}
      BY <1>8, <2>2 DEF Handle, InsertEvent, ReturnId, Announce, SelectOrganiser, UpdateEvent, SelectName,
         SelectIsPublic, InsertInvitation, RefuseInvitation, DeleteInvitation, SelectInvitations,
         SelectFollowers, NotifyFollower, NotifyAttendee, SelectPublicity, SelectInvitation,
         InsertAttendance, DeleteAttendance, SelectOwner, SelectPrivilege, FindConnectionDown, Respond
    <3>2. QED
      BY <1>3, <1>8, <2>2, <3>1, HandleFlow
  <2>3. QED
    BY <2>1, <2>2
<1>9. ASSUME UNCHANGED vars \/ \E u \in Guest, followed \in {Organiser[e] : e \in Event} : Follow(u, followed)
      PROVE  LoopEmpty'
  <2>1. UNCHANGED <<row, pc, job>>
    BY <1>9 DEF vars, Follow, tables, threads
  <2>2. QED
    BY <2>1 DEF LoopEmpty
<1>10. QED
  BY <1>6, <1>7, <1>8, <1>9 DEF Next

LEMMA StaysUntold ==
  ASSUME Threads, LoopEmpty, CancellationUntold, [Next]_vars
  PROVE  CancellationUntold'
<1>1. ASSUME NEW w \in Worker, NotifyFollower(w) \/ NotifyAttendee(w)
      PROVE  CancellationUntold'
  <2>1. ASSUME NEW type, NEW e, NEW u, Tell(type, e, u), type # "EventDeleted"
        PROVE  CancellationUntold'
    BY <2>1 DEF Tell, NewsOf, CancellationUntold
  <2>2. CASE NotifyFollower(w)
    BY <2>1, <2>2 DEF NotifyFollower
  <2>3. CASE NotifyAttendee(w)
    <3>1. pc[w] = "notify_attendee" /\ job[w].op = "edit_event"
      BY <2>3 DEF NotifyAttendee, Threads, Fits, LoopEmpty
    <3>2. PICK u \in job[w].todo : Tell("EventChanged", job[w].event, u)
      BY <2>3, <3>1 DEF NotifyAttendee
    <3>3. QED
      BY <2>1, <3>2
  <2>4. QED
    BY <1>1, <2>2, <2>3
<1>2. ASSUME NEW w \in Worker,
             \/ Quiet(w) \/ InsertEvent(w) \/ UpdateEvent(w) \/ InsertInvitation(w)
             \/ DeleteInvitation(w) \/ Announce(w) \/ SelectInvitations(w) \/ InsertAttendance(w)
             \/ DeleteAttendance(w) \/ DeleteEvent(w) \/ LoseConnection(w) \/ FailStatement(w)
      PROVE  news' = news
  BY <1>2, QuietChangesNothing
     DEF outcome, InsertEvent, UpdateEvent, InsertInvitation, DeleteInvitation, Announce, SelectInvitations,
         Mail, InsertAttendance, DeleteAttendance, DeleteEvent, LoseConnection, FailStatement, NoteFault
<1>3. UNCHANGED vars \/ (\E u \in Guest, followed \in {Organiser[e] : e \in Event} : Follow(u, followed))
        => news' = news
  BY DEF vars, outcome, Follow
<1>4. news' = news => CancellationUntold'
  BY DEF CancellationUntold
<1>5. QED
  BY <1>1, <1>2, <1>3, <1>4, Steps

\* delete_event never creates an EventDeleted notification, for anybody, in any
\* order of the handlers' statements: it is not only that the attendees at the
\* time of the request are missed (the run deletion_told), the loop is dead code.
THEOREM CancellationNeverTold == Spec => []CancellationUntold
<1>1. Init => LoopEmpty /\ CancellationUntold
  BY DEF Init, LoopEmpty, CancellationUntold
<1>2. IInv /\ IInv' /\ LoopEmpty /\ CancellationUntold /\ [Next]_vars => (LoopEmpty /\ CancellationUntold)'
  BY LoopStaysEmpty, StaysUntold DEF IInv
<1>3. QED
  BY <1>1, <1>2, Invariant, PTL DEF Spec

\* save_event's publication is final, as the edit page says, and so is a deletion:
\* no statement of any handler takes a row back.
THEOREM PublishingIsFinal == Spec => [][RowsOnward]_vars
<1>1. IInv /\ [Next]_vars => RowsOnward
  BY RowsGoOn DEF IInv, Lists
<1>2. QED
  BY <1>1, Invariant, PTL DEF Spec

\* When no statement fails, everybody on the guest list of a publication is
\* mailed once its worker has got past the mails, or the event was deleted.
MailsWhole == \A p \in promised :
  \/ p \in mailed
  \/ row[p[1]] = "deleted"
  \/ \E w \in Worker : Announcing(w) /\ job[w].event = p[1]

THEOREM PublicationsWhole == ASSUME MaxFaults = 0 PROVE Spec => []MailsWhole
<1>1. Init => cut = {}
  BY DEF Init
<1>2. IInv /\ cut = {} /\ [Next]_vars => (cut = {})'
  <2>1. SUFFICES ASSUME Telling, cut = {}, [Next]_vars PROVE cut' = cut
    BY DEF IInv
  <2>2. \A w \in Worker : ~LoseConnection(w) /\ ~FailStatement(w)
    BY <2>1 DEF Telling, LoseConnection, FailStatement, NoteFault
  <2>3. ASSUME NEW w \in Worker,
               \/ InsertEvent(w) \/ UpdateEvent(w) \/ InsertInvitation(w) \/ DeleteInvitation(w)
               \/ Announce(w) \/ SelectInvitations(w) \/ NotifyFollower(w) \/ NotifyAttendee(w)
               \/ InsertAttendance(w) \/ DeleteAttendance(w) \/ DeleteEvent(w)
        PROVE  cut' = cut
    BY <2>3 DEF history, InsertEvent, UpdateEvent, InsertInvitation, DeleteInvitation, Announce,
       SelectInvitations, NotifyFollower, NotifyAttendee, InsertAttendance, DeleteAttendance, DeleteEvent
  <2>4. \A w \in Worker : Quiet(w) => cut' = cut
    BY QuietChangesNothing DEF history
  <2>5. UNCHANGED vars \/ (\E u \in Guest, followed \in {Organiser[e] : e \in Event} : Follow(u, followed))
          => cut' = cut
    BY DEF vars, history, Follow
  <2>6. QED
    BY <2>1, <2>2, <2>3, <2>4, <2>5, Steps
<1>3. IInv /\ cut = {} => MailsWhole
  BY DEF IInv, Promises, PromisesKept, MailsWhole
<1>4. QED
  BY <1>1, <1>2, <1>3, Invariant, PTL DEF Spec
-----------------------------------------------------------------------------
(***************************************************************************)
(* Told: a worker that published and is past the mails has sent them.  To  *)
(* no event that is published already is anything promised any more.       *)
(***************************************************************************)
Past(w) ==
  /\ Publishes(job[w])
  /\ pc[w] \in {"select_followers", "notify_follower", "select_attendees", "notify_attendee", "respond"}

Mailed(e) ==
  /\ row[e] \in {"published", "deleted"}
  /\ row[e] = "deleted" \/ \A p \in promised : p[1] = e => p \in mailed

Told == \A w \in Worker : Past(w) => Mailed(job[w].event)

\* What a step adds to the promises belongs to events that were not published.
LEMMA PromisedBefore ==
  ASSUME Threads, Lists, Telling, Rounds, [Next]_vars
  PROVE  /\ mailed \subseteq mailed'
         /\ \A p \in promised' \ promised : row[p[1]] \notin {"published", "deleted"}
<1>1. ASSUME NEW w \in Worker, InsertEvent(w)
      PROVE  \A p \in promised' \ promised : row[p[1]] \notin {"published", "deleted"}
  <2>1. \/ promised' = promised
        \/ \E e : \E users : row[e] = "none" /\ promised' = promised \cup PairsOf(e, users)
    BY <1>1 DEF InsertEvent
  <2>2. QED
    BY <2>1 DEF PairsOf
<1>2. ASSUME NEW w \in Worker, UpdateEvent(w)
      PROVE  \A p \in promised' \ promised : row[p[1]] \notin {"published", "deleted"}
  <2>1. \/ promised' = promised
        \/ \E e, users : row[e] = "draft" /\ promised' = promised \cup PairsOf(e, users)
    BY <1>2 DEF UpdateEvent
  <2>2. QED
    BY <2>1 DEF PairsOf
<1>3. ASSUME NEW w \in Worker, InsertEvent(w) \/ UpdateEvent(w)
      PROVE  mailed' = mailed
  BY <1>3 DEF InsertEvent, UpdateEvent, outcome
<1>4. ASSUME NEW w \in Worker,
             \/ Quiet(w) \/ InsertInvitation(w) \/ DeleteInvitation(w) \/ Announce(w)
             \/ SelectInvitations(w) \/ NotifyFollower(w) \/ NotifyAttendee(w)
             \/ InsertAttendance(w) \/ DeleteAttendance(w) \/ DeleteEvent(w)
             \/ LoseConnection(w) \/ FailStatement(w)
      PROVE  promised' \subseteq promised /\ mailed \subseteq mailed'
  BY <1>4, QuietChangesNothing
     DEF history, outcome, InsertInvitation, DeleteInvitation, Announce, SelectInvitations, Mail,
         NotifyFollower, NotifyAttendee, Tell, InsertAttendance, DeleteAttendance, DeleteEvent,
         LoseConnection, FailStatement, NoteFault
<1>5. UNCHANGED vars \/ (\E u \in Guest, followed \in {Organiser[e] : e \in Event} : Follow(u, followed))
        => promised' = promised /\ mailed' = mailed
  BY DEF vars, history, outcome, Follow
<1>6. QED
  BY <1>1, <1>2, <1>3, <1>4, <1>5, Steps

LEMMA MailedStays ==
  ASSUME IInv, [Next]_vars, NEW e \in Event, Mailed(e)
  PROVE  Mailed(e)'
<1>1. RowsOnward
  BY RowsGoOn DEF IInv, Lists
<1>2. /\ mailed \subseteq mailed'
      /\ \A p \in promised' \ promised : row[p[1]] \notin {"published", "deleted"}
  BY PromisedBefore DEF IInv
<1>3. QED
  BY <1>1, <1>2 DEF Mailed, RowsOnward

\* The step by which a worker gets past its mails sends them.
LEMMA MailsThem ==
  ASSUME IInv, NEW w \in Worker, Announce(w) \/ SelectInvitations(w), NEW e, e = job[w].event
  PROVE  Mailed(e)'
<1>1. Fits(pc[w], job[w]) /\ pc[w] \in {"announce", "select_invitations"}
  BY DEF IInv, Threads, Announce, SelectInvitations
<1>2. Announcing(w)
  BY <1>1 DEF Fits, Announcing
<1>3. UNCHANGED <<row, promised>>
  BY DEF Announce, SelectInvitations, tables
<1>4. Mail(e, Listed(w))
  BY <1>1 DEF Announce, SelectInvitations, Listed, Fits, ByCreate, ByEdit
<1>5. mailed' = mailed \cup PairsOf(e, Listed(w))
  BY <1>4 DEF Mail
<1>6. \A p \in promised : p = <<p[1], p[2]>>
  BY DEF IInv, Telling
<1>7. \A p \in promised : p[1] = e => p \in PairsOf(e, Listed(w)) \/ row[e] = "deleted"
  BY <1>2, <1>6 DEF IInv, Promises, PairsOf
<1>8. row[e] \in {"published", "deleted"}
  BY <1>2 DEF IInv, Rounds, InRound
<1>9. QED
  BY <1>3, <1>5, <1>7, <1>8 DEF Mailed

LEMMA ToldStays == IInv /\ Told /\ [Next]_vars => Told'
<1> SUFFICES ASSUME IInv, Told, [Next]_vars, NEW x \in Worker, Past(x)'
             PROVE  \A e : e = job'[x].event => Mailed(e)'
  BY DEF Told
<1>1. Threads
  BY DEF IInv
<1>2. SUFFICES ASSUME NEW e, e = job'[x].event PROVE Mailed(e)'
  OBVIOUS
<1>3. ASSUME Past(x), job[x].event = e
      PROVE  Mailed(e)'
  <2>1. Mailed(job[x].event) /\ pc[x] \notin {"idle", "insert_event"}
    BY <1>3 DEF Told, Past
  <2>2. e \in Event
    BY <1>1, <1>3, <2>1 DEF Threads, Fits
  <2>3. QED
    BY <1>3, <2>1, <2>2, MailedStays
<1>4. ASSUME pc'[x] = pc[x], job'[x] = job[x]
      PROVE  Mailed(e)'
  BY <1>2, <1>3, <1>4 DEF Past
<1>5. ASSUME NEW w \in Worker, Others(w), Ends(w) \/ Moves(w) \/ Begins(w),
             x = w => pc[w] \notin {"announce", "select_invitations"}
      PROVE  Mailed(e)'
  <2>1. CASE x # w
    BY <1>4, <1>5, <2>1 DEF Others
  <2>2. CASE x = w
    <3>1. Moves(x)
      BY <1>5, <2>2 DEF Ends, Begins, Firsts, Past
    <3>2. Fits(pc[x], job[x])
      BY <1>1 DEF Threads
    <3>3. Past(x) /\ job[x].event = e
      BY <1>2, <1>5, <2>2, <3>1, <3>2
         DEF Moves, Leads, Same, Past, Publishes, Fits, ByCreate, ByEdit, ByDelete, ByRegister
    <3>4. QED
      BY <1>3, <3>3
  <2>3. QED
    BY <2>1, <2>2
<1>6. ASSUME NEW w \in Worker, Announce(w) \/ SelectInvitations(w)
      PROVE  Mailed(e)'
  <2>0. Handle(w) /\ pc[w] \in {"announce", "select_invitations"}
    BY <1>6 DEF Handle, Announce, SelectInvitations
  <2>1. Others(w) /\ (Ends(w) \/ Moves(w)) /\ pc[w] \in {"announce", "select_invitations"}
    BY <1>1, <2>0, HandleFlow DEF FindConnectionDown
  <2>2. CASE x # w
    BY <1>5, <2>1, <2>2
  <2>3. CASE x = w
    <3>1. Moves(w)
      BY <2>1, <2>3 DEF Ends, Past
    <3>2. job[w].event = e
      BY <1>2, <2>1, <2>3, <3>1 DEF Moves, Same
    <3>3. QED
      BY <1>6, <3>2, MailsThem
  <2>4. QED
    BY <2>2, <2>3
<1>7. ASSUME NEW w \in Worker, LoseConnection(w) \/ FailStatement(w)
      PROVE  Mailed(e)'
  <2>1. Others(w) /\ (Ends(w) \/ Begins(w) \/ pc'[w] \in {"insert_invitation", "announce"})
    BY <1>1, <1>7, FaultFlow
  <2>2. x # w
    BY <2>1 DEF Ends, Begins, Firsts, Past
  <2>3. QED
    BY <1>4, <2>1, <2>2 DEF Others
<1>8. ASSUME NEW w \in Worker,
             \/ Quiet(w) \/ InsertEvent(w) \/ UpdateEvent(w) \/ InsertInvitation(w)
             \/ DeleteInvitation(w) \/ NotifyFollower(w) \/ NotifyAttendee(w)
             \/ InsertAttendance(w) \/ DeleteAttendance(w) \/ DeleteEvent(w)
      PROVE  Mailed(e)'
  <2>1. Others(w) /\ (Ends(w) \/ Moves(w) \/ Begins(w))
    BY <1>1, <1>8, QuietFlow, HandleFlow DEF Handle
  <2>2. pc[w] \notin {"announce", "select_invitations"}
    BY <1>8 DEF Quiet, ReceiveCreate, ReceiveEdit, ReceiveDelete, ReceiveRegister,
       ReceiveUnregister, Receive, ReturnId, SelectOrganiser, SelectName, SelectIsPublic,
       RefuseInvitation, SelectFollowers, SelectAttendees, SelectPublicity, SelectInvitation,
       SelectOwner, SelectPrivilege, FindConnectionDown, Respond, InsertEvent, UpdateEvent,
       InsertInvitation, DeleteInvitation, NotifyFollower, NotifyAttendee, InsertAttendance,
       DeleteAttendance, DeleteEvent
  <2>3. QED
    BY <1>5, <2>1, <2>2
<1>9. ASSUME UNCHANGED vars \/ \E u \in Guest, followed \in {Organiser[f] : f \in Event} : Follow(u, followed)
      PROVE  Mailed(e)'
  <2>1. UNCHANGED <<pc, job>>
    BY <1>9 DEF vars, Follow, threads
  <2>2. QED
    BY <1>4, <2>1
<1>10. QED
  BY <1>6, <1>7, <1>8, <1>9, Steps

\* A request to publish that is answered with success has mailed everybody who was
\* promised a mail when the row changed: "AND is_published=0" makes a re-run, and
\* every other worker, of a publication that was cut short answer with an error.
THEOREM SuccessMeansMailedCorrect == Spec => []SuccessMeansMailed
<1>1. Init => Told
  BY NoJobIsJob DEF Init, Told, Past
<1>2. Told => SuccessMeansMailed
  BY DEF Told, Past, Mailed, SuccessMeansMailed, Publishes
<1>3. QED
  BY <1>1, <1>2, ToldStays, Invariant, PTL DEF Spec
-----------------------------------------------------------------------------
(***************************************************************************)
(* Events implements EventRows.                                            *)
(***************************************************************************)
Visibility == [e \in Event |-> IF row[e] # "published" THEN row[e]
                                ELSE IF e \in public THEN "public" ELSE "private"]

\* An event is there for the rest of the system when its row is.
LEMMA HereForAll ==
  ASSUME TablesOK, NEW e \in Event
  PROVE  Rows!Here(e) <=> Here(e)
BY DEF Rows!Here, Here, TablesOK

LEMMA InitRefines == Init => Rows!Init
BY DEF Init, Rows!Init

Refines == [Rows!Next]_(Rows!rows)

LEMMA NoChangeRefines ==
  ASSUME UNCHANGED <<row, public, attending, invited>>
  PROVE  Refines
BY DEF Refines, Rows!rows

\* What the rest of the system sees of a write to one row.
LEMMA OneRow ==
  ASSUME TablesOK, NEW e \in Event, NEW value, row' = [row EXCEPT ![e] = value],
         \A x \in Event \ {e} : x \in public' <=> x \in public
  PROVE  Visibility' = [Visibility EXCEPT ![e] = IF value # "published" THEN value
                                                 ELSE IF e \in public' THEN "public" ELSE "private"]
<1> DEFINE seen == IF value # "published" THEN value ELSE IF e \in public' THEN "public" ELSE "private"
           after == [Visibility EXCEPT ![e] = seen]
<1>1. row'[e] = value /\ \A x \in Event \ {e} : row'[x] = row[x]
  BY DEF TablesOK
<1>2. after = [x \in Event |-> IF x = e THEN seen ELSE Visibility[x]]
  BY DEF Visibility
<1>3. Visibility' = [x \in Event |-> IF row'[x] # "published" THEN row'[x]
                                     ELSE IF x \in public' THEN "public" ELSE "private"]
  BY DEF Visibility
<1>4. ASSUME NEW x \in Event
      PROVE  (IF row'[x] # "published" THEN row'[x] ELSE IF x \in public' THEN "public" ELSE "private")
             = (IF x = e THEN seen ELSE Visibility[x])
  BY <1>1 DEF Visibility
<1>5. QED
  BY <1>2, <1>3, <1>4

LEMMA InsertEventRefines ==
  ASSUME TablesOK, Threads, NEW w \in Worker, InsertEvent(w)
  PROVE  Refines
<1>1. CASE UNCHANGED <<row, public>>
  BY <1>1, NoChangeRefines DEF InsertEvent
<1>2. CASE ~UNCHANGED <<row, public>>
  <2> DEFINE value == IF job[w].form.publish THEN "published" ELSE "draft"
  <2>1. PICK e \in Event :
          /\ row[e] = "none"
          /\ row' = [row EXCEPT ![e] = value]
          /\ public' = IF job[w].form.public = "public" THEN public \cup {e} ELSE public
    BY <1>2 DEF InsertEvent
  <2> DEFINE seen == IF value # "published" THEN value ELSE IF e \in public' THEN "public" ELSE "private"
  <2>2. value \in {"published", "draft"}
    OBVIOUS
  <2> HIDE DEF value
  <2>3. \A x \in Event \ {e} : x \in public' <=> x \in public
    BY <2>1
  <2>4. Visibility' = [Visibility EXCEPT ![e] = seen]
    BY <2>1, <2>3, OneRow
  <2>5. seen \in {"draft", "private", "public"} /\ Visibility[e] = "none"
    BY <2>1, <2>2 DEF Visibility
  <2> HIDE DEF seen
  <2>6. UNCHANGED <<attending, invited>>
    BY DEF InsertEvent
  <2>7. Rows!Create(e)
    BY <2>4, <2>5, <2>6 DEF Rows!Create, Visibility
  <2>8. QED
    BY <2>7 DEF Refines, Rows!Next
<1>3. QED
  BY <1>1, <1>2

LEMMA UpdateEventRefines ==
  ASSUME TablesOK, Threads, NEW w \in Worker, UpdateEvent(w)
  PROVE  Refines
<1>1. UNCHANGED <<attending, invited>>
  BY DEF UpdateEvent
<1>2. PICK e \in Event : e = job[w].event
  BY DEF UpdateEvent, Threads, Fits, ByEdit, ByCreate, ByDelete, ByRegister
<1>3. CASE UNCHANGED <<row, public>>
  BY <1>1, <1>3, NoChangeRefines
<1>4. CASE ~UNCHANGED <<row, public>>
  <2> DEFINE value == IF job[w].form.publish THEN "published" ELSE row[e]
  <2>1. Here(e) /\ row' = [row EXCEPT ![e] = value] /\ public' \in {public, public \cup {e}, public \ {e}}
    BY <1>2, <1>4 DEF UpdateEvent, Threads, Job, Form, TablesOK
  <2>2. value \in {"published", "draft"} /\ (value = "draft" => row[e] = "draft")
    BY <2>1 DEF Here
  <2> HIDE DEF value
  <2> DEFINE seen == IF value # "published" THEN value ELSE IF e \in public' THEN "public" ELSE "private"
  <2>3. \A x \in Event \ {e} : x \in public' <=> x \in public
    BY <2>1
  <2>4. Visibility' = [Visibility EXCEPT ![e] = seen]
    BY <2>1, <2>3, OneRow
  <2>5. CASE value = "draft"
    <3>1. Visibility' = [Visibility EXCEPT ![e] = "draft"] /\ Visibility[e] = "draft"
      BY <2>2, <2>4, <2>5 DEF Visibility
    <3>2. Visibility' = Visibility
      BY <3>1 DEF Visibility
    <3>3. QED
      BY <1>1, <3>2 DEF Refines, Rows!rows, Visibility
  <2>6. CASE value # "draft"
    <3>1. seen \in {"private", "public"}
      BY <2>2, <2>6
    <3> HIDE DEF seen
    <3>2. Rows!Here(e)
      BY <2>1, HereForAll
    <3>3. Rows!Edit(e)
      BY <1>1, <2>4, <3>1, <3>2 DEF Rows!Edit, Visibility
    <3>4. QED
      BY <3>3 DEF Refines, Rows!Next
  <2>7. QED
    BY <2>5, <2>6
<1>5. QED
  BY <1>3, <1>4

LEMMA InvitationRefines ==
  ASSUME TablesOK, ListsBelong, Threads, NEW w \in Worker, InsertInvitation(w) \/ DeleteInvitation(w)
  PROVE  Refines
<1> DEFINE e == job[w].event
<1>1. UNCHANGED <<row, public, attending>> /\ e \in Event
  BY DEF InsertInvitation, DeleteInvitation, Threads, Fits
<1>2. PICK u \in job[w].todo : invited' = invited \ {<<e, u>>} \/ (Here(e) /\ invited' = invited \cup {<<e, u>>})
  BY DEF InsertInvitation, DeleteInvitation
<1>3. u \in User
  BY DEF Threads, Job
<1>4. CASE <<e, u>> \notin invited /\ invited' = invited \ {<<e, u>>}
  BY <1>1, <1>4, NoChangeRefines
<1>5. CASE ~(<<e, u>> \notin invited /\ invited' = invited \ {<<e, u>>})
  <2>1. Here(e)
    BY <1>2, <1>5 DEF ListsBelong
  <2>2. Rows!Here(e)
    BY <1>1, <2>1, HereForAll
  <2>3. Rows!Invite(e, u)
    BY <1>1, <1>2, <2>2 DEF Rows!Invite
  <2>4. QED
    BY <1>1, <1>3, <2>3 DEF Refines, Rows!Next
<1>6. QED
  BY <1>4, <1>5

LEMMA AttendanceRefines ==
  ASSUME TablesOK, ListsBelong, Threads, NEW w \in Worker, InsertAttendance(w) \/ DeleteAttendance(w)
  PROVE  Refines
<1> DEFINE e == job[w].event
           u == job[w].user
<1>1. UNCHANGED <<row, public, invited>> /\ e \in Event /\ u \in User
  BY DEF InsertAttendance, DeleteAttendance, Threads, Fits
<1>2. attending' = attending \/ (attending' = attending \ {<<e, u>>} /\ <<e, u>> \in attending)
      \/ (Here(e) /\ attending' = attending \cup {<<e, u>>})
  BY DEF InsertAttendance, DeleteAttendance
<1>3. CASE attending' = attending
  BY <1>1, <1>3, NoChangeRefines
<1>4. CASE attending' # attending
  <2>1. Here(e)
    BY <1>2, <1>4 DEF ListsBelong
  <2>2. Rows!Here(e)
    BY <1>1, <2>1, HereForAll
  <2>3. Rows!Attend(e, u)
    BY <1>1, <1>2, <2>2 DEF Rows!Attend
  <2>4. QED
    BY <1>1, <2>3 DEF Refines, Rows!Next
<1>5. QED
  BY <1>3, <1>4

LEMMA DeleteEventRefines ==
  ASSUME TablesOK, Threads, NEW w \in Worker, DeleteEvent(w)
  PROVE  Refines
<1>1. PICK e \in Event : e = job[w].event
  BY DEF DeleteEvent, Threads, Fits
<1>2. CASE ~Here(e)
  BY <1>1, <1>2, NoChangeRefines DEF DeleteEvent
<1>3. CASE Here(e)
  <2>1. /\ row' = [row EXCEPT ![e] = "deleted"] /\ public' = public \ {e}
        /\ invited' = {p \in invited : p[1] # e} /\ attending' = {p \in attending : p[1] # e}
    BY <1>1, <1>3 DEF DeleteEvent
  <2>2. Visibility' = [Visibility EXCEPT ![e] = "deleted"]
    <3> DEFINE value == "deleted"
               seen == IF value # "published" THEN value ELSE IF e \in public' THEN "public" ELSE "private"
    <3>1. \A x \in Event \ {e} : x \in public' <=> x \in public
      BY <2>1
    <3>2. row' = [row EXCEPT ![e] = value] /\ seen = "deleted"
      BY <2>1
    <3> HIDE DEF value
    <3>3. Visibility' = [Visibility EXCEPT ![e] = seen]
      BY <3>1, <3>2, OneRow
    <3> HIDE DEF seen
    <3>4. QED
      BY <3>2, <3>3
  <2>3. Rows!Here(e)
    BY <1>3, HereForAll
  <2>4. Rows!Delete(e)
    BY <2>1, <2>2, <2>3 DEF Rows!Delete, Visibility
  <2>5. QED
    BY <2>4 DEF Refines, Rows!Next
<1>4. QED
  BY <1>2, <1>3

LEMMA NextRefines ==
  ASSUME TablesOK, ListsBelong, Threads, [Next]_vars
  PROVE  Refines
<1>1. ASSUME NEW w \in Worker, Quiet(w)
      PROVE  Refines
  BY <1>1, QuietChangesNothing, NoChangeRefines DEF tables
<1>2. ASSUME NEW w \in Worker,
             \/ Announce(w) \/ SelectInvitations(w) \/ NotifyFollower(w) \/ NotifyAttendee(w)
             \/ LoseConnection(w) \/ FailStatement(w)
      PROVE  Refines
  BY <1>2, NoChangeRefines
     DEF tables, Announce, SelectInvitations, NotifyFollower, NotifyAttendee, LoseConnection, FailStatement,
         NoteFault
<1>3. ASSUME UNCHANGED vars \/ \E u \in Guest, followed \in {Organiser[e] : e \in Event} : Follow(u, followed)
      PROVE  Refines
  BY <1>3, NoChangeRefines DEF vars, tables, Follow
<1>4. QED
  BY <1>1, <1>2, <1>3, InsertEventRefines, UpdateEventRefines, InvitationRefines, AttendanceRefines,
     DeleteEventRefines, Steps

\* Events.cpp changes the rows, the attendances and the guest lists only as
\* EventRows allows: no publication is undone, no deleted event comes back, and
\* a deletion takes the lists with it.
THEOREM EventsImplementsEventRows == Spec => ImplementsEventRows
<1>1. IInv /\ [Next]_vars => [Rows!Next]_(Rows!rows)
  BY NextRefines DEF IInv, Lists, Refines
<1>2. QED
  BY <1>1, InitRefines, Invariant, PTL DEF Spec, ImplementsEventRows, Rows!Spec
-----------------------------------------------------------------------------
(***************************************************************************)
(* Who may change an event: the organiser is asked for in one statement,   *)
(* and what the request does takes many more.                              *)
(***************************************************************************)
\* Past the statement that asks, the request is one of the organiser, or deletes
\* and is one of a moderator.
Right(place, r) ==
  /\ r.op = "create_event" /\ place \notin {"idle", "insert_event"} => r.user = Organiser[r.event]
  /\ r.op = "edit_event" /\ place \notin {"idle", "select_organiser"} => r.user = Organiser[r.event]
  /\ place = "delete_event" => r.user = Organiser[r.event] \/ r.user \in Moderator

Rights == \A w \in Worker : Right(pc[w], job[w])

\* The statements from which a worker comes to have a right.
Asking == {"insert_event", "select_organiser", "select_owner", "select_privilege"}

LEMMA OthersRights ==
  ASSUME Rights, NEW w \in Worker, Others(w), Right(pc'[w], job'[w])
  PROVE  Rights'
BY DEF Rights, Right, Others

LEMMA RightsMove ==
  ASSUME Threads, Threads', Rights, NEW w \in Worker, Others(w),
         Ends(w) \/ Moves(w) \/ Begins(w),
         pc[w] \in Asking => Ends(w) \/ Begins(w)
  PROVE  Rights'
<1>1. Fits(pc'[w], job'[w]) /\ Right(pc[w], job[w])
  BY DEF Threads, Rights
<1>2. CASE Ends(w)
  BY <1>2, OthersRights DEF Ends, Right
<1>3. CASE Begins(w)
  <2>1. Right(pc'[w], job'[w])
    BY <1>1, <1>3 DEF Begins, Firsts, Fits, ByEdit, ByCreate, ByDelete, ByRegister, Right
  <2>2. QED
    BY <2>1, OthersRights
<1>4. CASE Moves(w) /\ pc[w] \notin Asking
  <2>1. /\ pc[w] \notin {"idle", "insert_event", "select_organiser"}
        /\ pc'[w] # "delete_event"
    BY <1>4 DEF Moves, Asking, Leads
  <2>2. /\ job'[w].op = job[w].op /\ job'[w].user = job[w].user
        /\ job'[w].event = job[w].event
    BY <1>4, <2>1 DEF Moves, Same
  <2>3. Right(pc'[w], job'[w])
    BY <1>1, <2>1, <2>2 DEF Right
  <2>4. QED
    BY <2>3, OthersRights
<1>5. QED
  BY <1>2, <1>3, <1>4

LEMMA AskingRights ==
  ASSUME Threads, Rights, NEW w \in Worker,
         InsertEvent(w) \/ SelectOrganiser(w) \/ SelectOwner(w) \/ SelectPrivilege(w)
  PROVE  Rights'
<1>1. job[w] \in Job /\ Fits(pc[w], job[w])
  BY DEF Threads
<1>2. CASE Finish(w)
  BY <1>2, FinishEnds, OthersRights DEF Ends, Right
<1>3. ASSUME NEW e \in Event, Organiser[e] = job[w].user, pc[w] = "insert_event",
             Proceed(w, "id_returned", [job[w] EXCEPT !.event = e], owed)
      PROVE  Rights'
  <2>1. Others(w) /\ pc'[w] = "id_returned" /\ job'[w] = [job[w] EXCEPT !.event = e]
    BY <1>3, ProceedMoves
  <2>2. job'[w].user = job[w].user /\ job'[w].event = e
    BY <1>1, <2>1 DEF Job
  <2>3. QED
    BY <1>3, <2>1, <2>2, OthersRights DEF Right
<1>4. ASSUME NEW place, NEW debts, Proceed(w, place, job[w], debts),
             job[w].op \in {"edit_event", "delete_event"},
             job[w].op = "edit_event" \/ place = "delete_event" =>
               \/ job[w].user = Organiser[job[w].event]
               \/ job[w].op = "delete_event" /\ job[w].user \in Moderator
      PROVE  place # "idle" => Rights'
  <2>1. Others(w) /\ pc'[w] = place /\ job'[w] = job[w]
    BY <1>4, ProceedMoves
  <2>2. Right(place, job[w])
    BY <1>4 DEF Right
  <2>3. QED
    BY <2>1, <2>2, OthersRights
<1>5. CASE InsertEvent(w)
  BY <1>2, <1>3, <1>5, Zenon DEF InsertEvent
<1>6. CASE SelectOrganiser(w)
  <2>1. job[w].op = "edit_event"
    BY <1>1, <1>6 DEF SelectOrganiser, Fits, ByEdit
  <2>2. CASE ~Finish(w)
    <3>1. /\ job[w].user = Organiser[job[w].event]
          /\ \E place \in {"update_event", "select_name"} : \E debts : Proceed(w, place, job[w], debts)
      BY <1>6, <2>2 DEF SelectOrganiser
    <3>2. QED
      BY <1>4, <2>1, <3>1
  <2>3. QED
    BY <1>2, <2>2
<1>7. CASE SelectOwner(w)
  <2>1. job[w].op = "delete_event"
    BY <1>1, <1>7 DEF SelectOwner, Fits, ByDelete
  <2>2. CASE ~Finish(w)
    <3>1. \E place \in {"delete_event", "select_privilege"} : \E debts :
            /\ Proceed(w, place, job[w], debts)
            /\ place = "delete_event" => job[w].user = Organiser[job[w].event]
      BY <1>7, <2>2 DEF SelectOwner
    <3>2. QED
      BY <1>4, <2>1, <3>1
  <2>3. QED
    BY <1>2, <2>2
<1>8. CASE SelectPrivilege(w)
  <2>1. job[w].op = "delete_event"
    BY <1>1, <1>8 DEF SelectPrivilege, Fits, ByDelete
  <2>2. CASE ~Finish(w)
    <3>1. job[w].user \in Moderator /\ Proceed(w, "delete_event", job[w], owed)
      BY <1>8, <2>2 DEF SelectPrivilege, GoTo
    <3>2. QED
      BY <1>4, <2>1, <3>1
  <2>3. QED
    BY <1>2, <2>2
<1>9. QED
  BY <1>5, <1>6, <1>7, <1>8

LEMMA NextRights ==
  ASSUME Threads, Threads', Rights, [Next]_vars
  PROVE  Rights'
<1>1. ASSUME NEW w \in Worker,
             \/ ReceiveCreate(w) \/ ReceiveEdit(w) \/ ReceiveDelete(w)
             \/ ReceiveRegister(w) \/ ReceiveUnregister(w)
      PROVE  Rights'
  BY <1>1, ReceivesFlow, RightsMove
<1>2. ASSUME NEW w \in Worker, LoseConnection(w) \/ FailStatement(w)
      PROVE  Rights'
  <2>1. pc[w] \in Asking => Ends(w) \/ Begins(w)
    BY <1>2, FaultFlow DEF Moves, Leads, Asking
  <2>2. QED
    BY <1>2, <2>1, FaultFlow, RightsMove
<1>3. ASSUME NEW w \in Worker, Handle(w)
      PROVE  Rights'
  <2>1. CASE InsertEvent(w) \/ SelectOrganiser(w) \/ SelectOwner(w) \/ SelectPrivilege(w)
    BY <2>1, AskingRights
  <2>2. CASE ~(InsertEvent(w) \/ SelectOrganiser(w) \/ SelectOwner(w) \/ SelectPrivilege(w))
    <3>1. pc[w] \notin Asking
      BY <1>3, <2>2
         DEF Handle, Asking, ReturnId, Announce, UpdateEvent, SelectName, SelectIsPublic,
             InsertInvitation, RefuseInvitation, DeleteInvitation, SelectInvitations, SelectFollowers,
             NotifyFollower, SelectAttendees, NotifyAttendee, SelectPublicity, SelectInvitation,
             InsertAttendance, DeleteAttendance, DeleteEvent, FindConnectionDown, Respond
    <3>2. QED
      BY <1>3, <3>1, HandleFlow, RightsMove
  <2>3. QED
    BY <2>1, <2>2
<1>4. ASSUME UNCHANGED vars \/ \E u \in Guest, followed \in {Organiser[e] : e \in Event} : Follow(u, followed)
      PROVE  Rights'
  <2>1. UNCHANGED <<pc, job>>
    BY <1>4 DEF vars, Follow, threads
  <2>2. QED
    BY <2>1 DEF Rights
<1>5. QED
  BY <1>1, <1>2, <1>3, <1>4 DEF Next

\* Worker w serves a request about event e of its organiser, or of a moderator who
\* deletes it.
MayChange(w, e) ==
  /\ pc[w] = "insert_event" \/ job[w].event = e
  /\ \/ job[w].op \in {"create_event", "edit_event", "delete_event"} /\ job[w].user = Organiser[e]
     \/ job[w].op = "delete_event" /\ job[w].user \in Moderator

\* The row and the guest list change at the hands of such a request; an attendance at
\* those of the attendee, or because the event is deleted.
ByRight == \A e \in Event :
  /\ \/ row'[e] # row[e]
     \/ (e \in public') # (e \in public)
     \/ ListOf(invited', e) # ListOf(invited, e)
     => \E w \in Worker : MayChange(w, e)
  /\ \A u \in User : (<<e, u>> \in attending') # (<<e, u>> \in attending) =>
       \/ \E w \in Worker : /\ job[w].op \in {"register_attendance", "unregister_attendance"}
                            /\ job[w].user = u /\ job[w].event = e
       \/ row'[e] = "deleted" /\ \E w \in Worker : MayChange(w, e)

LEMMA StepByRight ==
  ASSUME Threads, TablesOK, Rights, [Next]_vars
  PROVE  ByRight
<1>1. CASE UNCHANGED <<row, public, invited, attending>>
  BY <1>1 DEF ByRight, ListOf
\* A statement that changes the row and the lists of one event.
<1>2. ASSUME NEW w \in Worker, NEW e \in Event, MayChange(w, e), attending' = attending,
             \A d \in Event \ {e} : /\ row'[d] = row[d] /\ (d \in public') = (d \in public)
                                    /\ ListOf(invited', d) = ListOf(invited, d)
      PROVE  ByRight
  BY <1>2 DEF ByRight
<1>3. ASSUME NEW w \in Worker, InsertEvent(w)
      PROVE  ByRight
  <2>1. CASE UNCHANGED <<row, public>>
    BY <1>1, <1>3, <2>1 DEF InsertEvent
  <2>2. CASE ~UNCHANGED <<row, public>>
    <3>1. PICK e \in Event : /\ Organiser[e] = job[w].user
                             /\ \E v : row' = [row EXCEPT ![e] = v]
                             /\ public' = public \/ public' = public \cup {e}
      BY <1>3, <2>2 DEF InsertEvent
    <3>2. job[w].op = "create_event" /\ pc[w] = "insert_event"
      BY <1>3 DEF InsertEvent, Threads, Fits, ByCreate
    <3>3. UNCHANGED <<invited, attending>>
      BY <1>3 DEF InsertEvent
    <3>4. QED
      BY <1>2, <3>1, <3>2, <3>3 DEF MayChange, TablesOK, ListOf
  <2>3. QED
    BY <2>1, <2>2
<1>4. ASSUME NEW w \in Worker, UpdateEvent(w)
      PROVE  ByRight
  <2> DEFINE e == job[w].event
  <2>1. job[w].op = "edit_event" /\ e \in Event /\ pc[w] = "update_event"
    BY <1>4 DEF UpdateEvent, Threads, Fits, ByEdit
  <2>2. MayChange(w, e)
    BY <2>1 DEF Rights, Right, MayChange
  <2>3. /\ row' \in {row, [row EXCEPT ![e] = "published"]}
        /\ public' \in {public, public \cup {e}, public \ {e}}
        /\ UNCHANGED <<invited, attending>>
    <3>1. job[w].form.public \in {"unsent", "private", "public"}
      BY DEF Threads, Job, Form
    <3>2. QED
      BY <1>4, <3>1 DEF UpdateEvent
  <2> HIDE DEF e
  <2>4. QED
    BY <1>2, <2>1, <2>2, <2>3 DEF TablesOK, ListOf
<1>5. ASSUME NEW w \in Worker, InsertInvitation(w) \/ DeleteInvitation(w)
      PROVE  ByRight
  <2> DEFINE e == job[w].event
  <2>1. /\ job[w].op \in {"create_event", "edit_event"} /\ e \in Event
        /\ pc[w] \in {"insert_invitation", "delete_invitation"}
    BY <1>5 DEF InsertInvitation, DeleteInvitation, Threads, Fits, ByEdit
  <2>2. MayChange(w, e)
    BY <2>1 DEF Rights, Right, MayChange
  <2>3. \E u : invited' \in {invited \cup {<<e, u>>}, invited \ {<<e, u>>}}
    BY <1>5, Zenon DEF InsertInvitation, DeleteInvitation
  <2>4. UNCHANGED <<row, public, attending>>
    BY <1>5, Zenon DEF InsertInvitation, DeleteInvitation
  <2> HIDE DEF e
  <2>5. \A d \in Event \ {e} : ListOf(invited', d) = ListOf(invited, d)
    BY <2>3 DEF ListOf
  <2>6. QED
    BY <1>2, <2>1, <2>2, <2>4, <2>5
<1>6. ASSUME NEW w \in Worker, InsertAttendance(w) \/ DeleteAttendance(w)
      PROVE  ByRight
  <2>1. job[w].op \in {"register_attendance", "unregister_attendance"}
    BY <1>6 DEF InsertAttendance, DeleteAttendance, Threads, Fits, ByRegister
  <2>2. \A p : p # <<job[w].event, job[w].user>> => (p \in attending') = (p \in attending)
    BY <1>6 DEF InsertAttendance, DeleteAttendance
  <2>3. UNCHANGED <<row, public, invited>>
    BY <1>6 DEF InsertAttendance, DeleteAttendance
  <2>4. QED
    BY <2>1, <2>2, <2>3 DEF ByRight, ListOf
<1>7. ASSUME NEW w \in Worker, DeleteEvent(w)
      PROVE  ByRight
  <2> DEFINE e == job[w].event
  <2>1. CASE ~Here(e)
    BY <1>1, <1>7, <2>1 DEF DeleteEvent
  <2>2. CASE Here(e)
    <3>1. job[w].op = "delete_event" /\ e \in Event /\ pc[w] = "delete_event"
      BY <1>7 DEF DeleteEvent, Threads, Fits, ByDelete
    <3>2. MayChange(w, e)
      BY <3>1 DEF Rights, Right, MayChange
    <3>3. /\ row' = [row EXCEPT ![e] = "deleted"]
          /\ public' = public \ {e}
          /\ invited' = {p \in invited : p[1] # e}
          /\ attending' = {p \in attending : p[1] # e}
      BY <1>7, <2>2 DEF DeleteEvent
    <3> HIDE DEF e
    <3>4. row'[e] = "deleted" /\ \A d \in Event \ {e} : row'[d] = row[d]
      BY <3>1, <3>3 DEF TablesOK
    <3>5. \A d \in Event \ {e}, u \in User :
            /\ (<<d, u>> \in invited') = (<<d, u>> \in invited)
            /\ (<<d, u>> \in attending') = (<<d, u>> \in attending)
      BY <3>3
    <3>6. \A d \in Event \ {e} : (d \in public') = (d \in public) /\ ListOf(invited', d) = ListOf(invited, d)
      BY <3>3, <3>5 DEF ListOf
    <3>7. QED
      BY <3>2, <3>4, <3>5, <3>6 DEF ByRight
  <2>3. QED
    BY <2>1, <2>2
<1>8. ASSUME NEW w \in Worker,
             \/ Quiet(w) \/ Announce(w) \/ SelectInvitations(w) \/ NotifyFollower(w)
             \/ NotifyAttendee(w) \/ LoseConnection(w) \/ FailStatement(w)
      PROVE  ByRight
  <2>1. UNCHANGED tables
    BY <1>8, QuietChangesNothing
       DEF Announce, SelectInvitations, NotifyFollower, NotifyAttendee, LoseConnection,
           FailStatement, NoteFault
  <2>2. QED
    BY <1>1, <2>1 DEF tables
<1>9. ASSUME UNCHANGED vars \/ \E u \in Guest, followed \in {Organiser[e] : e \in Event} : Follow(u, followed)
      PROVE  ByRight
  <2>1. UNCHANGED <<row, public, invited, attending>>
    BY <1>9 DEF vars, tables, Follow
  <2>2. QED
    BY <1>1, <2>1
<1>10. QED
  BY <1>3, <1>4, <1>5, <1>6, <1>7, <1>8, <1>9, Steps

\* No interleaving, retry or fault lets a request past the check of the organiser or
\* of the privilege: only the organiser changes an event and its guest list, only the
\* organiser and the moderators delete it, and an attendance is its attendee's affair
\* for as long as the event is there.
THEOREM ChangedByRight == Spec => [][ByRight]_vars
<1>1. Init => Rights
  BY DEF Init, NoJob, Rights, Right
<1>2. IInv /\ IInv' /\ Rights /\ [Next]_vars => Rights'
  BY NextRights DEF IInv
<1>3. IInv /\ Rights /\ [Next]_vars => ByRight
  BY StepByRight DEF IInv, Lists
<1>4. QED
  BY <1>1, <1>2, <1>3, Invariant, PTL DEF Spec
-----------------------------------------------------------------------------
(***************************************************************************)
(* Every handler ends: each of its statements, and each fault, brings it   *)
(* nearer to its response, in the order of the code and, within a loop, in *)
(* what the loop has left.                                                 *)
(***************************************************************************)
Rank(p) ==
  CASE p \in {"insert_event", "select_organiser"}                     -> 13
    [] p \in {"id_returned", "update_event"}                          -> 12
    [] p = "select_name"                                              -> 11
    [] p = "select_is_public"                                         -> 10
    [] p \in {"insert_invitation", "select_invitations"}              -> 9
    [] p \in {"delete_invitation", "announce", "select_owner"}        -> 8
    [] p \in {"select_followers", "select_privilege"}                 -> 7
    [] p \in {"notify_follower", "delete_event"}                      -> 6
    [] p = "select_attendees"                                         -> 5
    [] p \in {"notify_attendee", "select_publicity"}                  -> 4
    [] p = "select_invitation"                                        -> 3
    [] p \in {"insert_attendance", "delete_attendance"}               -> 2
    [] p = "respond"                                                  -> 1

Unmoved(w) == pc'[w] = pc[w] /\ job'[w] = job[w] /\ attempt'[w] = attempt[w]

\* The next round of the same loop, with less to do.
NextRound(w) ==
  /\ pc'[w] = pc[w]
  /\ job'[w].todo \subseteq job[w].todo /\ job'[w].second \subseteq job[w].second
  /\ job'[w].todo # job[w].todo \/ job'[w].second # job[w].second

\* create_event learns that the connection is down, before it mails.
FindsOut(w) == pc'[w] = pc[w] /\ ~job[w].down /\ job'[w].down

\* Back to the pool, the one re-run, a later statement, or the next round.
Advances(w) ==
  \/ pc'[w] = "idle"
  \/ attempt[w] = 1 /\ attempt'[w] = 2
  \/ attempt'[w] = attempt[w] /\ (Rank(pc'[w]) < Rank(pc[w]) \/ NextRound(w) \/ FindsOut(w))

HandlersAdvance == \A w \in Worker :
  /\ Handle(w) => Advances(w)
  /\ pc[w] # "idle" => Unmoved(w) \/ Advances(w)

LEMMA LeadsDown ==
  ASSUME NEW p, NEW r, NEW q, Leads(p, r, q)
  PROVE  \/ Rank(q) < Rank(p)
         \/ q = p /\ p \in {"insert_invitation", "delete_invitation", "notify_follower",
                           "notify_attendee", "announce"}
BY DEF Leads, Rank

\* A round of the loop over the added addresses.
LEMMA AddNextAdvances ==
  ASSUME Threads, NEW w \in Worker, NEW u \in job[w].todo, pc[w] = "insert_invitation", AddNext(w, u)
  PROVE  Advances(w)
<1>1. job[w] \in Job /\ job[w].todo \in SUBSET User /\ job[w].second \in SUBSET User
  BY DEF Threads, Job
<1>2. ASSUME NEW r \in Job, NEW left \in SUBSET User, Add(w, r, left)
      PROVE  \/ pc'[w] = "idle"
             \/ /\ attempt' = attempt
                /\ \/ pc'[w] \in {"announce", "delete_invitation", "select_attendees"}
                   \/ pc'[w] = "insert_invitation" /\ job'[w] = [r EXCEPT !.todo = left]
  <2>1. pc \in [Worker -> Place] /\ job \in [Worker -> Job]
    BY DEF Threads
  <2>2. CASE left # {}
    BY <1>2, <2>1, <2>2 DEF Add, Proceed
  <2>3. CASE left = {} /\ r.op = "edit_event"
    BY <1>2, <2>1, <2>3 DEF Add, Remove, Proceed
  <2>4. CASE left = {} /\ r.op # "edit_event"
    BY <1>2, <2>1, <2>4 DEF Add, Proceed, Finish
  <2>5. QED
    BY <2>2, <2>3, <2>4
<1>3. \A q \in {"announce", "delete_invitation", "select_attendees"} : Rank(q) < Rank("insert_invitation")
  BY DEF Rank
<1>4. CASE u \in job[w].second
  <2> DEFINE second == job[w].second \ {u}
             r == [job[w] EXCEPT !.second = second]
  <2>1. Add(w, r, job[w].todo)
    BY <1>4 DEF AddNext
  <2>2. r \in Job /\ r.second = second /\ [r EXCEPT !.todo = job[w].todo].second = second
        /\ [r EXCEPT !.todo = job[w].todo].todo = job[w].todo
    BY <1>1 DEF Job
  <2> HIDE DEF r
  <2>3. \/ pc'[w] = "idle"
        \/ /\ attempt' = attempt
           /\ \/ pc'[w] \in {"announce", "delete_invitation", "select_attendees"}
              \/ /\ pc'[w] = "insert_invitation"
                 /\ job'[w].todo = job[w].todo /\ job'[w].second = second
    BY <1>1, <1>2, <2>1, <2>2
  <2>4. second \subseteq job[w].second /\ second # job[w].second
    BY <1>4
  <2> HIDE DEF second
  <2>5. QED
    BY <1>3, <2>3, <2>4 DEF Advances, NextRound
<1>5. CASE u \notin job[w].second
  <2> DEFINE left == job[w].todo \ {u}
  <2>1. Add(w, job[w], left) /\ left \in SUBSET User
    BY <1>1, <1>5 DEF AddNext
  <2>2. left \subseteq job[w].todo /\ left # job[w].todo
    OBVIOUS
  <2> HIDE DEF left
  <2>3. [job[w] EXCEPT !.todo = left].second = job[w].second /\ [job[w] EXCEPT !.todo = left].todo = left
    BY <1>1 DEF Job
  <2>4. \/ pc'[w] = "idle"
        \/ /\ attempt' = attempt
           /\ \/ pc'[w] \in {"announce", "delete_invitation", "select_attendees"}
              \/ /\ pc'[w] = "insert_invitation"
                 /\ job'[w].todo = left /\ job'[w].second = job[w].second
    BY <1>1, <1>2, <2>1, <2>3
  <2>5. QED
    BY <1>3, <2>2, <2>4 DEF Advances, NextRound
<1>6. QED
  BY <1>4, <1>5

\* A round of one of the other loops.
LEMMA LoopAdvances ==
  ASSUME Threads, NEW w \in Worker, NEW u \in job[w].todo, NEW place, NEW debts,
         Proceed(w, place, [job[w] EXCEPT !.todo = @ \ {u}], debts),
         place = pc[w] \/ Rank(place) < Rank(pc[w])
  PROVE  Advances(w)
<1> DEFINE left == job[w].todo \ {u}
<1>1. job[w] \in Job /\ job \in [Worker -> Job] /\ pc \in [Worker -> Place]
  BY DEF Threads
<1>2. left \subseteq job[w].todo /\ left # job[w].todo
  OBVIOUS
<1>3. pc'[w] = place /\ attempt' = attempt /\ job'[w] = [job[w] EXCEPT !.todo = left]
  BY <1>1 DEF Proceed
<1> HIDE DEF left
<1>4. job'[w].todo = left /\ job'[w].second = job[w].second
  BY <1>1, <1>3 DEF Job
<1>5. QED
  BY <1>2, <1>3, <1>4 DEF Advances, NextRound

LEMMA RestartAdvances ==
  ASSUME Threads, NEW w \in Worker, Restart(w) \/ Finish(w)
  PROVE  Advances(w)
<1>1. pc \in [Worker -> Place] /\ attempt \in [Worker -> {1, 2}]
  BY DEF Threads
<1>2. CASE Finish(w)
  BY <1>1, <1>2 DEF Finish, Advances
<1>3. CASE Restart(w)
  BY <1>1, <1>2, <1>3 DEF Restart, Advances
<1>4. QED
  BY <1>2, <1>3

\* No statement but a re-run touches the count of attempts, unless it ends the request.
LEMMA AttemptKept ==
  ASSUME Threads, NEW w \in Worker, Handle(w),
         ~(InsertInvitation(w) \/ RefuseInvitation(w) \/ FindConnectionDown(w))
  PROVE  Finish(w) \/ attempt' = attempt
<1> DEFINE Good == Finish(w) \/ attempt' = attempt
<1>1. Finish(w) => Good
  OBVIOUS
<1>2. \A place, r, debts : Proceed(w, place, r, debts) => Good
  BY DEF Proceed
<1>3. \A place : GoTo(w, place) => Good
  BY <1>2 DEF GoTo
<1>4. \A r, left : Remove(w, r, left) => Good
  BY <1>2 DEF Remove
<1>5. \A r, left : Add(w, r, left) => Good
  BY <1>1, <1>2, <1>4 DEF Add
<1>6. \A r : Known(w, r) => Good
  BY <1>2, <1>5 DEF Known
<1>7. Named(w) => Good
  BY <1>3, <1>6 DEF Named
<1>8. \A left, debts : TellAttendees(w, left, debts) => Good
  BY <1>2 DEF TellAttendees
<1>9. \A left : TellFollowers(w, left) => Good
  BY <1>2 DEF TellFollowers
<1>0. Good => Finish(w) \/ attempt' = attempt
  OBVIOUS
<1> HIDE DEF Good
<1>10. CASE InsertEvent(w) \/ ReturnId(w) \/ Announce(w) \/ SelectOrganiser(w)
  BY <1>0, <1>1, <1>2, <1>3, <1>5, <1>10 DEF InsertEvent, ReturnId, Announce, SelectOrganiser
<1>11. CASE UpdateEvent(w) \/ SelectName(w) \/ SelectIsPublic(w) \/ DeleteInvitation(w) \/ SelectInvitations(w)
  BY <1>0, <1>1, <1>3, <1>4, <1>6, <1>7, <1>11
     DEF UpdateEvent, SelectName, SelectIsPublic, DeleteInvitation, SelectInvitations
<1>12. CASE SelectFollowers(w) \/ NotifyFollower(w) \/ SelectAttendees(w) \/ NotifyAttendee(w)
  BY <1>0, <1>8, <1>9, <1>12 DEF SelectFollowers, NotifyFollower, SelectAttendees, NotifyAttendee
<1>13. CASE SelectPublicity(w) \/ SelectInvitation(w) \/ InsertAttendance(w) \/ DeleteAttendance(w)
  BY <1>0, <1>1, <1>2, <1>3, <1>13 DEF SelectPublicity, SelectInvitation, InsertAttendance, DeleteAttendance
<1>14. CASE SelectOwner(w) \/ SelectPrivilege(w) \/ DeleteEvent(w) \/ Respond(w)
  BY <1>0, <1>1, <1>2, <1>3, <1>14 DEF SelectOwner, SelectPrivilege, DeleteEvent, Respond
<1>15. QED
  BY <1>10, <1>11, <1>12, <1>13, <1>14 DEF Handle

LEMMA AtAnnounce ==
  ASSUME NEW w \in Worker, Handle(w), pc[w] = "announce"
  PROVE  Announce(w)
BY DEF Handle, InsertEvent, ReturnId, SelectOrganiser, UpdateEvent, SelectName, SelectIsPublic,
   InsertInvitation, RefuseInvitation, DeleteInvitation, SelectInvitations, SelectFollowers,
   NotifyFollower, SelectAttendees, NotifyAttendee, SelectPublicity, SelectInvitation,
   InsertAttendance, DeleteAttendance, SelectOwner, SelectPrivilege, DeleteEvent,
   FindConnectionDown, Respond

LEMMA HandleAdvances ==
  ASSUME Threads, NEW w \in Worker, Handle(w)
  PROVE  Advances(w)
<1>1. CASE InsertInvitation(w) \/ RefuseInvitation(w)
  BY <1>1, AddNextAdvances, RestartAdvances DEF InsertInvitation, RefuseInvitation
<1>2. CASE FindConnectionDown(w)
  BY <1>2, RestartAdvances DEF FindConnectionDown
<1>3. CASE DeleteInvitation(w)
  <2>1. PICK u \in job[w].todo : Remove(w, job[w], job[w].todo \ {u})
    BY <1>3 DEF DeleteInvitation
  <2> DEFINE place == IF job[w].todo \ {u} = {} THEN "select_attendees" ELSE "delete_invitation"
  <2>2. Proceed(w, place, [job[w] EXCEPT !.todo = @ \ {u}], owed)
    BY <2>1 DEF Remove
  <2>3. place = pc[w] \/ Rank(place) < Rank(pc[w])
    BY <1>3 DEF DeleteInvitation, Rank
  <2> HIDE DEF place
  <2>4. QED
    BY <2>1, <2>2, <2>3, LoopAdvances
<1>4. CASE NotifyFollower(w)
  <2>1. PICK u \in job[w].todo : TellFollowers(w, job[w].todo \ {u})
    BY <1>4 DEF NotifyFollower
  <2> DEFINE after == IF job[w].op = "edit_event" THEN "select_attendees" ELSE "respond"
             place == IF job[w].todo \ {u} = {} THEN after ELSE "notify_follower"
  <2>2. Proceed(w, place, [job[w] EXCEPT !.todo = @ \ {u}], owed)
    BY <2>1 DEF TellFollowers
  <2>3. place = pc[w] \/ Rank(place) < Rank(pc[w])
    BY <1>4 DEF NotifyFollower, Rank
  <2> HIDE DEF place
  <2>4. QED
    BY <2>1, <2>2, <2>3, LoopAdvances
<1>5. CASE NotifyAttendee(w)
  <2>1. PICK u \in job[w].todo :
          TellAttendees(w, job[w].todo \ {u}, [owed EXCEPT ![w] = @ \ {u}])
    BY <1>5 DEF NotifyAttendee
  <2> DEFINE place == IF job[w].todo \ {u} = {} THEN "respond" ELSE "notify_attendee"
             debts == [owed EXCEPT ![w] = @ \ {u}]
  <2>2. Proceed(w, place, [job[w] EXCEPT !.todo = @ \ {u}], debts)
    BY <2>1 DEF TellAttendees
  <2>3. place = pc[w] \/ Rank(place) < Rank(pc[w])
    BY <1>5 DEF NotifyAttendee, Rank
  <2> HIDE DEF place, debts
  <2>4. QED
    BY <2>1, <2>2, <2>3, LoopAdvances
<1>6. CASE /\ pc[w] \notin {"insert_invitation", "delete_invitation", "notify_follower", "notify_attendee"}
           /\ ~FindConnectionDown(w)
  <2>1. Ends(w) \/ Moves(w)
    BY <1>6, HandleFlow
  <2>2. pc'[w] = "idle" \/ attempt' = attempt
    BY <1>6, AttemptKept, FinishEnds DEF InsertInvitation, RefuseInvitation, Ends
  <2>3. pc[w] = "announce" => pc'[w] # "announce"
    BY AnnounceLeaves, AtAnnounce
  <2>4. Moves(w) => Rank(pc'[w]) < Rank(pc[w])
    BY <1>6, <2>3, LeadsDown DEF Moves
  <2>5. QED
    BY <2>1, <2>2, <2>4 DEF Ends, Advances
<1>7. QED
  <2>1. pc[w] = "insert_invitation" => InsertInvitation(w) \/ RefuseInvitation(w)
    BY DEF Handle, InsertEvent, ReturnId, Announce, SelectOrganiser, UpdateEvent, SelectName, SelectIsPublic,
       DeleteInvitation, SelectInvitations, SelectFollowers, NotifyFollower, SelectAttendees, NotifyAttendee,
       SelectPublicity, SelectInvitation, InsertAttendance, DeleteAttendance, SelectOwner, SelectPrivilege,
       DeleteEvent, FindConnectionDown, Respond
  <2>2. /\ pc[w] = "delete_invitation" => DeleteInvitation(w)
        /\ pc[w] = "notify_follower" => NotifyFollower(w)
        /\ pc[w] = "notify_attendee" => NotifyAttendee(w)
    BY DEF Handle, InsertEvent, ReturnId, Announce, SelectOrganiser, UpdateEvent, SelectName, SelectIsPublic,
       InsertInvitation, RefuseInvitation, SelectInvitations, SelectFollowers, SelectAttendees,
       DeleteInvitation, NotifyFollower, NotifyAttendee,
       SelectPublicity, SelectInvitation, InsertAttendance, DeleteAttendance, SelectOwner, SelectPrivilege,
       DeleteEvent, FindConnectionDown, Respond
  <2>3. QED
    BY <1>1, <1>2, <1>3, <1>4, <1>5, <1>6, <2>1, <2>2

LEMMA FaultAdvances ==
  ASSUME Threads, NEW w \in Worker, LoseConnection(w) \/ FailStatement(w)
  PROVE  Advances(w)
<1>1. CASE FailStatement(w) /\ Swallows(w) /\ \E u \in job[w].todo : AddNext(w, u)
  BY <1>1, AddNextAdvances DEF Swallows, FailStatement
<1>2. CASE Swallows(w) /\ Proceed(w, "announce", [job[w] EXCEPT !.todo = {}, !.down = TRUE], owed)
  <2>1. Rank("announce") < Rank("insert_invitation")
    BY DEF Rank
  <2>2. /\ pc'[w] = "announce" /\ attempt' = attempt
        /\ job'[w] = [job[w] EXCEPT !.todo = {}, !.down = TRUE] /\ job[w] \in Job
    BY <1>2 DEF Proceed, Threads
  <2>3. job'[w].down
    BY <2>2 DEF Job
  <2>4. pc[w] = "insert_invitation" \/ (pc[w] = "announce" /\ ~job[w].down)
    BY <1>2 DEF Swallows
  <2>5. QED
    BY <2>1, <2>2, <2>3, <2>4 DEF Advances, FindsOut
<1>3. QED
  BY <1>1, <1>2, RestartAdvances DEF LoseConnection, FailStatement

\* A step of one worker leaves the requests of the others where they are.
LEMMA OthersUnmoved ==
  ASSUME Threads, NEW w \in Worker, NEW v \in Worker \ {w},
         \/ Handle(w) \/ LoseConnection(w) \/ FailStatement(w)
         \/ ReceiveCreate(w) \/ ReceiveEdit(w) \/ ReceiveDelete(w)
         \/ ReceiveRegister(w) \/ ReceiveUnregister(w)
  PROVE  Unmoved(v)
<1>1. pc'[v] = pc[v] /\ job'[v] = job[v]
  BY HandleFlow, FaultFlow, ReceivesFlow DEF Others
<1>2. attempt'[v] = attempt[v]
  <2>1. Finish(w) \/ Restart(w) => attempt'[v] = attempt[v]
    BY DEF Threads, Finish, Restart
  <2>2. \A u : AddNext(w, u) => attempt'[v] = attempt[v]
    BY <2>1 DEF AddNext, Add, Remove, Proceed
  <2>3. CASE LoseConnection(w) \/ FailStatement(w)
    BY <2>1, <2>2, <2>3 DEF LoseConnection, FailStatement, Proceed
  <2>4. CASE InsertInvitation(w) \/ RefuseInvitation(w) \/ FindConnectionDown(w)
    BY <2>1, <2>2, <2>4 DEF InsertInvitation, RefuseInvitation, FindConnectionDown
  <2>5. CASE Handle(w) /\ ~(InsertInvitation(w) \/ RefuseInvitation(w) \/ FindConnectionDown(w))
    BY <2>1, <2>5, AttemptKept
  <2>6. CASE \/ ReceiveCreate(w) \/ ReceiveEdit(w) \/ ReceiveDelete(w)
             \/ ReceiveRegister(w) \/ ReceiveUnregister(w)
    BY <2>6 DEF ReceiveCreate, ReceiveEdit, ReceiveDelete, ReceiveRegister, ReceiveUnregister, Receive
  <2>7. QED
    BY <2>3, <2>4, <2>5, <2>6
<1>3. QED
  BY <1>1, <1>2 DEF Unmoved

\* The five handlers wait for nobody and their loops are over finite lists: each
\* statement that a worker executes, and each fault, either ends the request, starts
\* its one re-run, leads to a later statement of the handler, leaves a loop less to do
\* or is create_event's one discovery of a lost connection, and no other worker sets it back.  With finitely many users there are finitely
\* many such steps.  (That they are executed is fairness, which TLC uses.)
THEOREM HandlersEnd == Spec => [][HandlersAdvance]_vars
<1>1. ASSUME Threads, [Next]_vars, NEW v \in Worker, pc[v] # "idle"
      PROVE  Unmoved(v) \/ Advances(v)
  <2>1. CASE UNCHANGED vars \/ \E u \in Guest, followed \in {Organiser[e] : e \in Event} : Follow(u, followed)
    BY <2>1 DEF Follow, threads, vars, Unmoved
  <2>2. ASSUME NEW w \in Worker,
               \/ Handle(w) \/ LoseConnection(w) \/ FailStatement(w)
               \/ ReceiveCreate(w) \/ ReceiveEdit(w) \/ ReceiveDelete(w)
               \/ ReceiveRegister(w) \/ ReceiveUnregister(w)
        PROVE  Unmoved(v) \/ Advances(v)
    <3>1. CASE v # w
      BY <1>1, <2>2, <3>1, OthersUnmoved
    <3>2. CASE v = w
      BY <1>1, <2>2, <3>2, HandleAdvances, FaultAdvances
         DEF ReceiveCreate, ReceiveEdit, ReceiveDelete, ReceiveRegister, ReceiveUnregister, Receive
    <3>3. QED
      BY <3>1, <3>2
  <2>3. QED
    BY <1>1, <2>1, <2>2 DEF Next
<1>2. Threads /\ [Next]_vars => HandlersAdvance
  BY <1>1, HandleAdvances DEF HandlersAdvance
<1>3. IInv => Threads
  BY DEF IInv
<1>4. QED
  BY <1>2, <1>3, Invariant, PTL DEF Spec
=============================================================================
