-------------------------- MODULE DiscussionProofs --------------------------
(***************************************************************************)
(* The discussion tables, for every number of users, events, workers, ids  *)
(* and faults.                                                             *)
(***************************************************************************)
EXTENDS Discussion, FiniteSetTheorems, TLAPS

-----------------------------------------------------------------------------
(***************************************************************************)
(* The inductive invariant.                                                *)
(***************************************************************************)

\* AUTO_INCREMENT ids identify rows and are never handed out twice; a comment
\* that does not exist yet has no replies and the column's default count.
FreshIds ==
  /\ \A row \in comments : row.id < nextComment
  /\ \A row \in replies : row.id < nextReply
  /\ \A a, b \in comments : a.id = b.id => a = b
  /\ \A a, b \in replies : a.id = b.id => a = b
  /\ \A c \in CommentId : c >= nextComment => replyCount[c] = 0

Authorising == {"select_attendance", "select_invitation"}

\* The request a busy worker serves names what its statements need, and what
\* post_reply remembers of its comment, and delete_reply of its reply, stays
\* true of the row while it is there.
JobOK(w) ==
  /\ pc[w] # "idle" => job[w].op # "none" /\ job[w].user \in User
  /\ job[w].op = "post_comment" => job[w].event \in Event
  /\ job[w].op \in {"post_reply", "delete_comment"} => job[w].comment \in CommentId
  /\ pc[w] \in {"select_event", "insert_comment"} => job[w].op = "post_comment"
  /\ pc[w] \in {"select_comment", "insert_reply"} => job[w].op = "post_reply"
  /\ pc[w] \in {"delete_comment", "delete_replies"} => job[w].op = "delete_comment"
  /\ pc[w] \in {"select_reply", "select_privilege", "delete_reply"} => job[w].op = "delete_reply"
  /\ pc[w] \in Authorising => job[w].op \in {"post_comment", "post_reply"}
  /\ pc[w] \in Authorising \cup {"insert_reply"} => job[w].event \in Event
  /\ pc[w] = "recount" => job[w].comment \in CommentId
  /\ pc[w] \in {"select_privilege", "delete_reply"} => job[w].comment \in CommentId
  /\ pc[w] \in Authorising \cup {"insert_reply"} /\ job[w].op = "post_reply" =>
       /\ job[w].comment < nextComment
       /\ \A row \in comments : row.id = job[w].comment => row.event = job[w].event
  /\ pc[w] = "delete_replies" =>
       job[w].comment < nextComment /\ \A row \in comments : row.id # job[w].comment
  /\ pc[w] \in {"select_privilege", "delete_reply"} =>
       /\ job[w].reply \in ReplyId /\ job[w].reply < nextReply
       /\ \A row \in replies : row.id = job[w].reply => row.parent = job[w].comment

\* Whoever can view an event is in the record, and nobody attends or is
\* invited to an event that is not there.
Viewers ==
  /\ \A e \in Event, u \in User : CanView(e, u) => <<e, u>> \in admitted
  /\ \A p \in attending \cup invited : Rows!Here(p[1])

\* The event has been published; it may be gone since.
Published(e) == visibility[e] \notin {"none", "draft"}

\* What the permission checks of a worker have established so far.
Checked(w) ==
  /\ pc[w] \in Authorising =>
       /\ Published(job[w].event)
       /\ job[w].visibility = "public" => <<job[w].event, job[w].user>> \in admitted
  /\ pc[w] \in {"insert_comment", "insert_reply"} =>
       <<job[w].event, job[w].user>> \in admitted

\* A worker about to delete a reply acts for its author or for a moderator.
Entitled(w) ==
  pc[w] = "delete_reply" =>
    \/ job[w].user \in moderators \cup demoted
    \/ \A row \in replies : row.id = job[w].reply => row.user = job[w].user

\* Workers past the limit check that have not inserted yet, and workers that
\* have inserted and not recounted yet.
Cleared(c) ==
  {w \in Worker : /\ pc[w] \in Authorising \cup {"insert_reply"}
                  /\ job[w].op = "post_reply"
                  /\ job[w].comment = c}
Inserted(c) ==
  {w \in Worker : pc[w] = "recount" /\ job[w].op = "post_reply" /\ job[w].comment = c}

\* The count lags behind by at most the inserts it has not seen; the replies
\* and those that will still be inserted stay under the limit.
Lag(c) ==
  Live(c) => Cardinality(RepliesOf(c)) <= replyCount[c] + Cardinality(Inserted(c)) + faults
Room(c) ==
  Cardinality(RepliesOf(c)) + Cardinality(Cleared(c))
    <= MaxReplies - 1 + Cardinality(Worker) + faults

Tables == TypeOK /\ IsFiniteSet(replies) /\ FreshIds /\ RepliesBelong /\ \A w \in Worker : JobOK(w)
Counts == CountSettled /\ \A c \in CommentId : Lag(c) /\ Room(c)
Rights == Viewers /\ AuthorsWereAdmitted /\ \A w \in Worker : Checked(w) /\ Entitled(w)
-----------------------------------------------------------------------------
(***************************************************************************)
(* Types.                                                                  *)
(***************************************************************************)
\* The request a worker starts with is a job.
LEMMA ReceiveJob ==
  /\ NoJob \in Job
  /\ \A u \in User, e \in Event :
       [NoJob EXCEPT !.op = "post_comment", !.user = u, !.event = e] \in Job
  /\ \A u \in User, c \in CommentId :
       /\ [NoJob EXCEPT !.op = "post_reply", !.user = u, !.comment = c] \in Job
       /\ [NoJob EXCEPT !.op = "delete_comment", !.user = u, !.comment = c] \in Job
  /\ \A u \in User, r \in ReplyId :
       [NoJob EXCEPT !.op = "delete_reply", !.user = u, !.reply = r] \in Job
<1>1. NoJob \in Job
  BY DiscussionAssumptions DEF NoJob, Job, Operation, Visibility
<1>2. ASSUME NEW u \in User, NEW e \in Event
      PROVE  [NoJob EXCEPT !.op = "post_comment", !.user = u, !.event = e] \in Job
  BY <1>1 DEF Job, Operation
<1>3. ASSUME NEW u \in User, NEW c \in CommentId
      PROVE  /\ [NoJob EXCEPT !.op = "post_reply", !.user = u, !.comment = c] \in Job
             /\ [NoJob EXCEPT !.op = "delete_comment", !.user = u, !.comment = c] \in Job
  <2>1. c \in 0..MaxCommentId
    BY DiscussionAssumptions DEF CommentId
  <2>2. QED
    BY <1>1, <2>1 DEF Job, Operation
<1>4. ASSUME NEW u \in User, NEW r \in ReplyId
      PROVE  [NoJob EXCEPT !.op = "delete_reply", !.user = u, !.reply = r] \in Job
  <2>1. r \in 0..MaxReplyId
    BY DiscussionAssumptions DEF ReplyId
  <2>2. QED
    BY <1>1, <2>1 DEF Job, Operation
<1>5. QED
  BY <1>1, <1>2, <1>3, <1>4

LEMMA FirstStatementType ==
  ASSUME NEW op \in Operation, op # "none"
  PROVE  FirstStatement(op) \in Statement
BY DEF FirstStatement, Operation, Statement

LEMMA TablesInit == Init => Tables
<1> SUFFICES ASSUME Init PROVE Tables
  OBVIOUS
<1>1. TypeOK
  <2>1. admitted \subseteq Event \X User
    BY DEF Init
  <2>2. job \in [Worker -> Job]
    BY ReceiveJob DEF Init
  <2>3. QED
    BY <2>1, <2>2, DiscussionAssumptions DEF Init, Rows!Init, TypeOK, Visibility
<1>2. IsFiniteSet(replies)
  BY FS_EmptySet DEF Init
<1>3. FreshIds /\ RepliesBelong
  BY DEF Init, FreshIds, RepliesBelong
<1>4. ASSUME NEW w \in Worker PROVE JobOK(w)
  BY DEF Init, JobOK, NoJob, Authorising
<1>5. QED
  BY <1>1, <1>2, <1>3, <1>4 DEF Tables

\* The types of a worker's variables.
ThreadTypes ==
  /\ pc \in [Worker -> Statement \cup {"idle", "respond"}]
  /\ job \in [Worker -> Job]
  /\ attempt \in [Worker -> {1, 2}]

LEMMA FinishTypes ==
  ASSUME TypeOK, NEW w \in Worker, Finish(w)
  PROVE  ThreadTypes'
BY ReceiveJob DEF TypeOK, Finish, ThreadTypes

LEMMA GoToTypes ==
  ASSUME TypeOK, NEW w \in Worker, NEW s \in Statement \cup {"respond"}, GoTo(w, s)
  PROVE  ThreadTypes'
BY DEF TypeOK, GoTo, ThreadTypes

LEMMA ReceiveTypes ==
  ASSUME TypeOK, NEW w \in Worker, NEW request \in Job, request.op # "none", Receive(w, request)
  PROVE  ThreadTypes'
<1>1. FirstStatement(request.op) \in Statement
  BY FirstStatementType DEF Job
<1>2. QED
  BY <1>1 DEF TypeOK, Receive, ThreadTypes

LEMMA CheckRowTypes ==
  ASSUME TypeOK, NEW w \in Worker, NEW e \in Event, NEW v \in Visibility, CheckRow(w, e, v)
  PROVE  ThreadTypes'
<1>1. CASE v = "draft" /\ job[w].user # Organiser[e]
  BY <1>1, FinishTypes DEF CheckRow
<1>2. CASE ~(v = "draft" /\ job[w].user # Organiser[e])
  <2>1. [job[w] EXCEPT !.event = e, !.visibility = v] \in Job
    <3>1. job[w] \in Job
      BY DEF TypeOK
    <3>2. QED
      BY <3>1 DEF Job
  <2>2. QED
    BY <1>2, <2>1 DEF CheckRow, TypeOK, ThreadTypes, InsertStatement, Statement
<1>3. QED
  BY <1>1, <1>2

LEMMA RepliesFinite ==
  ASSUME IsFiniteSet(replies), NEW c
  PROVE  IsFiniteSet(RepliesOf(c)) /\ Cardinality(RepliesOf(c)) \in Nat
BY FS_Subset, FS_CardinalityType DEF RepliesOf

\* What a change of the events' rows leaves true of them.
LEMMA RowsChange ==
  ASSUME TypeOK, NEW e \in Event, ChangeRows(e)
  PROVE  /\ visibility' \in [Event -> Visibility]
         /\ attending' \subseteq Event \X User /\ invited' \subseteq Event \X User
         /\ NoteAdmitted /\ admitted' \subseteq Event \X User
         /\ UNCHANGED <<moderators, tables, threads, faults, stale, demoted>>
         /\ \A x \in Event : Rows!Here(x) => Rows!Here(x)'
         /\ \A x \in Event : Published(x) => Published(x)'
         /\ \A p \in attending' \cup invited' :
              p \in attending \cup invited \/ (p[1] \in Event /\ Rows!Here(p[1]))
<1>1. NoteAdmitted /\ UNCHANGED <<moderators, tables, threads, faults, stale, demoted>>
  BY DEF ChangeRows
<1>2. admitted' \subseteq Event \X User
  BY <1>1 DEF NoteAdmitted, TypeOK
<1>3. CASE Rows!Create(e) \/ Rows!Edit(e)
  <2>1. /\ UNCHANGED <<attending, invited>>
        /\ \E v \in {"draft", "private", "public"} : visibility' = [visibility EXCEPT ![e] = v]
        /\ Published(e) => Published(e)'
    BY <1>3 DEF Rows!Create, Rows!Edit, Published, TypeOK
  <2>2. QED
    BY <1>1, <1>2, <2>1 DEF TypeOK, Visibility, Published, Rows!Here
<1>4. ASSUME NEW u \in Visitor, Rows!Attend(e, u) \/ Rows!Invite(e, u)
      PROVE  /\ visibility' = visibility /\ Rows!Here(e)
             /\ attending' \subseteq attending \cup {<<e, u>>}
             /\ invited' \subseteq invited \cup {<<e, u>>}
  BY <1>4 DEF Rows!Attend, Rows!Invite
<1>5. CASE \E u \in Visitor : Rows!Attend(e, u) \/ Rows!Invite(e, u)
  <2>1. PICK u \in Visitor : Rows!Attend(e, u) \/ Rows!Invite(e, u)
    BY <1>5
  <2>2. u \in User
    BY DiscussionAssumptions
  <2>3. QED
    BY <1>1, <1>2, <1>4, <2>1, <2>2 DEF TypeOK, Published, Rows!Here
<1>6. QED
  BY <1>3, <1>5 DEF ChangeRows

\* Every step keeps the types, and the table of replies finite.
LEMMA TypeStep ==
  ASSUME Tables, [Next]_vars
  PROVE  TypeOK' /\ IsFiniteSet(replies')
<1> USE DEF Tables
<1>0. CASE UNCHANGED vars
  BY <1>0 DEF vars, environment, tables, threads, history, TypeOK
<1>a. SUFFICES ASSUME Next PROVE TypeOK' /\ IsFiniteSet(replies')
  BY <1>0
<1>b. ASSUME ThreadTypes', UNCHANGED <<environment, tables, history>>
      PROVE  TypeOK' /\ IsFiniteSet(replies')
  BY <1>b DEF environment, tables, history, TypeOK, ThreadTypes
<1>1. ASSUME NEW w \in Worker,
             \/ ReceivePostComment(w) \/ ReceivePostReply(w)
             \/ ReceiveDeleteComment(w) \/ ReceiveDeleteReply(w)
      PROVE  TypeOK' /\ IsFiniteSet(replies')
  <2>1. PICK request \in Job : request.op # "none" /\ Receive(w, request)
    BY <1>1, ReceiveJob
       DEF ReceivePostComment, ReceivePostReply, ReceiveDeleteComment, ReceiveDeleteReply, NoJob
  <2>2. QED
    BY <2>1, <1>b, ReceiveTypes DEF Receive
<1>2. ASSUME NEW w \in Worker, SelectEvent(w) PROVE TypeOK' /\ IsFiniteSet(replies')
  <2>1. job[w].event \in Event
    BY <1>2 DEF SelectEvent, JobOK
  <2>2. visibility[job[w].event] \in Visibility
    BY <2>1 DEF TypeOK
  <2>3. ThreadTypes'
    BY <1>2, <2>1, <2>2, FinishTypes, CheckRowTypes DEF SelectEvent
  <2>4. QED
    BY <1>2, <2>3, <1>b DEF SelectEvent
<1>3. ASSUME NEW w \in Worker, SelectComment(w) PROVE TypeOK' /\ IsFiniteSet(replies')
  <2>1. ASSUME NEW row \in comments, CheckRow(w, row.event, visibility[row.event])
        PROVE  ThreadTypes'
    BY <2>1, CheckRowTypes DEF TypeOK, CommentRow
  <2>2. ThreadTypes'
    BY <1>3, <2>1, FinishTypes DEF SelectComment, CommentRows
  <2>3. QED
    BY <1>3, <2>2, <1>b DEF SelectComment
<1>4. ASSUME NEW w \in Worker, SelectAttendance(w) \/ SelectInvitation(w)
      PROVE  TypeOK' /\ IsFiniteSet(replies')
  <2>1. ThreadTypes'
    BY <1>4, FinishTypes, GoToTypes
       DEF SelectAttendance, SelectInvitation, Statement, InsertStatement
  <2>2. QED
    BY <1>4, <2>1, <1>b DEF SelectAttendance, SelectInvitation
<1>5. ASSUME NEW w \in Worker, InsertComment(w) PROVE TypeOK' /\ IsFiniteSet(replies')
  <2>1. ThreadTypes'
    BY <1>5, FinishTypes, GoToTypes DEF InsertComment
  <2>2. comments' \subseteq CommentRow /\ nextComment' \in 1..(MaxCommentId + 1)
    <3>1. job[w].event \in Event /\ job[w].user \in User
      BY <1>5 DEF InsertComment, JobOK
    <3>2. QED
      BY <1>5, <3>1, DiscussionAssumptions DEF InsertComment, TypeOK, CommentRow, CommentId
  <2>3. QED
    BY <1>5, <2>1, <2>2 DEF InsertComment, TypeOK, ThreadTypes, environment, history
<1>6. ASSUME NEW w \in Worker, InsertReply(w) PROVE TypeOK' /\ IsFiniteSet(replies')
  <2>1. ThreadTypes'
    BY <1>6, FinishTypes, GoToTypes DEF InsertReply, Statement
  <2>2. replies' \subseteq ReplyRow /\ nextReply' \in 1..(MaxReplyId + 1)
    <3>1. job[w].event \in Event /\ job[w].user \in User /\ job[w].comment \in CommentId
      BY <1>6 DEF InsertReply, JobOK
    <3>2. QED
      BY <1>6, <3>1, DiscussionAssumptions DEF InsertReply, TypeOK, ReplyRow, ReplyId
  <2>3. IsFiniteSet(replies')
    <3> DEFINE new == [id |-> nextReply, parent |-> job[w].comment,
                       event |-> job[w].event, user |-> job[w].user]
    <3>1. replies' = replies \/ replies' = replies \cup {new}
      BY <1>6 DEF InsertReply
    <3>2. IsFiniteSet(replies \cup {new})
      BY FS_AddElement
    <3>3. QED
      BY <3>1, <3>2
  <2>4. QED
    BY <1>6, <2>1, <2>2, <2>3 DEF InsertReply, TypeOK, ThreadTypes, environment, history
<1>7. ASSUME NEW w \in Worker, Recount(w) PROVE TypeOK' /\ IsFiniteSet(replies')
  <2>1. ThreadTypes'
    BY <1>7, GoToTypes DEF Recount
  <2>2. replyCount' \in [CommentId -> Nat]
    BY <1>7, RepliesFinite DEF Recount, TypeOK
  <2>3. QED
    BY <1>7, <2>1, <2>2 DEF Recount, TypeOK, ThreadTypes, environment
<1>8. ASSUME NEW w \in Worker, DeleteComment(w) PROVE TypeOK' /\ IsFiniteSet(replies')
  <2>1. ThreadTypes'
    BY <1>8, FinishTypes, GoToTypes DEF DeleteComment, Statement
  <2>2. comments' \subseteq comments /\ replies' \subseteq replies
    BY <1>8 DEF DeleteComment, RemoveComments
  <2>3. QED
    BY <1>8, <2>1, <2>2, FS_Subset
       DEF DeleteComment, TypeOK, ThreadTypes, environment, history
<1>9. ASSUME NEW w \in Worker, DeleteReplies(w) \/ DeleteReply(w)
      PROVE  TypeOK' /\ IsFiniteSet(replies')
  <2>1. ThreadTypes'
    BY <1>9, GoToTypes DEF DeleteReplies, DeleteReply, Statement
  <2>2. replies' \subseteq replies
    BY <1>9 DEF DeleteReplies, DeleteReply
  <2>3. QED
    BY <1>9, <2>1, <2>2, FS_Subset
       DEF DeleteReplies, DeleteReply, TypeOK, ThreadTypes, environment, history
<1>10. ASSUME NEW w \in Worker, SelectReply(w) PROVE TypeOK' /\ IsFiniteSet(replies')
  <2>1. ASSUME NEW row \in replies,
               pc' = [pc EXCEPT ![w] = IF row.user = job[w].user
                                       THEN "delete_reply" ELSE "select_privilege"],
               job' = [job EXCEPT ![w].comment = row.parent],
               attempt' = attempt
        PROVE  ThreadTypes'
    <3>1. row.parent \in 0..MaxCommentId
      BY DiscussionAssumptions DEF TypeOK, ReplyRow, CommentId
    <3>2. [job[w] EXCEPT !.comment = row.parent] \in Job
      BY <3>1 DEF TypeOK, Job
    <3>3. QED
      BY <2>1, <3>2 DEF TypeOK, ThreadTypes, Statement
  <2>2. ThreadTypes'
    BY <1>10, <2>1, FinishTypes DEF SelectReply, ReplyRows
  <2>3. QED
    BY <1>10, <2>2, <1>b DEF SelectReply
<1>11. ASSUME NEW w \in Worker, SelectPrivilege(w) \/ Respond(w)
       PROVE  TypeOK' /\ IsFiniteSet(replies')
  <2>1. ThreadTypes'
    BY <1>11, FinishTypes, GoToTypes DEF SelectPrivilege, Respond, Statement
  <2>2. QED
    BY <1>11, <2>1, <1>b DEF SelectPrivilege, Respond
<1>12. ASSUME NEW w \in Worker, LoseConnection(w) \/ FailStatement(w)
       PROVE  TypeOK' /\ IsFiniteSet(replies')
  <2>1. pc[w] # "idle"
    BY <1>12 DEF LoseConnection, FailStatement, Statement
  <2>2. FirstStatement(job[w].op) \in Statement
    BY <2>1, FirstStatementType DEF JobOK, TypeOK, Job
  <2>3. ThreadTypes'
    BY <1>12, <2>2, FinishTypes DEF LoseConnection, FailStatement, TypeOK, ThreadTypes
  <2>4. faults' \in 0..MaxFaults /\ stale' \subseteq CommentId
    BY <1>12, DiscussionAssumptions DEF LoseConnection, FailStatement, NoteFault, TypeOK, JobOK
  <2>5. QED
    BY <1>12, <2>3, <2>4
       DEF LoseConnection, FailStatement, TypeOK, ThreadTypes, environment, tables
<1>13. ASSUME NEW e \in Event, ChangeRows(e) PROVE TypeOK' /\ IsFiniteSet(replies')
  BY <1>13, RowsChange DEF TypeOK, tables, threads
<1>14. ASSUME NEW e \in Event, DeleteEvent(e) PROVE TypeOK' /\ IsFiniteSet(replies')
  <2>1. comments' \subseteq comments /\ replies' \subseteq replies
    BY <1>14 DEF DeleteEvent, RemoveComments
  <2>2. QED
    BY <1>14, <2>1, FS_Subset DEF DeleteEvent, Rows!Delete, TypeOK, Visibility, threads, history
<1>15. ASSUME NEW u \in Promotable, ChangePrivilege(u) PROVE TypeOK' /\ IsFiniteSet(replies')
  BY <1>15, DiscussionAssumptions DEF ChangePrivilege, TypeOK, tables, threads
<1>16. QED
  BY <1>a, <1>1, <1>2, <1>3, <1>4, <1>5, <1>6, <1>7, <1>8, <1>9, <1>10, <1>11, <1>12,
     <1>13, <1>14, <1>15 DEF Next, Handle
-----------------------------------------------------------------------------
(***************************************************************************)
(* What a step can do to the tables and to the threads.                    *)
(***************************************************************************)
Act(w) ==
  \/ ReceivePostComment(w) \/ ReceivePostReply(w)
  \/ ReceiveDeleteComment(w) \/ ReceiveDeleteReply(w)
  \/ Handle(w)
  \/ LoseConnection(w) \/ FailStatement(w)

Others ==
  \/ \E e \in Event : ChangeRows(e) \/ DeleteEvent(e)
  \/ \E u \in Promotable : ChangePrivilege(u)

Receiving(w) ==
  \E request \in Job :
    /\ Receive(w, request)
    /\ \/ request.op = "post_comment" /\ request.event \in Event
       \/ request.op \in {"post_reply", "delete_comment"} /\ request.comment \in CommentId
       \/ request.op = "delete_reply"
    /\ request.user \in User

LEMMA NextActs == Next => Others \/ \E w \in Worker : Act(w)
BY DEF Next, Others, Act

LEMMA ReceivingLemma ==
  ASSUME NEW w \in Worker,
         \/ ReceivePostComment(w) \/ ReceivePostReply(w)
         \/ ReceiveDeleteComment(w) \/ ReceiveDeleteReply(w)
  PROVE  Receiving(w)
<1>1. CASE ReceivePostComment(w)
  BY <1>1, ReceiveJob DEF ReceivePostComment, Receiving, NoJob
<1>2. CASE ReceivePostReply(w)
  BY <1>2, ReceiveJob DEF ReceivePostReply, Receiving, NoJob
<1>3. CASE ReceiveDeleteComment(w)
  BY <1>3, ReceiveJob DEF ReceiveDeleteComment, Receiving, NoJob
<1>4. CASE ReceiveDeleteReply(w)
  BY <1>4, ReceiveJob DEF ReceiveDeleteReply, Receiving, NoJob
<1>5. QED
  BY <1>1, <1>2, <1>3, <1>4

NewComment(w) == [id |-> nextComment, event |-> job[w].event, user |-> job[w].user]

CommentAdded ==
  \E w \in Worker :
    /\ pc[w] = "insert_comment"
    /\ Rows!Here(job[w].event)
    /\ comments' = comments \cup {NewComment(w)}
    /\ nextComment <= MaxCommentId /\ nextComment' = nextComment + 1
    /\ UNCHANGED <<visibility, replyCount, replies, nextReply>>

NewReply(w) ==
  [id |-> nextReply, parent |-> job[w].comment, event |-> job[w].event, user |-> job[w].user]

ReplyAdded ==
  \E w \in Worker :
    /\ pc[w] = "insert_reply"
    /\ Live(job[w].comment)
    /\ replies' = replies \cup {NewReply(w)}
    /\ nextReply <= MaxReplyId /\ nextReply' = nextReply + 1
    /\ UNCHANGED <<visibility, comments, replyCount, nextComment>>

Recounted ==
  \E w \in Worker :
    LET c == job[w].comment
    IN /\ pc[w] = "recount"
       /\ replyCount' = IF Live(c)
                        THEN [replyCount EXCEPT ![c] = Cardinality(RepliesOf(c))]
                        ELSE replyCount
       /\ UNCHANGED <<visibility, comments, replies, nextComment, nextReply>>

\* Rows go; the replies of a comment go with it, the comments of an event too.
Removed ==
  /\ comments' \subseteq comments /\ replies' \subseteq replies
  /\ \A row \in comments \ comments' : \A reply \in replies' : reply.parent # row.id
  /\ \A e \in Event : Rows!Here(e) /\ ~Rows!Here(e)' =>
       \A row \in comments' : row.event # e
  /\ UNCHANGED <<replyCount, nextComment, nextReply>>

LEMMA TableSteps ==
  ASSUME Tables, [Next]_vars
  PROVE  CommentAdded \/ ReplyAdded \/ Recounted \/ Removed
<1>0. ASSUME UNCHANGED tables,
             \A e \in Event : Rows!Here(e) => Rows!Here(e)'
      PROVE  Removed
  BY <1>0 DEF tables, Removed
<1>1. CASE UNCHANGED vars
  BY <1>0, <1>1 DEF vars, environment, Rows!Here
<1>2. ASSUME NEW w \in Worker, Act(w)
      PROVE  CommentAdded \/ ReplyAdded \/ Recounted \/ Removed
  <2>1. CASE UNCHANGED <<environment, tables>>
    BY <2>1, <1>0 DEF environment, Rows!Here
  <2>2. CASE InsertComment(w)
    BY <2>2, <1>0 DEF InsertComment, CommentAdded, NewComment, environment, tables, Rows!Here
  <2>3. CASE InsertReply(w)
    BY <2>3, <1>0 DEF InsertReply, ReplyAdded, NewReply, environment, tables, Rows!Here
  <2>4. CASE Recount(w)
    BY <2>4 DEF Recount, Recounted, environment
  <2>5. CASE DeleteComment(w)
    BY <2>5 DEF DeleteComment, RemoveComments, Removed, environment, Rows!Here
  <2>6. CASE DeleteReplies(w) \/ DeleteReply(w)
    BY <2>6 DEF DeleteReplies, DeleteReply, Removed, environment, Rows!Here
  <2>7. QED
    BY <1>2, <2>1, <2>2, <2>3, <2>4, <2>5, <2>6
       DEF Act, Handle, ReceivePostComment, ReceivePostReply, ReceiveDeleteComment,
           ReceiveDeleteReply, Receive, SelectEvent, SelectComment, SelectAttendance,
           SelectInvitation, SelectReply, SelectPrivilege, Respond, LoseConnection, FailStatement
<1>3. ASSUME NEW e \in Event, ChangeRows(e) PROVE Removed
  BY <1>3, <1>0, RowsChange DEF Tables
<1>4. ASSUME NEW e \in Event, DeleteEvent(e) PROVE Removed
  BY <1>4 DEF DeleteEvent, Rows!Delete, RemoveComments, Removed, Tables, TypeOK, Rows!Here
<1>5. ASSUME NEW u \in Promotable, ChangePrivilege(u) PROVE Removed
  BY <1>5, <1>0 DEF ChangePrivilege, Rows!Here
<1>6. QED
  BY <1>1, <1>2, <1>3, <1>4, <1>5, NextActs DEF Others

\* A step of one worker leaves the others' variables alone, and the rest of
\* the system leaves them all alone.
LEMMA OtherWorkers ==
  ASSUME TypeOK, NEW w \in Worker, Act(w), NEW v \in Worker, v # w
  PROVE  pc'[v] = pc[v] /\ job'[v] = job[v]
<1>1. CASE Finish(w)
  BY <1>1 DEF Finish, TypeOK
<1>2. ASSUME NEW s, GoTo(w, s) PROVE pc'[v] = pc[v] /\ job'[v] = job[v]
  BY <1>2 DEF GoTo, TypeOK
<1>3. ASSUME NEW request, Receive(w, request) PROVE pc'[v] = pc[v] /\ job'[v] = job[v]
  BY <1>3 DEF Receive, TypeOK
<1>4. ASSUME NEW e, NEW x, CheckRow(w, e, x) PROVE pc'[v] = pc[v] /\ job'[v] = job[v]
  BY <1>4, <1>1 DEF CheckRow, TypeOK
<1>5. CASE \/ ReceivePostComment(w) \/ ReceivePostReply(w)
           \/ ReceiveDeleteComment(w) \/ ReceiveDeleteReply(w)
  BY <1>5, <1>3
     DEF ReceivePostComment, ReceivePostReply, ReceiveDeleteComment, ReceiveDeleteReply
<1>6. CASE SelectEvent(w) \/ SelectComment(w)
  BY <1>6, <1>1, <1>4 DEF SelectEvent, SelectComment
<1>7. CASE SelectAttendance(w) \/ SelectInvitation(w) \/ SelectPrivilege(w) \/ Respond(w)
  BY <1>7, <1>1, <1>2 DEF SelectAttendance, SelectInvitation, SelectPrivilege, Respond
<1>8. CASE InsertComment(w) \/ InsertReply(w) \/ Recount(w)
  BY <1>8, <1>1, <1>2 DEF InsertComment, InsertReply, Recount
<1>9. CASE DeleteComment(w) \/ DeleteReplies(w) \/ DeleteReply(w)
  BY <1>9, <1>1, <1>2 DEF DeleteComment, DeleteReplies, DeleteReply
<1>10. CASE SelectReply(w)
  BY <1>10, <1>1 DEF SelectReply, TypeOK
<1>11. CASE LoseConnection(w) \/ FailStatement(w)
  BY <1>11, <1>1 DEF LoseConnection, FailStatement, TypeOK
<1>12. QED
  BY <1>5, <1>6, <1>7, <1>8, <1>9, <1>10, <1>11 DEF Act, Handle

LEMMA OthersKeepThreads == Others => UNCHANGED threads
BY DEF Others, ChangeRows, DeleteEvent, ChangePrivilege
-----------------------------------------------------------------------------
(***************************************************************************)
(* The tables.                                                             *)
(***************************************************************************)
LEMMA FreshIdsStep ==
  ASSUME Tables, [Next]_vars
  PROVE  FreshIds'
<1> USE DEF Tables
<1>1. CASE CommentAdded
  <2>1. PICK w \in Worker :
          /\ comments' = comments \cup {NewComment(w)}
          /\ nextComment' = nextComment + 1
          /\ UNCHANGED <<replyCount, replies, nextReply>>
    BY <1>1 DEF CommentAdded
  <2>0. NewComment(w).id = nextComment
    BY DEF NewComment
  <2>2. nextComment \in Nat /\ \A row \in comments : row.id \in Nat
    BY DiscussionAssumptions DEF TypeOK, CommentRow, CommentId
  <2>3. \A c \in CommentId : c \in Nat
    BY DiscussionAssumptions DEF CommentId
  <2>4. QED
    BY <2>0, <2>1, <2>2, <2>3 DEF FreshIds
<1>2. CASE ReplyAdded
  <2>1. PICK w \in Worker :
          /\ replies' = replies \cup {NewReply(w)}
          /\ nextReply' = nextReply + 1
          /\ UNCHANGED <<replyCount, comments, nextComment>>
    BY <1>2 DEF ReplyAdded
  <2>0. NewReply(w).id = nextReply
    BY DEF NewReply
  <2>2. nextReply \in Nat /\ \A row \in replies : row.id \in Nat
    BY DiscussionAssumptions DEF TypeOK, ReplyRow, ReplyId
  <2>3. QED
    BY <2>0, <2>1, <2>2 DEF FreshIds
<1>3. CASE Recounted
  <2>1. PICK w \in Worker : pc[w] = "recount" /\
          replyCount' = IF Live(job[w].comment)
                        THEN [replyCount EXCEPT ![job[w].comment] = Cardinality(RepliesOf(job[w].comment))]
                        ELSE replyCount
    BY <1>3 DEF Recounted
  <2>2. ASSUME NEW c \in CommentId, c >= nextComment
        PROVE  replyCount'[c] = 0
    <3>1. replyCount[c] = 0
      BY <2>2 DEF FreshIds
    <3>2. ~Live(c)
      BY <2>2, DiscussionAssumptions DEF Live, FreshIds, TypeOK, CommentRow, CommentId
    <3>3. QED
      BY <2>1, <3>1, <3>2 DEF TypeOK
  <2>3. QED
    BY <1>3, <2>2 DEF FreshIds, Recounted
<1>4. CASE Removed
  BY <1>4 DEF Removed, FreshIds
<1>5. QED
  BY <1>1, <1>2, <1>3, <1>4, TableSteps

LEMMA RepliesBelongStep ==
  ASSUME Tables, [Next]_vars
  PROVE  RepliesBelong'
<1> USE DEF Tables
<1>1. CASE CommentAdded
  BY <1>1 DEF CommentAdded, NewComment, RepliesBelong, Rows!Here
<1>2. CASE ReplyAdded
  <2>1. PICK w \in Worker :
          /\ pc[w] = "insert_reply" /\ Live(job[w].comment)
          /\ replies' = replies \cup {NewReply(w)} /\ UNCHANGED <<comments, visibility>>
    BY <1>2 DEF ReplyAdded
  <2>2. PICK row \in comments : row.id = job[w].comment
    BY <2>1 DEF Live
  <2>3. row.event = job[w].event
    BY <2>1, <2>2 DEF JobOK
  <2>4. NewReply(w).parent = row.id /\ NewReply(w).event = row.event
    BY <2>2, <2>3 DEF NewReply
  <2>5. QED
    BY <2>1, <2>4 DEF RepliesBelong, Rows!Here
<1>3. CASE Recounted
  BY <1>3 DEF Recounted, RepliesBelong, Rows!Here
<1>4. CASE Removed
  <2>1. ASSUME NEW reply \in replies'
        PROVE  \E row \in comments' : row.id = reply.parent /\ row.event = reply.event
    <3>1. PICK row \in comments : row.id = reply.parent /\ row.event = reply.event
      BY <1>4 DEF Removed, RepliesBelong
    <3>2. row \in comments'
      BY <1>4, <3>1 DEF Removed
    <3>3. QED
      BY <3>1, <3>2
  <2>2. ASSUME NEW row \in comments' PROVE Rows!Here(row.event)'
    <3>1. Rows!Here(row.event) /\ row.event \in Event
      BY <1>4 DEF Removed, RepliesBelong, TypeOK, CommentRow
    <3>2. QED
      BY <1>4, <3>1 DEF Removed
  <2>3. QED
    BY <2>1, <2>2 DEF RepliesBelong
<1>5. QED
  BY <1>1, <1>2, <1>3, <1>4, TableSteps

\* What a post_reply remembers of its comment outlives every table change: a
\* new comment gets an id of its own.
LEMMA RememberedComment ==
  ASSUME Tables, [Next]_vars, NEW c \in CommentId, NEW e, c < nextComment,
         \A row \in comments : row.id = c => row.event = e
  PROVE  c < nextComment' /\ \A row \in comments' : row.id = c => row.event = e
<1>1. nextComment \in Nat /\ c \in Nat
  BY DiscussionAssumptions DEF Tables, TypeOK, CommentId
<1>2. QED
  BY <1>1, TableSteps DEF CommentAdded, NewComment, ReplyAdded, Recounted, Removed

\* A deleted comment does not come back.
LEMMA GoneComment ==
  ASSUME Tables, [Next]_vars, NEW c \in CommentId, c < nextComment,
         \A row \in comments : row.id # c
  PROVE  c < nextComment' /\ \A row \in comments' : row.id # c
<1>1. nextComment \in Nat /\ c \in Nat
  BY DiscussionAssumptions DEF Tables, TypeOK, CommentId
<1>2. QED
  BY <1>1, TableSteps DEF CommentAdded, NewComment, ReplyAdded, Recounted, Removed

\* A reply that is still there hangs under the comment it was read under.
LEMMA RememberedReply ==
  ASSUME Tables, [Next]_vars, NEW r \in ReplyId, NEW c, r < nextReply,
         \A row \in replies : row.id = r => row.parent = c
  PROVE  r < nextReply' /\ \A row \in replies' : row.id = r => row.parent = c
<1>1. nextReply \in Nat /\ r \in Nat
  BY DiscussionAssumptions DEF Tables, TypeOK, ReplyId
<1>2. QED
  BY <1>1, TableSteps DEF CommentAdded, ReplyAdded, NewReply, Recounted, Removed

LEMMA JobOKAct ==
  ASSUME Tables, [Next]_vars, NEW w \in Worker, Act(w)
  PROVE  JobOK(w)'
<1> USE DEF Tables
<1>0. pc \in [Worker -> Statement \cup {"idle", "respond"}] /\ job \in [Worker -> Job]
  BY DEF TypeOK
<1>1. CASE Finish(w)
  BY <1>0, <1>1 DEF Finish, JobOK, NoJob, Authorising
<1>2. ASSUME NEW s, GoTo(w, s), s \in {"respond", "delete_replies", "delete_reply"} \/ s = "recount",
             s # "respond" =>
               /\ s = "delete_replies" =>
                    /\ job[w].op = "delete_comment" /\ job[w].comment < nextComment'
                    /\ \A row \in comments' : row.id # job[w].comment
               /\ s = "delete_reply" =>
                    /\ job[w].op = "delete_reply" /\ job[w].comment \in CommentId
                    /\ job[w].reply \in ReplyId /\ job[w].reply < nextReply'
                    /\ \A row \in replies' : row.id = job[w].reply => row.parent = job[w].comment
               /\ s = "recount" => job[w].comment \in CommentId,
             pc[w] # "idle"
      PROVE  JobOK(w)'
  BY <1>0, <1>2 DEF GoTo, JobOK, Authorising
<1>3. CASE \/ ReceivePostComment(w) \/ ReceivePostReply(w)
           \/ ReceiveDeleteComment(w) \/ ReceiveDeleteReply(w)
  <2>1. PICK request \in Job :
          /\ Receive(w, request)
          /\ \/ request.op = "post_comment" /\ request.event \in Event
             \/ request.op \in {"post_reply", "delete_comment"} /\ request.comment \in CommentId
             \/ request.op = "delete_reply"
          /\ request.user \in User
    BY <1>3, ReceivingLemma DEF Receiving
  <2>2. job'[w] = request /\ pc'[w] = FirstStatement(request.op)
    BY <1>0, <2>1 DEF Receive
  <2>3. QED
    BY <2>1, <2>2 DEF JobOK, FirstStatement, Authorising
<1>4. ASSUME NEW e \in Event, NEW v, CheckRow(w, e, v),
             \/ pc[w] = "select_event"
             \/ /\ pc[w] = "select_comment" /\ job[w].comment < nextComment
                /\ \A row \in comments : row.id = job[w].comment => row.event = e
      PROVE  JobOK(w)'
  <2>1. CASE v = "draft" /\ job[w].user # Organiser[e]
    BY <1>1, <1>4, <2>1 DEF CheckRow
  <2>2. CASE ~(v = "draft" /\ job[w].user # Organiser[e])
    <3>1. /\ pc'[w] \in {InsertStatement(job[w].op), "select_attendance"}
          /\ job'[w] = [job[w] EXCEPT !.event = e, !.visibility = v]
      BY <1>0, <1>4, <2>2 DEF CheckRow
    <3>2. /\ job'[w].op = job[w].op /\ job'[w].user = job[w].user
          /\ job'[w].comment = job[w].comment /\ job'[w].event = e
      BY <1>0, <3>1 DEF Job
    <3>3. pc[w] # "idle" /\ JobOK(w)
      BY <1>4
    <3>4. CASE pc[w] = "select_event"
      BY <3>1, <3>2, <3>3, <3>4 DEF JobOK, InsertStatement, Authorising
    <3>5. CASE pc[w] = "select_comment"
      <4>1. /\ job[w].comment \in CommentId /\ job[w].comment < nextComment
            /\ \A row \in comments : row.id = job[w].comment => row.event = e
        BY <1>4, <3>5 DEF JobOK
      <4>2. /\ job[w].comment < nextComment'
            /\ \A row \in comments' : row.id = job[w].comment => row.event = e
        BY <4>1, RememberedComment
      <4>3. QED
        BY <3>1, <3>2, <3>3, <3>5, <4>1, <4>2 DEF JobOK, InsertStatement, Authorising
    <3>6. QED
      BY <1>4, <3>4, <3>5
  <2>3. QED
    BY <2>1, <2>2
<1>5. CASE SelectEvent(w)
  <2>1. pc[w] = "select_event" /\ job[w].event \in Event
    BY <1>5 DEF SelectEvent, JobOK
  <2>2. QED
    BY <1>1, <1>4, <1>5, <2>1 DEF SelectEvent
<1>6. CASE SelectComment(w)
  <2>1. ASSUME NEW row \in CommentRows(job[w].comment),
               CheckRow(w, row.event, visibility[row.event])
        PROVE  JobOK(w)'
    <3>1. /\ row \in comments /\ row.id = job[w].comment /\ row.event \in Event
          /\ pc[w] = "select_comment"
      BY <1>6, <2>1 DEF CommentRows, TypeOK, CommentRow, SelectComment
    <3>2. /\ job[w].comment < nextComment
          /\ \A other \in comments : other.id = job[w].comment => other.event = row.event
      BY <3>1 DEF FreshIds
    <3>3. QED
      BY <1>4, <2>1, <3>1, <3>2
  <2>2. QED
    BY <1>1, <1>6, <2>1 DEF SelectComment
<1>7. CASE SelectAttendance(w) \/ SelectInvitation(w)
  <2>1. CASE Finish(w)
    BY <1>1, <2>1
  <2>2. CASE GoTo(w, InsertStatement(job[w].op)) \/ GoTo(w, "select_invitation")
    <3>1. /\ pc'[w] \in {InsertStatement(job[w].op), "select_invitation"}
          /\ job'[w] = job[w] /\ pc[w] \in Authorising
          /\ UNCHANGED tables
      BY <1>0, <1>7, <2>2 DEF GoTo, SelectAttendance, SelectInvitation, Authorising
    <3>2. QED
      BY <3>1 DEF JobOK, InsertStatement, Authorising, tables
  <2>3. QED
    BY <1>7, <2>1, <2>2 DEF SelectAttendance, SelectInvitation
<1>8. CASE InsertComment(w) \/ Recount(w) \/ DeleteReplies(w)
  BY <1>1, <1>2, <1>8 DEF InsertComment, Recount, DeleteReplies
<1>9. CASE InsertReply(w)
  <2>1. pc[w] = "insert_reply" /\ job[w].comment \in CommentId
    BY <1>9 DEF InsertReply, JobOK
  <2>2. QED
    BY <1>1, <1>2, <1>9, <2>1 DEF InsertReply
<1>10. CASE DeleteComment(w)
  <2> DEFINE gone == {row \in CommentRows(job[w].comment) :
                        row.user = job[w].user \/ job[w].user \in moderators}
  <2>1. pc[w] = "delete_comment" /\ job[w].op = "delete_comment"
    BY <1>10 DEF DeleteComment, JobOK
  <2>2. ASSUME gone # {}
        PROVE  /\ job[w].comment < nextComment'
               /\ \A row \in comments' : row.id # job[w].comment
    <3>1. PICK row \in comments : row.id = job[w].comment /\ row \in gone
      BY <2>2 DEF CommentRows
    <3>2. comments' = comments \ gone /\ nextComment' = nextComment
      BY <1>10 DEF DeleteComment, RemoveComments
    <3>3. QED
      BY <3>1, <3>2 DEF FreshIds
  <2>3. gone = {} => Finish(w)
    BY <1>10 DEF DeleteComment
  <2>4. gone # {} => GoTo(w, "delete_replies")
    BY <1>10 DEF DeleteComment
  <2>5. QED
    BY <1>1, <1>2, <2>1, <2>2, <2>3, <2>4
<1>11. CASE SelectReply(w)
  <2>1. pc[w] = "select_reply" /\ job[w].op = "delete_reply"
    BY <1>11 DEF SelectReply, JobOK
  <2>2. ASSUME NEW row \in replies, row.id = job[w].reply,
               pc' = [pc EXCEPT ![w] = IF row.user = job[w].user
                                       THEN "delete_reply" ELSE "select_privilege"],
               job' = [job EXCEPT ![w].comment = row.parent]
        PROVE  JobOK(w)'
    <3>1. /\ pc'[w] \in {"delete_reply", "select_privilege"}
          /\ job'[w] = [job[w] EXCEPT !.comment = row.parent]
          /\ row.parent \in CommentId /\ row.id \in ReplyId
      BY <1>0, <2>2 DEF TypeOK, ReplyRow
    <3>2. /\ job'[w].op = job[w].op /\ job'[w].user = job[w].user
          /\ job'[w].comment = row.parent /\ job'[w].reply = job[w].reply
      BY <1>0, <3>1 DEF Job
    <3>3. /\ job[w].reply < nextReply
          /\ \A other \in replies : other.id = job[w].reply => other.parent = row.parent
      BY <2>2 DEF FreshIds
    <3>4. UNCHANGED <<replies, nextReply>>
      BY <1>11 DEF SelectReply, tables
    <3>5. QED
      BY <2>1, <2>2, <3>1, <3>2, <3>3, <3>4 DEF JobOK, Authorising
  <2>3. QED
    BY <1>1, <1>11, <2>2 DEF SelectReply, ReplyRows
<1>12. CASE SelectPrivilege(w)
  <2>1. /\ pc[w] = "select_privilege" /\ job[w].op = "delete_reply"
        /\ job[w].comment \in CommentId
        /\ job[w].reply \in ReplyId /\ job[w].reply < nextReply'
        /\ \A row \in replies' : row.id = job[w].reply => row.parent = job[w].comment
    BY <1>12 DEF SelectPrivilege, JobOK, tables
  <2>2. QED
    BY <1>1, <1>2, <1>12, <2>1 DEF SelectPrivilege
<1>13. CASE DeleteReply(w)
  <2>1. pc[w] = "delete_reply" /\ job[w].comment \in CommentId
    BY <1>13 DEF DeleteReply, JobOK
  <2>2. QED
    BY <1>2, <1>13, <2>1 DEF DeleteReply
<1>14. CASE LoseConnection(w) \/ FailStatement(w)
  <2>1. CASE Finish(w)
    BY <1>1, <2>1
  <2>2. CASE pc' = [pc EXCEPT ![w] = FirstStatement(job[w].op)] /\ UNCHANGED job /\ pc[w] # "idle"
    <3>1. pc'[w] = FirstStatement(job[w].op) /\ job'[w] = job[w] /\ job[w].op \in Operation
      BY <1>0, <2>2 DEF Job
    <3>2. QED
      BY <2>2, <3>1 DEF JobOK, FirstStatement, Operation, Authorising
  <2>3. QED
    BY <1>14, <2>1, <2>2 DEF LoseConnection, FailStatement
<1>15. CASE Respond(w)
  BY <1>1, <1>15 DEF Respond
<1>16. QED
  BY <1>3, <1>5, <1>6, <1>7, <1>8, <1>9, <1>10, <1>11, <1>12, <1>13, <1>14, <1>15 DEF Act, Handle

\* The tables, the types and the jobs are an inductive invariant by themselves.
LEMMA TablesStep == Tables /\ [Next]_vars => Tables'
<1> SUFFICES ASSUME Tables, [Next]_vars PROVE Tables'
  OBVIOUS
<1>1. ASSUME NEW v \in Worker, pc'[v] = pc[v], job'[v] = job[v] PROVE JobOK(v)'
  <2>1. JobOK(v)
    BY DEF Tables
  <2>2. ASSUME pc[v] \in Authorising \cup {"insert_reply"}, job[v].op = "post_reply"
        PROVE  /\ job[v].comment < nextComment'
               /\ \A row \in comments' : row.id = job[v].comment => row.event = job[v].event
    BY <2>1, <2>2, RememberedComment DEF JobOK
  <2>3. ASSUME pc[v] = "delete_replies"
        PROVE  /\ job[v].comment < nextComment'
               /\ \A row \in comments' : row.id # job[v].comment
    BY <2>1, <2>3, GoneComment DEF JobOK
  <2>4. ASSUME pc[v] \in {"select_privilege", "delete_reply"}
        PROVE  /\ job[v].reply < nextReply'
               /\ \A row \in replies' : row.id = job[v].reply => row.parent = job[v].comment
    BY <2>1, <2>4, RememberedReply DEF JobOK
  <2>5. QED
    BY <1>1, <2>1, <2>2, <2>3, <2>4 DEF JobOK
<1>2. ASSUME NEW v \in Worker PROVE JobOK(v)'
  <2>1. CASE Others \/ UNCHANGED vars
    BY <1>1, <2>1, OthersKeepThreads DEF threads, vars
  <2>2. ASSUME NEW w \in Worker, Act(w) PROVE JobOK(v)'
    BY <1>1, <2>2, JobOKAct, OtherWorkers DEF Tables
  <2>3. QED
    BY <2>1, <2>2, NextActs
<1>3. QED
  BY <1>2, TypeStep, FreshIdsStep, RepliesBelongStep DEF Tables

\* The types of all variables hold in every reachable state.
THEOREM TypeCorrect == Spec => []TypeOK
<1>1. Tables => TypeOK
  BY DEF Tables
<1>2. QED
  BY TablesInit, TablesStep, <1>1, PTL DEF Spec

\* In every reachable state every reply hangs under a live comment of its own
\* event, and no comment outlives its event.
THEOREM RepliesBelongCorrect == Spec => []RepliesBelong
<1>1. Tables => RepliesBelong
  BY DEF Tables
<1>2. QED
  BY TablesInit, TablesStep, <1>1, PTL DEF Spec
-----------------------------------------------------------------------------
(***************************************************************************)
(* The shown number of replies.                                            *)
(***************************************************************************)

\* A recount makes the comment's count exact.
LEMMA RecountMakesExact ==
  ASSUME Tables, NEW w \in Worker, Recount(w), NEW c, c = job[w].comment
  PROVE  CountExact(c)'
<1>1. c \in CommentId /\ UNCHANGED <<comments, replies>>
  BY DEF Recount, Tables, JobOK
<1>2. replyCount \in [CommentId -> Nat]
  BY DEF Tables, TypeOK
<1>3. Live(c)' = Live(c) /\ RepliesOf(c)' = RepliesOf(c)
  BY <1>1 DEF Live, RepliesOf
<1>4. replyCount' = IF Live(c)
                    THEN [replyCount EXCEPT ![c] = Cardinality(RepliesOf(c))]
                    ELSE replyCount
  BY DEF Recount
<1>5. Live(c) => replyCount'[c] = Cardinality(RepliesOf(c))
  BY <1>1, <1>2, <1>4
<1>6. QED
  BY <1>3, <1>5 DEF CountExact

\* Only a recount repairs a stale comment.
LEMMA StaleStep ==
  ASSUME Tables, [Next]_vars, NEW c \in CommentId, c \in stale
  PROVE  c \in stale' \/ \E w \in Worker : Recount(w) /\ job[w].comment = c
<1>1. ASSUME NEW w \in Worker, LoseConnection(w) \/ FailStatement(w) PROVE c \in stale'
  BY <1>1 DEF LoseConnection, FailStatement, NoteFault
<1>2. ASSUME NEW w \in Worker, Act(w)
      PROVE  c \in stale' \/ (Recount(w) /\ job[w].comment = c)
  <2>1. CASE UNCHANGED stale
    BY <2>1
  <2>2. CASE Recount(w)
    BY <2>2 DEF Recount
  <2>3. QED
    BY <1>1, <1>2, <2>1, <2>2
       DEF Act, Handle, ReceivePostComment, ReceivePostReply, ReceiveDeleteComment,
           ReceiveDeleteReply, Receive, SelectEvent, SelectComment, SelectAttendance,
           SelectInvitation, InsertComment, InsertReply, DeleteComment,
           DeleteReplies, SelectReply, SelectPrivilege, DeleteReply, Respond, history
<1>3. CASE Others \/ UNCHANGED vars
  BY <1>3 DEF Others, ChangeRows, DeleteEvent, ChangePrivilege, history, vars
<1>4. QED
  BY <1>2, <1>3, NextActs

\* A pending recount stays pending until it is executed or lost.
LEMMA PendingStep ==
  ASSUME Tables, [Next]_vars, NEW c \in CommentId, RecountPending(c)
  PROVE  \/ RecountPending(c)'
         \/ c \in stale'
         \/ \E w \in Worker : Recount(w) /\ job[w].comment = c
<1>1. PICK v \in Worker : pc[v] = "recount" /\ job[v].comment = c
  BY DEF RecountPending
<1>2. CASE pc'[v] = pc[v] /\ job'[v] = job[v]
  BY <1>1, <1>2 DEF RecountPending
<1>3. CASE Act(v)
  BY <1>1, <1>3
     DEF Act, Handle, ReceivePostComment, ReceivePostReply, ReceiveDeleteComment,
         ReceiveDeleteReply, Receive, SelectEvent, SelectComment, SelectAttendance,
         SelectInvitation, InsertComment, InsertReply, DeleteComment, DeleteReplies,
         SelectReply, SelectPrivilege, DeleteReply, Respond, LoseConnection,
         FailStatement, NoteFault
<1>4. ASSUME NEW w \in Worker, Act(w), w # v PROVE pc'[v] = pc[v] /\ job'[v] = job[v]
  BY <1>4, OtherWorkers DEF Tables
<1>5. Others \/ UNCHANGED vars => pc'[v] = pc[v] /\ job'[v] = job[v]
  BY OthersKeepThreads DEF threads, vars
<1>6. QED
  BY <1>2, <1>3, <1>4, <1>5, NextActs

\* A comment that survives the removal of others keeps its replies.
LEMMA RemovalKeepsReplies ==
  ASSUME Tables, NEW gone \in SUBSET comments, RemoveComments(gone), NEW c, Live(c)'
  PROVE  Live(c) /\ RepliesOf(c)' = RepliesOf(c)
<1>1. PICK row \in comments : row.id = c /\ row \notin gone
  BY DEF Live, RemoveComments
<1>2. \A other \in gone : other.id # c
  BY <1>1 DEF Tables, FreshIds
<1>3. QED
  BY <1>1, <1>2 DEF Live, RepliesOf, RemoveComments

\* A comment is added under a fresh id, without replies and with count 0.
LEMMA NewCommentIsEmpty ==
  ASSUME Tables, NEW w \in Worker, InsertComment(w), NEW c \in CommentId, Live(c)', ~Live(c)
  PROVE  RepliesOf(c)' = {} /\ replyCount'[c] = 0
<1>1. c = nextComment
  BY DEF InsertComment, Live
<1>2. nextComment \in Nat /\ replyCount[c] = 0
  BY <1>1, DiscussionAssumptions DEF Tables, TypeOK, FreshIds, CommentId
<1>3. RepliesOf(c) = {}
  BY <1>1, <1>2 DEF RepliesOf, Tables, RepliesBelong, Live
<1>4. QED
  BY <1>2, <1>3 DEF InsertComment, RepliesOf

\* An exact count stays exact unless a worker is now due to recount it.
LEMMA ExactStep ==
  ASSUME Tables, [Next]_vars, NEW c \in CommentId, CountExact(c)
  PROVE  CountExact(c)' \/ RecountPending(c)'
<1>0. job \in [Worker -> Job] /\ pc \in [Worker -> Statement \cup {"idle", "respond"}]
  BY DEF Tables, TypeOK
<1>1. CASE UNCHANGED <<comments, replyCount, replies>>
  BY <1>1 DEF CountExact, Live, RepliesOf
<1>2. ASSUME NEW gone \in SUBSET comments, RemoveComments(gone), UNCHANGED replyCount
      PROVE  CountExact(c)'
  BY <1>2, RemovalKeepsReplies DEF CountExact
<1>3. ASSUME NEW w \in Worker, InsertComment(w) PROVE CountExact(c)'
  <2>1. CASE Live(c)
    BY <1>3, <2>1 DEF InsertComment, CountExact, RepliesOf
  <2>2. CASE ~Live(c) /\ Live(c)'
    BY <1>3, <2>2, NewCommentIsEmpty, FS_EmptySet DEF CountExact
  <2>3. QED
    BY <2>1, <2>2 DEF CountExact
<1>4. ASSUME NEW w \in Worker, InsertReply(w) PROVE CountExact(c)' \/ RecountPending(c)'
  <2>1. CASE UNCHANGED replies
    BY <1>1, <1>4, <2>1 DEF InsertReply
  <2>2. CASE replies' = replies \cup {NewReply(w)} /\ GoTo(w, "recount")
    <3>1. CASE job[w].comment = c
      BY <1>0, <2>2, <3>1 DEF GoTo, RecountPending
    <3>2. CASE job[w].comment # c
      BY <1>4, <2>2, <3>2 DEF CountExact, Live, RepliesOf, InsertReply, NewReply
    <3>3. QED
      BY <3>1, <3>2
  <2>3. QED
    BY <1>4, <2>1, <2>2 DEF InsertReply, NewReply
<1>5. ASSUME NEW w \in Worker, Recount(w) PROVE CountExact(c)'
  <2>1. CASE job[w].comment = c
    BY <1>5, <2>1, RecountMakesExact
  <2>2. CASE job[w].comment # c
    BY <1>5, <2>2 DEF Recount, CountExact, Live, RepliesOf, Tables, TypeOK
  <2>3. QED
    BY <2>1, <2>2
<1>6. ASSUME NEW w \in Worker, DeleteComment(w) PROVE CountExact(c)'
  BY <1>2, <1>6 DEF DeleteComment, CommentRows
<1>7. ASSUME NEW w \in Worker, DeleteReplies(w) PROVE CountExact(c)'
  <2>1. ~Live(job[w].comment)
    BY <1>7 DEF DeleteReplies, Tables, JobOK, Live
  <2>2. c # job[w].comment => RepliesOf(c)' = RepliesOf(c)
    BY <1>7 DEF DeleteReplies, RepliesOf
  <2>3. QED
    BY <1>7, <2>1, <2>2 DEF DeleteReplies, CountExact, Live
<1>8. ASSUME NEW w \in Worker, DeleteReply(w) PROVE CountExact(c)' \/ RecountPending(c)'
  <2>1. CASE job[w].comment = c
    BY <1>0, <1>8, <2>1 DEF DeleteReply, GoTo, RecountPending
  <2>2. CASE job[w].comment # c
    <3>1. \A row \in ReplyRows(job[w].reply) : row.parent # c
      BY <1>8, <2>2 DEF DeleteReply, ReplyRows, Tables, JobOK
    <3>2. RepliesOf(c)' = RepliesOf(c)
      BY <1>8, <3>1 DEF DeleteReply, RepliesOf
    <3>3. QED
      BY <1>8, <3>2 DEF DeleteReply, CountExact, Live
  <2>3. QED
    BY <2>1, <2>2
<1>9. ASSUME NEW e \in Event, DeleteEvent(e) PROVE CountExact(c)'
  BY <1>2, <1>9 DEF DeleteEvent
<1>10. ASSUME NEW w \in Worker, Act(w) PROVE CountExact(c)' \/ RecountPending(c)'
  BY <1>1, <1>3, <1>4, <1>5, <1>6, <1>7, <1>8, <1>10
     DEF Act, Handle, ReceivePostComment, ReceivePostReply, ReceiveDeleteComment,
         ReceiveDeleteReply, Receive, SelectEvent, SelectComment, SelectAttendance,
         SelectInvitation, SelectReply, SelectPrivilege, Respond, LoseConnection,
         FailStatement, tables
<1>11. CASE Others \/ UNCHANGED vars
  BY <1>1, <1>9, <1>11
     DEF Others, ChangeRows, ChangePrivilege, tables, vars
<1>12. QED
  BY <1>10, <1>11, NextActs

LEMMA CountSettledStep == Tables /\ CountSettled /\ [Next]_vars => CountSettled'
<1> SUFFICES ASSUME Tables, CountSettled, [Next]_vars, NEW c \in CommentId
             PROVE  CountExact(c)' \/ RecountPending(c)' \/ c \in stale'
  BY DEF CountSettled
<1>1. CountExact(c) \/ RecountPending(c) \/ c \in stale
  BY DEF CountSettled
<1>2. ASSUME NEW w \in Worker, Recount(w), job[w].comment = c PROVE CountExact(c)'
  BY <1>2, RecountMakesExact
<1>3. CASE CountExact(c)
  BY <1>3, ExactStep
<1>4. CASE RecountPending(c)
  BY <1>2, <1>4, PendingStep
<1>5. CASE c \in stale
  BY <1>2, <1>5, StaleStep
<1>6. QED
  BY <1>1, <1>3, <1>4, <1>5

\* In every reachable state the shown number of replies is exact, or a worker
\* is due to recount it, or a fault took its recount away.
THEOREM CountSettledCorrect == Spec => []CountSettled
<1>1. Init => CountSettled
  BY FS_EmptySet DEF Init, CountSettled, CountExact, Live
<1>2. QED
  BY <1>1, TablesInit, TablesStep, CountSettledStep, PTL DEF Spec
-----------------------------------------------------------------------------
(***************************************************************************)
(* The limit on the replies of a comment.                                  *)
(***************************************************************************)
LEMMA WorkersFinite ==
  ASSUME NEW S \in SUBSET Worker
  PROVE  IsFiniteSet(S) /\ Cardinality(S) \in Nat /\ Cardinality(S) <= Cardinality(Worker)
BY FS_Subset, FS_CardinalityType, DiscussionAssumptions

\* Disjoint sets of workers, and a worker in neither, are together no more than the workers.
LEMMA DisjointWorkers ==
  ASSUME NEW S \in SUBSET Worker, NEW T \in SUBSET Worker, S \cap T = {}
  PROVE  /\ Cardinality(S) + Cardinality(T) <= Cardinality(Worker)
         /\ \A w \in Worker \ (S \cup T) :
              Cardinality(S) + Cardinality(T) + 1 <= Cardinality(Worker)
<1>1. /\ IsFiniteSet(S) /\ Cardinality(S) \in Nat /\ IsFiniteSet(T) /\ Cardinality(T) \in Nat
      /\ S \cup T \in SUBSET Worker
  BY WorkersFinite
<1>2. Cardinality(S \cup T) = Cardinality(S) + Cardinality(T)
  <2>1. Cardinality(S \cup T) = Cardinality(S) + Cardinality(T) - Cardinality(S \cap T)
    BY <1>1, FS_Union
  <2>2. Cardinality(S \cap T) = 0
    BY FS_EmptySet
  <2>3. QED
    BY <1>1, <2>1, <2>2
<1>3. Cardinality(S \cup T) <= Cardinality(Worker)
  BY <1>1, WorkersFinite
<1>4. ASSUME NEW w \in Worker \ (S \cup T)
      PROVE  Cardinality(S) + Cardinality(T) + 1 <= Cardinality(Worker)
  <2>1. IsFiniteSet(S \cup T) /\ (S \cup T) \cup {w} \in SUBSET Worker
    BY <1>1, WorkersFinite
  <2>2. Cardinality((S \cup T) \cup {w}) = Cardinality(S \cup T) + 1
    BY <2>1, FS_AddElement
  <2>3. Cardinality((S \cup T) \cup {w}) <= Cardinality(Worker)
    BY <2>1, WorkersFinite
  <2>4. QED
    BY <1>2, <2>2, <2>3
<1>5. QED
  BY <1>2, <1>3, <1>4

LEMMA ClearedFinite ==
  ASSUME NEW c
  PROVE  /\ Cleared(c) \in SUBSET Worker /\ Inserted(c) \in SUBSET Worker
         /\ Cleared(c) \cap Inserted(c) = {}
         /\ Cardinality(Cleared(c)) \in Nat /\ Cardinality(Inserted(c)) \in Nat
<1>1. Cleared(c) \in SUBSET Worker /\ Inserted(c) \in SUBSET Worker
  BY DEF Cleared, Inserted
<1>2. Cleared(c) \cap Inserted(c) = {}
  BY DEF Cleared, Inserted, Authorising
<1>3. QED
  BY <1>1, <1>2, WorkersFinite

\* The numbers the argument is about.
NumbersOK(c) ==
  /\ Cardinality(RepliesOf(c)) \in Nat
  /\ Cardinality(Cleared(c)) \in Nat /\ Cardinality(Inserted(c)) \in Nat
  /\ faults \in Nat /\ replyCount[c] \in Nat

LEMMA Numbers == ASSUME Tables, NEW c \in CommentId PROVE NumbersOK(c)
BY RepliesFinite, ClearedFinite, DiscussionAssumptions DEF Tables, TypeOK, NumbersOK

LEMMA NumbersNext ==
  ASSUME Tables', NEW c \in CommentId
  PROVE  NumbersOK(c)' /\ IsFiniteSet(RepliesOf(c)')
<1>1. /\ IsFiniteSet(replies') /\ faults' \in Nat /\ replyCount' \in [CommentId -> Nat]
  BY DiscussionAssumptions DEF Tables, TypeOK
<1>2. RepliesOf(c)' \in SUBSET replies'
  BY DEF RepliesOf
<1>3. IsFiniteSet(RepliesOf(c)') /\ Cardinality(RepliesOf(c)') \in Nat
  BY <1>1, <1>2, FS_Subset, FS_CardinalityType
<1>4. Cleared(c)' \in SUBSET Worker /\ Inserted(c)' \in SUBSET Worker
  BY DEF Cleared, Inserted
<1>5. Cardinality(Cleared(c)') \in Nat /\ Cardinality(Inserted(c)') \in Nat
  BY <1>4, WorkersFinite
<1>6. QED
  BY <1>1, <1>3, <1>5 DEF NumbersOK

\* Nothing moves in or out of Cleared and Inserted but the worker that acts.
LEMMA MembersStep ==
  ASSUME Tables, NEW w \in Worker, Act(w), NEW c
  PROVE  /\ Cleared(c)' \subseteq Cleared(c) \cup {w}
         /\ Inserted(c) \subseteq Inserted(c)' \cup {w}
         /\ Cleared(c) \ {w} \subseteq Cleared(c)'
BY OtherWorkers DEF Cleared, Inserted, Tables

\* A worker clears the limit check only by reading a count below the limit.
LEMMA ClearedBy ==
  ASSUME Tables, NEW w \in Worker, Act(w), NEW c, w \in Cleared(c)'
  PROVE  \/ w \in Cleared(c)
         \/ SelectComment(w) /\ Live(c) /\ replyCount[c] < MaxReplies /\ w \notin Inserted(c)
<1>0. /\ pc \in [Worker -> Statement \cup {"idle", "respond"}] /\ job \in [Worker -> Job]
      /\ JobOK(w)
  BY DEF Tables, TypeOK
<1>1. /\ pc'[w] \in Authorising \cup {"insert_reply"} /\ job'[w].op = "post_reply"
      /\ job'[w].comment = c
  BY DEF Cleared
<1>2. ~Finish(w)
  BY <1>0, <1>1 DEF Finish, Authorising
<1>3. ASSUME NEW request, Receive(w, request), request.op \in Operation \ {"none"} PROVE FALSE
  BY <1>0, <1>1, <1>3 DEF Receive, FirstStatement, Operation, Authorising
<1>4. ASSUME NEW e, NEW v, CheckRow(w, e, v)
      PROVE  job[w].op = "post_reply" /\ job[w].comment = c
  <2>1. job'[w] = [job[w] EXCEPT !.event = e, !.visibility = v]
    BY <1>0, <1>2, <1>4 DEF CheckRow
  <2>2. job'[w].op = job[w].op /\ job'[w].comment = job[w].comment
    BY <1>0, <2>1 DEF Job
  <2>3. QED
    BY <1>1, <2>2
<1>5. CASE \/ ReceivePostComment(w) \/ ReceivePostReply(w)
           \/ ReceiveDeleteComment(w) \/ ReceiveDeleteReply(w)
  BY <1>3, <1>5, ReceivingLemma DEF Receiving, Operation
<1>6. CASE SelectEvent(w)
  <2>1. job[w].op = "post_comment"
    BY <1>0, <1>6 DEF SelectEvent, JobOK
  <2>2. QED
    BY <1>2, <1>4, <1>6, <2>1 DEF SelectEvent
<1>7. CASE SelectComment(w)
  <2>1. PICK row \in CommentRows(job[w].comment) :
          /\ ~(replyCount[job[w].comment] >= MaxReplies)
          /\ CheckRow(w, row.event, visibility[row.event])
    BY <1>2, <1>7 DEF SelectComment
  <2>2. job[w].comment = c /\ job[w].comment \in CommentId
    BY <1>0, <1>4, <2>1, <1>7 DEF SelectComment, JobOK
  <2>3. replyCount[c] < MaxReplies
    BY <2>1, <2>2, DiscussionAssumptions DEF Tables, TypeOK
  <2>4. Live(c) /\ w \notin Inserted(c)
    BY <1>7, <2>1, <2>2 DEF Live, CommentRows, Inserted, SelectComment
  <2>5. QED
    BY <1>7, <2>3, <2>4
<1>8. CASE SelectAttendance(w) \/ SelectInvitation(w)
  BY <1>0, <1>1, <1>2, <1>8 DEF SelectAttendance, SelectInvitation, GoTo, Cleared, Authorising
<1>9. ASSUME NEW s, GoTo(w, s), s \in {"respond", "recount", "delete_replies", "delete_reply"}
      PROVE  FALSE
  BY <1>0, <1>1, <1>9 DEF GoTo, Authorising
<1>10. CASE InsertComment(w) \/ InsertReply(w) \/ Recount(w)
  BY <1>2, <1>9, <1>10 DEF InsertComment, InsertReply, Recount
<1>11. CASE DeleteComment(w) \/ DeleteReplies(w) \/ DeleteReply(w) \/ SelectPrivilege(w) \/ Respond(w)
  BY <1>2, <1>9, <1>11 DEF DeleteComment, DeleteReplies, DeleteReply, SelectPrivilege, Respond
<1>12. CASE SelectReply(w)
  BY <1>0, <1>1, <1>2, <1>12 DEF SelectReply, Authorising
<1>13. CASE LoseConnection(w) \/ FailStatement(w)
  <2>1. pc[w] # "idle" /\ job[w].op \in Operation /\ job[w].op # "none"
    BY <1>0, <1>13 DEF LoseConnection, FailStatement, Statement, JobOK, Job
  <2>2. QED
    BY <1>0, <1>1, <1>2, <1>13, <2>1
       DEF LoseConnection, FailStatement, FirstStatement, Operation, Authorising
<1>14. QED
  BY <1>5, <1>6, <1>7, <1>8, <1>10, <1>11, <1>12, <1>13 DEF Act, Handle

\* A pending recount of a post_reply leaves Inserted only by being executed or lost.
LEMMA InsertedBy ==
  ASSUME Tables, NEW w \in Worker, Act(w), NEW c, w \in Inserted(c)
  PROVE  Recount(w) \/ LoseConnection(w) \/ FailStatement(w)
<1>1. pc[w] = "recount"
  BY DEF Inserted
<1>2. QED
  BY <1>1
     DEF Act, Handle, ReceivePostComment, ReceivePostReply, ReceiveDeleteComment,
         ReceiveDeleteReply, Receive, SelectEvent, SelectComment, SelectAttendance,
         SelectInvitation, InsertComment, InsertReply, DeleteComment, DeleteReplies,
         SelectReply, SelectPrivilege, DeleteReply, Respond

\* The cardinalities of Cleared and Inserted move by at most one, the worker that acts.
LEMMA MembersCount ==
  ASSUME Tables, NEW w \in Worker, Act(w), NEW c
  PROVE  /\ Cardinality(Cleared(c)') <= Cardinality(Cleared(c)) + 1
         /\ (w \in Cleared(c)' => w \in Cleared(c)) =>
              Cardinality(Cleared(c)') <= Cardinality(Cleared(c))
         /\ w \in Cleared(c) /\ w \notin Cleared(c)' =>
              Cardinality(Cleared(c)') <= Cardinality(Cleared(c)) - 1
         /\ Cardinality(Inserted(c)) <= Cardinality(Inserted(c)') + 1
         /\ (w \in Inserted(c) => w \in Inserted(c)') =>
              Cardinality(Inserted(c)) <= Cardinality(Inserted(c)')
         /\ w \notin Inserted(c) /\ w \in Inserted(c)' =>
              Cardinality(Inserted(c)) <= Cardinality(Inserted(c)') - 1
         /\ Cardinality(Cleared(c)') \in Nat /\ Cardinality(Inserted(c)') \in Nat
<1> DEFINE K == Cleared(c)  L == Cleared(c)'  I == Inserted(c)  J == Inserted(c)'
<1>1. /\ K \in SUBSET Worker /\ L \in SUBSET Worker
      /\ I \in SUBSET Worker /\ J \in SUBSET Worker
  BY DEF Cleared, Inserted
<1>2. /\ IsFiniteSet(K) /\ Cardinality(K) \in Nat /\ IsFiniteSet(L) /\ Cardinality(L) \in Nat
      /\ IsFiniteSet(I) /\ Cardinality(I) \in Nat /\ IsFiniteSet(J) /\ Cardinality(J) \in Nat
  BY <1>1, WorkersFinite
<1>3. L \subseteq K \cup {w} /\ I \subseteq J \cup {w}
  BY MembersStep
<1> HIDE DEF K, L, I, J
<1>4. ASSUME NEW S, NEW T, IsFiniteSet(S), IsFiniteSet(T), T \subseteq S \cup {w},
             Cardinality(S) \in Nat, Cardinality(T) \in Nat
      PROVE  /\ Cardinality(T) <= Cardinality(S) + 1
             /\ (w \in T => w \in S) => Cardinality(T) <= Cardinality(S)
             /\ w \in S /\ w \notin T => Cardinality(T) <= Cardinality(S) - 1
  <2>1. Cardinality(T) <= Cardinality(S \cup {w}) /\ Cardinality(S \cup {w}) <= Cardinality(S) + 1
    BY <1>4, FS_AddElement, FS_Subset
  <2>2. ASSUME w \in T => w \in S PROVE Cardinality(T) <= Cardinality(S)
    <3>1. T \in SUBSET S
      BY <1>4, <2>2
    <3>2. QED
      BY <1>4, <3>1, FS_Subset
  <2>3. ASSUME w \in S, w \notin T PROVE Cardinality(T) <= Cardinality(S) - 1
    <3>1. T \in SUBSET (S \ {w})
      BY <1>4, <2>3
    <3>2. IsFiniteSet(S \ {w}) /\ Cardinality(S \ {w}) = Cardinality(S) - 1
      BY <1>4, <2>3, FS_RemoveElement
    <3>3. QED
      BY <3>1, <3>2, FS_Subset
  <2>4. Cardinality(T) <= Cardinality(S) + 1
    <3>1. Cardinality(S \cup {w}) \in Nat
      BY <1>4, FS_AddElement, FS_CardinalityType
    <3>2. QED
      BY <1>4, <2>1, <3>1
  <2>5. QED
    BY <2>2, <2>3, <2>4
<1>5. /\ Cardinality(L) <= Cardinality(K) + 1
      /\ (w \in L => w \in K) => Cardinality(L) <= Cardinality(K)
      /\ w \in K /\ w \notin L => Cardinality(L) <= Cardinality(K) - 1
  BY <1>2, <1>3, <1>4
<1>6. /\ Cardinality(I) <= Cardinality(J) + 1
      /\ (w \in I => w \in J) => Cardinality(I) <= Cardinality(J)
      /\ w \in J /\ w \notin I => Cardinality(I) <= Cardinality(J) - 1
  BY <1>2, <1>3, <1>4
<1>7. QED
  BY <1>2, <1>5, <1>6 DEF K, L, I, J

\* Steps that neither add a reply, nor clear a worker, nor lose a recount.
LEMMA QuietStep ==
  ASSUME Tables, Tables', NEW c \in CommentId, Lag(c), Room(c),
         RepliesOf(c)' \subseteq RepliesOf(c), faults' = faults, replyCount'[c] = replyCount[c],
         Cardinality(Cleared(c)') <= Cardinality(Cleared(c)),
         Cardinality(Inserted(c)) <= Cardinality(Inserted(c)'),
         Live(c)' => Live(c) \/ RepliesOf(c)' = {}
  PROVE  Lag(c)' /\ Room(c)'
<1>1. NumbersOK(c) /\ NumbersOK(c)' /\ Cardinality(Worker) \in Nat /\ MaxReplies \in Nat
  BY Numbers, NumbersNext, FS_CardinalityType, DiscussionAssumptions
<1>2. Cardinality(RepliesOf(c)') <= Cardinality(RepliesOf(c))
  BY RepliesFinite, FS_Subset DEF Tables
<1>3. Room(c)'
  BY <1>1, <1>2 DEF Room, NumbersOK
<1>4. ASSUME Live(c)' PROVE Lag(c)'
  <2>1. CASE Live(c)
    BY <1>1, <1>2, <2>1 DEF Lag, NumbersOK
  <2>2. CASE RepliesOf(c)' = {}
    <3>1. Cardinality(RepliesOf(c)') = 0
      BY <2>2, FS_EmptySet
    <3>2. QED
      BY <1>1, <3>1 DEF Lag, NumbersOK
  <2>3. QED
    BY <1>4, <2>1, <2>2
<1>5. QED
  BY <1>3, <1>4 DEF Lag

LEMMA LimitAct ==
  ASSUME Tables, Tables', [Next]_vars, NEW w \in Worker, Act(w),
         NEW c \in CommentId, Lag(c), Room(c)
  PROVE  Lag(c)' /\ Room(c)'
<1>1. NumbersOK(c) /\ NumbersOK(c)' /\ Cardinality(Worker) \in Nat /\ MaxReplies \in Nat
  BY Numbers, NumbersNext, FS_CardinalityType, DiscussionAssumptions
<1>2. CASE UNCHANGED tables /\ UNCHANGED faults /\ ~Recount(w)
           /\ ~LoseConnection(w) /\ ~FailStatement(w)
  <2>1. /\ RepliesOf(c)' = RepliesOf(c) /\ Live(c)' = Live(c)
        /\ replyCount' = replyCount /\ faults' = faults
    BY <1>2 DEF RepliesOf, Live, tables
  <2>2. Cardinality(Inserted(c)) <= Cardinality(Inserted(c)')
    BY <1>2, InsertedBy, MembersCount
  <2>3. CASE w \in Cleared(c)' => w \in Cleared(c)
    BY <2>1, <2>2, <2>3, MembersCount, QuietStep
  <2>4. CASE w \in Cleared(c)' /\ w \notin Cleared(c)
    <3>1. Live(c) /\ replyCount[c] < MaxReplies /\ w \notin Inserted(c)
      BY <2>4, ClearedBy
    <3>2. Cardinality(Cleared(c)') <= Cardinality(Cleared(c)) + 1
      BY MembersCount
    <3>3. Cardinality(Cleared(c)) + Cardinality(Inserted(c)) + 1 <= Cardinality(Worker)
      <4>1. w \in Worker \ (Cleared(c) \cup Inserted(c))
        BY <2>4, <3>1
      <4>2. QED
        BY <4>1, ClearedFinite, DisjointWorkers
    <3>4. Room(c)'
      BY <1>1, <2>1, <3>1, <3>2, <3>3 DEF Room, Lag, NumbersOK
    <3>5. Lag(c)'
      BY <1>1, <2>1, <2>2 DEF Lag, NumbersOK
    <3>6. QED
      BY <3>4, <3>5
  <2>5. QED
    BY <2>3, <2>4
<1>3. CASE InsertComment(w)
  <2>1. /\ UNCHANGED <<replies, replyCount, faults>>
        /\ pc[w] = "insert_comment"
    BY <1>3 DEF InsertComment, history
  <2>2. RepliesOf(c)' = RepliesOf(c)
    BY <2>1 DEF RepliesOf
  <2>3. Live(c)' => Live(c) \/ RepliesOf(c)' = {}
    BY <1>3, NewCommentIsEmpty
  <2>4. w \notin Inserted(c) /\ (w \in Cleared(c)' => w \in Cleared(c))
    BY <1>3, <2>1, ClearedBy DEF Inserted, SelectComment
  <2>5. QED
    BY <2>1, <2>2, <2>3, <2>4, MembersCount, QuietStep
<1>4. CASE InsertReply(w)
  <2>1. /\ UNCHANGED <<replyCount, faults, comments>>
        /\ pc[w] = "insert_reply" /\ job[w].op = "post_reply"
        /\ job \in [Worker -> Job] /\ pc \in [Worker -> Statement \cup {"idle", "respond"}]
    BY <1>4 DEF InsertReply, history, Tables, JobOK, TypeOK
  <2>2. Live(c)' = Live(c)
    BY <2>1 DEF Live
  <2>3. w \notin Inserted(c) /\ (w \in Cleared(c)' => w \in Cleared(c))
    BY <2>1, ClearedBy DEF Inserted, SelectComment
  <2>4. CASE RepliesOf(c)' = RepliesOf(c)
    BY <2>1, <2>2, <2>3, <2>4, MembersCount, QuietStep
  <2>5. CASE RepliesOf(c)' # RepliesOf(c)
    <3>1. replies' = replies \cup {NewReply(w)} /\ GoTo(w, "recount")
      BY <1>4, <2>5 DEF InsertReply, NewReply, RepliesOf
    <3>2. job[w].comment = c
      BY <2>5, <3>1 DEF RepliesOf, NewReply
    <3>3. RepliesOf(c)' = RepliesOf(c) \cup {NewReply(w)}
      BY <3>1, <3>2 DEF RepliesOf, NewReply
    <3>4. Cardinality(RepliesOf(c)') <= Cardinality(RepliesOf(c)) + 1
      <4>1. IsFiniteSet(RepliesOf(c)) /\ Cardinality(RepliesOf(c)) \in Nat
        BY RepliesFinite DEF Tables
      <4>2. Cardinality(RepliesOf(c) \cup {NewReply(w)}) <= Cardinality(RepliesOf(c)) + 1
        BY <4>1, FS_AddElement
      <4>3. QED
        BY <3>3, <4>2
    <3>5. w \in Cleared(c) /\ w \notin Cleared(c)' /\ w \in Inserted(c)'
      BY <2>1, <3>1, <3>2 DEF Cleared, Inserted, GoTo, Authorising
    <3>6. /\ Cardinality(Cleared(c)') <= Cardinality(Cleared(c)) - 1
          /\ Cardinality(Inserted(c)) <= Cardinality(Inserted(c)') - 1
      BY <2>3, <3>5, MembersCount
    <3>7. Room(c)'
      BY <1>1, <2>1, <3>4, <3>6 DEF Room, NumbersOK
    <3>8. Lag(c)'
      BY <1>1, <2>1, <2>2, <3>4, <3>6 DEF Lag, NumbersOK
    <3>9. QED
      BY <3>7, <3>8
  <2>6. QED
    BY <2>4, <2>5
<1>5. CASE Recount(w)
  <2>1. /\ UNCHANGED <<comments, replies, faults>> /\ pc[w] = "recount"
        /\ replyCount \in [CommentId -> Nat]
    BY <1>5 DEF Recount, Tables, TypeOK
  <2>2. RepliesOf(c)' = RepliesOf(c) /\ Live(c)' = Live(c)
    BY <2>1 DEF RepliesOf, Live
  <2>3. w \in Cleared(c)' => w \in Cleared(c)
    BY <2>1, ClearedBy DEF SelectComment
  <2>4. Cardinality(Cleared(c)') <= Cardinality(Cleared(c))
    BY <2>3, MembersCount
  <2>5. CASE job[w].comment = c
    <3>1. Live(c)' => replyCount'[c] = Cardinality(RepliesOf(c)')
      BY <1>5, <2>5, RecountMakesExact DEF CountExact
    <3>2. Lag(c)'
      BY <1>1, <3>1 DEF Lag, NumbersOK
    <3>3. Room(c)'
      BY <1>1, <2>1, <2>2, <2>4 DEF Room, NumbersOK
    <3>4. QED
      BY <3>2, <3>3
  <2>6. CASE job[w].comment # c
    <3>1. replyCount'[c] = replyCount[c] /\ w \notin Inserted(c)
      BY <1>5, <2>1, <2>6 DEF Recount, Inserted
    <3>2. Cardinality(Inserted(c)) <= Cardinality(Inserted(c)')
      BY <3>1, MembersCount
    <3>3. QED
      BY <2>1, <2>2, <2>4, <3>1, <3>2, QuietStep
  <2>7. QED
    BY <2>5, <2>6
<1>6. CASE DeleteComment(w) \/ DeleteReplies(w) \/ DeleteReply(w)
  <2>1. /\ comments' \subseteq comments /\ replies' \subseteq replies
        /\ UNCHANGED <<replyCount, faults>>
        /\ pc[w] \in {"delete_comment", "delete_replies", "delete_reply"}
    BY <1>6 DEF DeleteComment, DeleteReplies, DeleteReply, RemoveComments, history
  <2>2. RepliesOf(c)' \subseteq RepliesOf(c) /\ (Live(c)' => Live(c))
    BY <2>1 DEF RepliesOf, Live
  <2>3. w \notin Inserted(c) /\ (w \in Cleared(c)' => w \in Cleared(c))
    BY <2>1, ClearedBy DEF Inserted, SelectComment
  <2>4. /\ Cardinality(Cleared(c)') <= Cardinality(Cleared(c))
        /\ Cardinality(Inserted(c)) <= Cardinality(Inserted(c)')
    BY <2>3, MembersCount
  <2>5. QED
    BY <2>1, <2>2, <2>4, QuietStep
<1>7. CASE LoseConnection(w) \/ FailStatement(w)
  <2>1. /\ UNCHANGED tables /\ faults' = faults + 1
    BY <1>7 DEF LoseConnection, FailStatement, NoteFault
  <2>2. RepliesOf(c)' = RepliesOf(c) /\ Live(c)' = Live(c) /\ replyCount' = replyCount
    BY <2>1 DEF RepliesOf, Live, tables
  <2>3. /\ Cardinality(Cleared(c)') <= Cardinality(Cleared(c)) + 1
        /\ Cardinality(Inserted(c)) <= Cardinality(Inserted(c)') + 1
    BY MembersCount
  <2>4. QED
    BY <1>1, <2>1, <2>2, <2>3 DEF Lag, Room, NumbersOK
<1>8. QED
  BY <1>2, <1>3, <1>4, <1>5, <1>6, <1>7
     DEF Act, Handle, ReceivePostComment, ReceivePostReply, ReceiveDeleteComment,
         ReceiveDeleteReply, Receive, SelectEvent, SelectComment, SelectAttendance,
         SelectInvitation, SelectReply, SelectPrivilege, Respond, history

LEMMA LimitStep ==
  ASSUME Tables, Tables', [Next]_vars, NEW c \in CommentId, Lag(c), Room(c)
  PROVE  Lag(c)' /\ Room(c)'
<1>1. CASE Others \/ UNCHANGED vars
  <2>1. UNCHANGED threads
    BY <1>1, OthersKeepThreads DEF vars
  <2>2. Cleared(c)' = Cleared(c) /\ Inserted(c)' = Inserted(c)
    BY <2>1 DEF Cleared, Inserted, threads
  <2>3. /\ comments' \subseteq comments /\ replies' \subseteq replies
        /\ UNCHANGED <<replyCount, faults>>
    BY <1>1 DEF Others, ChangeRows, DeleteEvent, ChangePrivilege, RemoveComments, tables, history, vars
  <2>4. RepliesOf(c)' \subseteq RepliesOf(c) /\ (Live(c)' => Live(c))
    BY <2>3 DEF RepliesOf, Live
  <2>5. NumbersOK(c)
    BY Numbers
  <2>6. QED
    BY <2>2, <2>3, <2>4, <2>5, QuietStep DEF NumbersOK
<1>2. QED
  BY <1>1, LimitAct, NextActs

\* No comment ever holds more replies than the limit, one for each worker but
\* one, and one for each fault.
THEOREM RepliesBoundedCorrect == Spec => []RepliesBounded
<1> DEFINE Limited == \A c \in CommentId : Lag(c) /\ Room(c)
<1>1. Init => Limited
  <2> SUFFICES ASSUME Init, NEW c \in CommentId PROVE Lag(c) /\ Room(c)
    OBVIOUS
  <2>1. /\ Cleared(c) = {} /\ RepliesOf(c) = {} /\ ~Live(c) /\ faults = 0
    BY DEF Init, Cleared, RepliesOf, Live, Authorising
  <2>2. Cardinality(Worker) \in Nat
    BY DiscussionAssumptions, FS_CardinalityType
  <2>3. QED
    BY <2>1, <2>2, FS_EmptySet, DiscussionAssumptions DEF Lag, Room
<1>2. Tables /\ Tables' /\ Limited /\ [Next]_vars => Limited'
  BY LimitStep
<1>3. Tables /\ Limited => RepliesBounded
  <2> SUFFICES ASSUME Tables, Limited, NEW c \in CommentId
               PROVE  Cardinality(RepliesOf(c)) <= ReplyLimit
    BY DEF RepliesBounded
  <2>1. NumbersOK(c) /\ Room(c) /\ Cardinality(Worker) \in Nat /\ MaxReplies \in Nat
    BY Numbers, FS_CardinalityType, DiscussionAssumptions
  <2>2. faults <= MaxFaults
    BY DiscussionAssumptions DEF Tables, TypeOK
  <2>3. QED
    BY <2>1, <2>2, DiscussionAssumptions DEF Room, NumbersOK, ReplyLimit
<1> HIDE DEF Limited
<1>4. QED
  BY <1>1, <1>2, <1>3, TablesInit, TablesStep, PTL DEF Spec
-----------------------------------------------------------------------------
(***************************************************************************)
(* Who may post and who may remove.                                        *)
(***************************************************************************)
LEMMA ActKeepsEnvironment ==
  ASSUME NEW w \in Worker, Act(w)
  PROVE  UNCHANGED <<visibility, attending, invited, moderators, admitted, demoted>>
BY DEF Act, Handle, ReceivePostComment, ReceivePostReply, ReceiveDeleteComment,
       ReceiveDeleteReply, Receive, SelectEvent, SelectComment, SelectAttendance,
       SelectInvitation, InsertComment, InsertReply, Recount, DeleteComment, DeleteReplies,
       SelectReply, SelectPrivilege, DeleteReply, Respond, LoseConnection, FailStatement,
       environment, history

\* What the rest of the system keeps of the rows the handlers looked at: an
\* event is never unpublished, and the records only grow.
LEMMA EnvironmentStep ==
  ASSUME Tables, Viewers, [Next]_vars
  PROVE  /\ Viewers'
         /\ admitted \subseteq admitted'
         /\ moderators \cup demoted \subseteq moderators' \cup demoted'
         /\ \A e \in Event : Published(e) => Published(e)'
<1>0. /\ visibility \in [Event -> Visibility]
      /\ attending \subseteq Event \X User /\ invited \subseteq Event \X User
  BY DEF Tables, TypeOK
<1>1. CASE UNCHANGED <<visibility, attending, invited, moderators, admitted, demoted>>
  BY <1>1 DEF Viewers, CanView, Published, Rows!Here
<1>2. ASSUME NEW e \in Event, DeleteEvent(e)
      PROVE  /\ Viewers'
             /\ UNCHANGED <<admitted, moderators, demoted>>
             /\ \A x \in Event : Published(x) => Published(x)'
  <2>1. /\ visibility' = [visibility EXCEPT ![e] = "deleted"]
        /\ attending' = {p \in attending : p[1] # e} /\ invited' = {p \in invited : p[1] # e}
        /\ UNCHANGED <<admitted, moderators, demoted>>
    BY <1>2 DEF DeleteEvent, Rows!Delete, history
  <2>2. ASSUME NEW x \in Event, NEW u \in User, CanView(x, u)' PROVE CanView(x, u)
    BY <1>0, <2>1, <2>2 DEF CanView, Rows!Here
  <2>3. \A p \in attending' \cup invited' : Rows!Here(p[1])'
    BY <1>0, <2>1 DEF Viewers, Rows!Here
  <2>4. QED
    BY <1>0, <2>1, <2>2, <2>3 DEF Viewers, Published
<1>3. ASSUME NEW e \in Event, ChangeRows(e)
      PROVE  /\ Viewers' /\ admitted \subseteq admitted' /\ UNCHANGED <<moderators, demoted>>
             /\ \A x \in Event : Published(x) => Published(x)'
  <2>1. /\ admitted' = admitted \cup {p \in Event \X User : CanView(p[1], p[2])'}
        /\ UNCHANGED <<moderators, demoted>>
        /\ \A x \in Event : Rows!Here(x) => Rows!Here(x)'
        /\ \A x \in Event : Published(x) => Published(x)'
        /\ \A p \in attending' \cup invited' :
             p \in attending \cup invited \/ (p[1] \in Event /\ Rows!Here(p[1]))
    BY <1>3, RowsChange DEF NoteAdmitted, Tables
  <2>2. ASSUME NEW x \in Event, NEW u \in User, CanView(x, u)' PROVE <<x, u>> \in admitted'
    BY <2>1, <2>2
  <2>3. ASSUME NEW p \in attending' \cup invited' PROVE Rows!Here(p[1])'
    <3>1. p[1] \in Event /\ Rows!Here(p[1])
      BY <1>0, <2>1 DEF Viewers
    <3>2. QED
      BY <2>1, <3>1
  <2>4. QED
    BY <2>1, <2>2, <2>3 DEF Viewers
<1>4. ASSUME NEW u \in Promotable, ChangePrivilege(u)
      PROVE  /\ Viewers' /\ UNCHANGED <<admitted, visibility>>
             /\ moderators \cup demoted \subseteq moderators' \cup demoted'
  BY <1>4 DEF ChangePrivilege, Viewers, CanView, Rows!Here
<1>5. QED
  BY <1>1, <1>2, <1>3, <1>4, NextActs, ActKeepsEnvironment
     DEF Others, vars, environment, history, Published

\* The checks of a worker only let somebody through who could view the event.
LEMMA CheckedAct ==
  ASSUME Tables, Viewers, NEW w \in Worker, Act(w), Checked(w)
  PROVE  Checked(w)'
<1>0. /\ pc \in [Worker -> Statement \cup {"idle", "respond"}] /\ job \in [Worker -> Job]
      /\ JobOK(w)
      /\ UNCHANGED <<visibility, attending, invited, admitted>>
  BY ActKeepsEnvironment DEF Tables, TypeOK
<1>1. CASE pc'[w] \notin Authorising \cup {"insert_comment", "insert_reply"}
  BY <1>1 DEF Checked
<1>2. CASE Finish(w)
  BY <1>0, <1>1, <1>2 DEF Finish, Authorising
<1>3. ASSUME NEW e \in Event, CheckRow(w, e, visibility[e]), Rows!Here(e),
             job[w].user \in User
      PROVE  Checked(w)'
  <2>1. CASE visibility[e] = "draft" /\ job[w].user # Organiser[e]
    BY <1>2, <1>3, <2>1 DEF CheckRow
  <2>2. CASE ~(visibility[e] = "draft" /\ job[w].user # Organiser[e])
    <3>1. /\ pc'[w] = IF job[w].user = Organiser[e] THEN InsertStatement(job[w].op)
                      ELSE "select_attendance"
          /\ job'[w] = [job[w] EXCEPT !.event = e, !.visibility = visibility[e]]
      BY <1>0, <1>3, <2>2 DEF CheckRow
    <3>2. /\ job'[w].event = e /\ job'[w].user = job[w].user
          /\ job'[w].visibility = visibility[e]
      BY <1>0, <3>1 DEF Job
    <3>3. CASE job[w].user = Organiser[e]
      <4>1. <<e, job[w].user>> \in admitted
        BY <1>3, <3>3 DEF Viewers, CanView
      <4>2. pc'[w] \notin Authorising
        BY <3>1, <3>3 DEF InsertStatement, Authorising
      <4>3. QED
        BY <1>0, <3>2, <4>1, <4>2 DEF Checked
    <3>4. CASE job[w].user # Organiser[e]
      <4>1. pc'[w] = "select_attendance" /\ Published(e)
        BY <1>3, <2>2, <3>1, <3>4 DEF Published, Rows!Here
      <4>2. visibility[e] = "public" => <<e, job[w].user>> \in admitted
        BY <1>3 DEF Viewers, CanView
      <4>3. QED
        BY <1>0, <3>2, <4>1, <4>2 DEF Checked, Published
    <3>5. QED
      BY <3>3, <3>4
  <2>3. QED
    BY <2>1, <2>2
<1>4. CASE SelectEvent(w)
  <2>1. job[w].event \in Event /\ job[w].user \in User
    BY <1>0, <1>4 DEF SelectEvent, JobOK
  <2>2. QED
    BY <1>2, <1>3, <1>4, <2>1 DEF SelectEvent
<1>5. CASE SelectComment(w)
  <2>1. job[w].user \in User
    BY <1>0, <1>5 DEF SelectComment, JobOK
  <2>2. ASSUME NEW row \in comments PROVE row.event \in Event /\ Rows!Here(row.event)
    BY DEF Tables, TypeOK, CommentRow, RepliesBelong
  <2>3. QED
    BY <1>2, <1>3, <1>5, <2>1, <2>2 DEF SelectComment, CommentRows
<1>6. CASE SelectAttendance(w) \/ SelectInvitation(w)
  <2>1. /\ pc[w] \in Authorising /\ job[w].event \in Event /\ job[w].user \in User
        /\ Published(job[w].event)
        /\ job[w].visibility = "public" => <<job[w].event, job[w].user>> \in admitted
    BY <1>0, <1>6 DEF SelectAttendance, SelectInvitation, JobOK, Checked, Authorising
  <2>2. <<job[w].event, job[w].user>> \in attending \cup invited =>
          <<job[w].event, job[w].user>> \in admitted
    <3>1. <<job[w].event, job[w].user>> \in attending \cup invited => Rows!Here(job[w].event)
      BY DEF Viewers
    <3>2. QED
      BY <2>1, <3>1 DEF Viewers, CanView, Published, Rows!Here
  <2>3. CASE GoTo(w, "select_invitation")
    BY <1>0, <2>1, <2>3 DEF GoTo, Checked, Published
  <2>4. CASE /\ GoTo(w, InsertStatement(job[w].op))
             /\ \/ job[w].visibility = "public"
                \/ <<job[w].event, job[w].user>> \in attending \cup invited
    <3>1. pc'[w] \notin Authorising /\ job'[w] = job[w]
      BY <1>0, <2>4 DEF GoTo, InsertStatement, Authorising
    <3>2. QED
      BY <1>0, <2>1, <2>2, <2>4, <3>1 DEF Checked
  <2>5. QED
    BY <1>2, <1>6, <2>3, <2>4 DEF SelectAttendance, SelectInvitation
<1>7. ASSUME NEW request, Receive(w, request), request.op \in Operation \ {"none"}
      PROVE  Checked(w)'
  BY <1>0, <1>1, <1>7 DEF Receive, FirstStatement, Operation, Authorising
<1>8. CASE \/ ReceivePostComment(w) \/ ReceivePostReply(w)
           \/ ReceiveDeleteComment(w) \/ ReceiveDeleteReply(w)
  BY <1>7, <1>8, ReceivingLemma DEF Receiving, Operation
<1>9. ASSUME NEW s, GoTo(w, s), s \in {"respond", "recount", "delete_replies", "delete_reply"}
      PROVE  Checked(w)'
  BY <1>0, <1>1, <1>9 DEF GoTo, Authorising
<1>10. CASE InsertComment(w) \/ InsertReply(w) \/ Recount(w)
  BY <1>2, <1>9, <1>10 DEF InsertComment, InsertReply, Recount
<1>11. CASE DeleteComment(w) \/ DeleteReplies(w) \/ DeleteReply(w) \/ SelectPrivilege(w) \/ Respond(w)
  BY <1>2, <1>9, <1>11 DEF DeleteComment, DeleteReplies, DeleteReply, SelectPrivilege, Respond
<1>12. CASE SelectReply(w)
  BY <1>0, <1>1, <1>2, <1>12 DEF SelectReply, Authorising
<1>13. CASE LoseConnection(w) \/ FailStatement(w)
  <2>1. pc[w] # "idle" /\ job[w].op \in Operation /\ job[w].op # "none"
    BY <1>0, <1>13 DEF LoseConnection, FailStatement, Statement, JobOK, Job
  <2>2. QED
    BY <1>0, <1>1, <1>2, <1>13, <2>1
       DEF LoseConnection, FailStatement, FirstStatement, Operation, Authorising
<1>14. QED
  BY <1>4, <1>5, <1>6, <1>8, <1>10, <1>11, <1>12, <1>13 DEF Act, Handle

LEMMA AuthorsStep ==
  ASSUME Tables, Viewers, AuthorsWereAdmitted, \A w \in Worker : Checked(w), [Next]_vars
  PROVE  AuthorsWereAdmitted'
<1>0. admitted \subseteq admitted'
  BY EnvironmentStep
<1>1. CASE CommentAdded
  <2>1. PICK w \in Worker :
          pc[w] = "insert_comment" /\ comments' = comments \cup {NewComment(w)} /\ UNCHANGED replies
    BY <1>1 DEF CommentAdded
  <2>2. <<NewComment(w).event, NewComment(w).user>> \in admitted
    BY <2>1 DEF Checked, NewComment
  <2>3. QED
    BY <1>0, <2>1, <2>2 DEF AuthorsWereAdmitted
<1>2. CASE ReplyAdded
  <2>1. PICK w \in Worker :
          pc[w] = "insert_reply" /\ replies' = replies \cup {NewReply(w)} /\ UNCHANGED comments
    BY <1>2 DEF ReplyAdded
  <2>2. <<NewReply(w).event, NewReply(w).user>> \in admitted
    BY <2>1 DEF Checked, NewReply
  <2>3. QED
    BY <1>0, <2>1, <2>2 DEF AuthorsWereAdmitted
<1>3. CASE Recounted \/ Removed
  BY <1>0, <1>3 DEF Recounted, Removed, AuthorsWereAdmitted
<1>4. QED
  BY <1>1, <1>2, <1>3, TableSteps

\* A worker comes to delete a reply only as its author or as a moderator, and
\* the reply's author does not change under it.
LEMMA EntitledStep ==
  ASSUME Tables, Viewers, [Next]_vars, NEW v \in Worker, Entitled(v)
  PROVE  Entitled(v)'
<1>0. /\ pc \in [Worker -> Statement \cup {"idle", "respond"}] /\ job \in [Worker -> Job]
      /\ JobOK(v)
      /\ moderators \cup demoted \subseteq moderators' \cup demoted'
  BY EnvironmentStep DEF Tables, TypeOK
<1>1. CASE pc'[v] = pc[v] /\ job'[v] = job[v]
  <2>1. CASE pc[v] # "delete_reply"
    BY <1>1, <2>1 DEF Entitled
  <2>2. CASE job[v].user \in moderators \cup demoted
    BY <1>0, <1>1, <2>2 DEF Entitled
  <2>3. CASE /\ pc[v] = "delete_reply"
             /\ \A row \in replies : row.id = job[v].reply => row.user = job[v].user
    <3>1. job[v].reply \in ReplyId /\ job[v].reply < nextReply
      BY <1>0, <2>3 DEF JobOK
    <3>2. job[v].reply \in Nat /\ nextReply \in Nat
      BY <3>1, DiscussionAssumptions DEF Tables, TypeOK, ReplyId
    <3>3. \A row \in replies' : row.id = job[v].reply => row \in replies
      BY <3>1, <3>2, TableSteps DEF CommentAdded, ReplyAdded, NewReply, Recounted, Removed
    <3>4. QED
      BY <1>1, <2>3, <3>3 DEF Entitled
  <2>4. QED
    BY <2>1, <2>2, <2>3 DEF Entitled
<1>2. CASE pc'[v] # "delete_reply"
  BY <1>2 DEF Entitled
<1>3. CASE SelectPrivilege(v) /\ pc'[v] = "delete_reply"
  <2>1. job[v].user \in moderators /\ job'[v] = job[v]
    BY <1>0, <1>3 DEF SelectPrivilege, GoTo, Finish
  <2>2. QED
    BY <1>0, <2>1 DEF Entitled
<1>4. CASE SelectReply(v) /\ pc'[v] = "delete_reply"
  <2>1. PICK row \in replies :
          /\ row.id = job[v].reply
          /\ pc' = [pc EXCEPT ![v] = IF row.user = job[v].user
                                     THEN "delete_reply" ELSE "select_privilege"]
          /\ job' = [job EXCEPT ![v].comment = row.parent]
    BY <1>0, <1>4 DEF SelectReply, ReplyRows, Finish
  <2>2. row.user = job[v].user
    BY <1>0, <1>4, <2>1
  <2>3. job'[v] = [job[v] EXCEPT !.comment = row.parent]
    BY <1>0, <2>1
  <2>4. job'[v].user = job[v].user /\ job'[v].reply = job[v].reply
    BY <1>0, <2>3 DEF Job
  <2>5. replies' = replies
    BY <1>4 DEF SelectReply, tables
  <2>6. \A other \in replies : other.id = row.id => other = row
    BY DEF Tables, FreshIds
  <2>7. QED
    BY <2>1, <2>2, <2>4, <2>5, <2>6 DEF Entitled
<1>5. ASSUME Act(v), ~SelectPrivilege(v), ~SelectReply(v) PROVE pc'[v] # "delete_reply"
  <2>1. CASE Finish(v)
    BY <1>0, <2>1 DEF Finish
  <2>2. ASSUME NEW s, GoTo(v, s), s # "delete_reply" PROVE pc'[v] # "delete_reply"
    BY <1>0, <2>2 DEF GoTo
  <2>3. ASSUME NEW request, Receive(v, request), request.op \in Operation \ {"none"}
        PROVE  pc'[v] # "delete_reply"
    BY <1>0, <2>3 DEF Receive, FirstStatement, Operation
  <2>4. CASE \/ ReceivePostComment(v) \/ ReceivePostReply(v)
             \/ ReceiveDeleteComment(v) \/ ReceiveDeleteReply(v)
    BY <2>3, <2>4, ReceivingLemma DEF Receiving, Operation
  <2>5. ASSUME NEW e, NEW x, CheckRow(v, e, x) PROVE pc'[v] # "delete_reply"
    BY <1>0, <2>1, <2>5 DEF CheckRow, InsertStatement
  <2>6. CASE SelectEvent(v) \/ SelectComment(v)
    BY <2>1, <2>5, <2>6 DEF SelectEvent, SelectComment
  <2>7. CASE SelectAttendance(v) \/ SelectInvitation(v)
    BY <2>1, <2>2, <2>7 DEF SelectAttendance, SelectInvitation, InsertStatement
  <2>8. CASE InsertComment(v) \/ InsertReply(v) \/ Recount(v)
    BY <2>1, <2>2, <2>8 DEF InsertComment, InsertReply, Recount
  <2>9. CASE DeleteComment(v) \/ DeleteReplies(v) \/ DeleteReply(v) \/ Respond(v)
    BY <2>1, <2>2, <2>9 DEF DeleteComment, DeleteReplies, DeleteReply, Respond
  <2>10. CASE LoseConnection(v) \/ FailStatement(v)
    <3>1. pc[v] # "idle" /\ job[v].op \in Operation /\ job[v].op # "none"
      BY <1>0, <2>10 DEF LoseConnection, FailStatement, Statement, JobOK, Job
    <3>2. QED
      BY <1>0, <2>1, <2>10, <3>1
         DEF LoseConnection, FailStatement, FirstStatement, Operation
  <2>11. QED
    BY <1>5, <2>4, <2>6, <2>7, <2>8, <2>9, <2>10 DEF Act, Handle
<1>6. ASSUME NEW w \in Worker, Act(w), w # v PROVE pc'[v] = pc[v] /\ job'[v] = job[v]
  BY <1>6, OtherWorkers DEF Tables
<1>7. Others \/ UNCHANGED vars => pc'[v] = pc[v] /\ job'[v] = job[v]
  BY OthersKeepThreads DEF threads, vars
<1>8. QED
  BY <1>1, <1>2, <1>3, <1>4, <1>5, <1>6, <1>7, NextActs

LEMMA RightsInit == Init => Rights
<1> SUFFICES ASSUME Init PROVE Rights
  OBVIOUS
<1>1. Viewers
  <2>1. ASSUME NEW e \in Event, NEW u \in User, CanView(e, u) PROVE <<e, u>> \in admitted
    BY <2>1 DEF Init, Rows!Init, Rows!Here, CanView
  <2>2. QED
    BY <2>1 DEF Init, Rows!Init, Viewers
<1>2. QED
  BY <1>1 DEF Init, Rights, AuthorsWereAdmitted, Checked, Entitled, Authorising

LEMMA RightsStep == Tables /\ Rights /\ [Next]_vars => Rights'
<1> SUFFICES ASSUME Tables, Rights, [Next]_vars PROVE Rights'
  OBVIOUS
<1> USE DEF Rights
<1>1. ASSUME NEW v \in Worker PROVE Checked(v)'
  <2>1. CASE pc'[v] = pc[v] /\ job'[v] = job[v]
    <3>1. /\ admitted \subseteq admitted'
          /\ \A e \in Event : Published(e) => Published(e)'
      BY EnvironmentStep
    <3>2. pc[v] \in Authorising => job[v].event \in Event
      BY DEF Tables, JobOK
    <3>3. QED
      BY <2>1, <3>1, <3>2 DEF Checked
  <2>2. ASSUME NEW w \in Worker, Act(w), w # v PROVE pc'[v] = pc[v] /\ job'[v] = job[v]
    BY <2>2, OtherWorkers DEF Tables
  <2>3. Others \/ UNCHANGED vars => pc'[v] = pc[v] /\ job'[v] = job[v]
    BY OthersKeepThreads DEF threads, vars
  <2>4. QED
    BY <2>1, <2>2, <2>3, CheckedAct, NextActs
<1>2. QED
  BY <1>1, EnvironmentStep, AuthorsStep, EntitledStep

\* Every comment and reply, in every reachable state, was posted by somebody
\* who could view the event at some time.
THEOREM AuthorsWereAdmittedCorrect == Spec => []AuthorsWereAdmitted
<1>1. Rights => AuthorsWereAdmitted
  BY DEF Rights
<1>2. QED
  BY <1>1, TablesInit, TablesStep, RightsInit, RightsStep, PTL DEF Spec

LEMMA RemovalStep == Tables /\ Rights /\ [Next]_vars => [RemovalByRight]_vars
<1> SUFFICES ASSUME Tables, Rights, [Next]_vars PROVE RemovalByRight \/ UNCHANGED vars
  OBVIOUS
<1>1. ASSUME UNCHANGED <<comments, replies>> PROVE RemovalByRight
  BY <1>1 DEF RemovalByRight
<1>2. ASSUME NEW gone \in SUBSET comments, RemoveComments(gone),
             \A row \in gone :
               \/ visibility'[row.event] = "deleted"
               \/ \E w \in Worker : job[w].user \in {row.user} \cup moderators
      PROVE  RemovalByRight
  <2>1. ASSUME NEW reply \in replies \ replies'
        PROVE  reply.parent \notin {c.id : c \in comments'}
    <3>1. PICK row \in gone : reply.parent = row.id
      BY <1>2 DEF RemoveComments
    <3>2. \A other \in comments' : other.id # row.id
      BY <1>2 DEF RemoveComments, Tables, FreshIds
    <3>3. QED
      BY <3>1, <3>2
  <2>2. \A row \in comments \ comments' : row \in gone
    BY <1>2 DEF RemoveComments
  <2>3. QED
    BY <1>2, <2>1, <2>2 DEF RemovalByRight
<1>3. ASSUME NEW w \in Worker, InsertComment(w) PROVE RemovalByRight
  BY <1>3 DEF InsertComment, RemovalByRight
<1>4. ASSUME NEW w \in Worker, InsertReply(w) PROVE RemovalByRight
  BY <1>4 DEF InsertReply, RemovalByRight
<1>5. ASSUME NEW w \in Worker, DeleteComment(w) PROVE RemovalByRight
  <2> DEFINE gone == {row \in CommentRows(job[w].comment) :
                        row.user = job[w].user \/ job[w].user \in moderators}
  <2>1. RemoveComments(gone) /\ gone \in SUBSET comments
    BY <1>5 DEF DeleteComment, CommentRows
  <2>2. \A row \in gone : job[w].user \in {row.user} \cup moderators
    OBVIOUS
  <2>3. QED
    BY <1>2, <2>1, <2>2
<1>6. ASSUME NEW w \in Worker, DeleteReplies(w) PROVE RemovalByRight
  <2>1. /\ comments' = comments /\ replies' = replies \ RepliesOf(job[w].comment)
        /\ \A row \in comments : row.id # job[w].comment
    BY <1>6 DEF DeleteReplies, Tables, JobOK
  <2>2. QED
    BY <2>1 DEF RepliesOf, RemovalByRight
<1>7. ASSUME NEW w \in Worker, DeleteReply(w) PROVE RemovalByRight
  <2>1. /\ comments' = comments /\ replies' = replies \ ReplyRows(job[w].reply)
        /\ \/ job[w].user \in moderators \cup demoted
           \/ \A row \in replies : row.id = job[w].reply => row.user = job[w].user
    BY <1>7 DEF DeleteReply, Rights, Entitled
  <2>2. QED
    BY <2>1 DEF ReplyRows, RemovalByRight
<1>8. ASSUME NEW e \in Event, DeleteEvent(e) PROVE RemovalByRight
  <2> DEFINE gone == {row \in comments : row.event = e}
  <2>1. RemoveComments(gone) /\ visibility'[e] = "deleted"
    BY <1>8 DEF DeleteEvent, Rows!Delete, Tables, TypeOK
  <2>2. QED
    BY <1>2, <2>1
<1>9. ASSUME NEW w \in Worker, Act(w) PROVE RemovalByRight
  BY <1>1, <1>3, <1>4, <1>5, <1>6, <1>7, <1>9
     DEF Act, Handle, ReceivePostComment, ReceivePostReply, ReceiveDeleteComment,
         ReceiveDeleteReply, Receive, SelectEvent, SelectComment, SelectAttendance,
         SelectInvitation, Recount, SelectReply, SelectPrivilege, Respond, LoseConnection,
         FailStatement, tables
<1>10. CASE Others
  BY <1>1, <1>8, <1>10
     DEF Others, ChangeRows, ChangePrivilege, tables
<1>11. QED
  BY <1>9, <1>10, NextActs

\* Every step takes away comments and replies only by right.
THEOREM RemovedByRightCorrect == Spec => RemovedByRight
BY TablesInit, TablesStep, RightsInit, RightsStep, RemovalStep, PTL DEF Spec, RemovedByRight
-----------------------------------------------------------------------------
(***************************************************************************)
(* The discussion implements the board.                                    *)
(***************************************************************************)
Threads == {row.id : row \in comments}
Posts   == {<<row.parent, row.id>> : row \in replies}
PostsUnder(c) == {p \in Posts : p[1] = c}

\* The board's posts of a thread are the table's replies of the comment.
LEMMA PostsBound ==
  ASSUME IsFiniteSet(replies), NEW c
  PROVE  IsFiniteSet(PostsUnder(c)) /\ Cardinality(PostsUnder(c)) <= Cardinality(RepliesOf(c))
<1> DEFINE f == [row \in RepliesOf(c) |-> <<row.parent, row.id>>]
<1>1. f \in [RepliesOf(c) -> PostsUnder(c)]
  BY DEF PostsUnder, Posts, RepliesOf
<1>2. ASSUME NEW p \in PostsUnder(c) PROVE \E row \in RepliesOf(c) : f[row] = p
  <2>1. PICK row \in replies : p = <<row.parent, row.id>>
    BY DEF PostsUnder, Posts
  <2>2. row \in RepliesOf(c)
    BY <2>1 DEF PostsUnder, RepliesOf
  <2>3. QED
    BY <2>1, <2>2
<1>3. f \in Surjection(RepliesOf(c), PostsUnder(c))
  BY <1>1, <1>2 DEF Surjection
<1>4. QED
  BY <1>3, RepliesFinite, FS_Surjection

LEMMA BoardOpen ==
  ASSUME Tables, CommentAdded
  PROVE  Implemented!OpenThread
<1>1. PICK w \in Worker :
        /\ comments' = comments \cup {NewComment(w)}
        /\ nextComment' = nextComment + 1
        /\ UNCHANGED <<replies, nextReply>>
  BY DEF CommentAdded
<1>2. NewComment(w).id = nextComment /\ nextComment \in Nat
  BY DiscussionAssumptions DEF NewComment, Tables, TypeOK
<1>3. Threads' = Threads \cup {nextComment}
  BY <1>1, <1>2 DEF Threads
<1>4. nextComment' - 1 = (nextComment - 1) + 1 /\ nextComment' - 1 = nextComment
  BY <1>1, <1>2
<1>5. Posts' = Posts /\ nextReply' - 1 = nextReply - 1
  BY <1>1 DEF Posts
<1>6. QED
  BY <1>3, <1>4, <1>5 DEF Implemented!OpenThread, Threads, Posts

LEMMA BoardPost ==
  ASSUME Tables, RepliesBounded', NEW w \in Worker, NEW c, c = job[w].comment,
         Live(c), replies' = replies \cup {NewReply(w)}, nextReply' = nextReply + 1,
         UNCHANGED <<comments, nextComment>>
  PROVE  c \in Threads /\ Implemented!AddPost(c)
<1>1. c \in Threads /\ c \in CommentId
  BY DEF Live, Threads, Tables, TypeOK, CommentRow
<1>2. /\ NewReply(w).id = nextReply /\ NewReply(w).parent = c
      /\ nextReply \in Nat
  BY DiscussionAssumptions DEF NewReply, Tables, TypeOK
<1>3. NewReply(w) \notin replies
  BY <1>2 DEF Tables, FreshIds
<1>4. RepliesOf(c)' = RepliesOf(c) \cup {NewReply(w)}
  BY <1>2 DEF RepliesOf
<1>5. Cardinality(RepliesOf(c)') <= ReplyLimit
  BY <1>1 DEF RepliesBounded, ReplyLimit
<1>6. Cardinality(RepliesOf(c) \cup {NewReply(w)}) = Cardinality(RepliesOf(c)) + 1
  <2>1. IsFiniteSet(RepliesOf(c)) /\ NewReply(w) \notin RepliesOf(c)
    BY <1>3, RepliesFinite DEF Tables, RepliesOf
  <2>2. QED
    BY <2>1, FS_AddElement
<1>7. Cardinality(PostsUnder(c)) < ReplyLimit
  <2>1. Cardinality(PostsUnder(c)) <= Cardinality(RepliesOf(c))
    BY PostsBound DEF Tables
  <2>2. Cardinality(RepliesOf(c)) \in Nat /\ Cardinality(PostsUnder(c)) \in Nat
    BY RepliesFinite, PostsBound, FS_CardinalityType DEF Tables
  <2>3. ReplyLimit \in Int
    BY DiscussionAssumptions, FS_CardinalityType DEF ReplyLimit
  <2>4. Cardinality(RepliesOf(c)) + 1 <= ReplyLimit
    BY <1>4, <1>5, <1>6
  <2>5. QED
    BY <2>1, <2>2, <2>3, <2>4
<1>8. Posts' = Posts \cup {<<c, nextReply>>}
  BY <1>2 DEF Posts
<1>9. Threads' = Threads /\ nextComment' - 1 = nextComment - 1
  BY DEF Threads
<1>10. nextReply' - 1 = (nextReply - 1) + 1 /\ nextReply' - 1 = nextReply
  BY <1>2
<1>11. Implemented!PostsIn(c) = PostsUnder(c)
  BY DEF Implemented!PostsIn, PostsUnder, Posts
<1>12. Implemented!Cardinality(PostsUnder(c)) = Cardinality(PostsUnder(c))
  BY DEF Implemented!Cardinality, Cardinality
<1>13. Implemented!AddPost(c)
  BY <1>7, <1>8, <1>9, <1>10, <1>11, <1>12 DEF Implemented!AddPost, Threads, Posts
<1>14. QED
  BY <1>1, <1>13

LEMMA BoardClose ==
  ASSUME Tables, NEW gone \in SUBSET comments, RemoveComments(gone),
         UNCHANGED <<nextComment, nextReply>>
  PROVE  \E ids \in SUBSET Threads : Implemented!CloseThreads(ids)
<1> DEFINE ids == {row.id : row \in gone}
<1>1. ids \in SUBSET Threads
  BY DEF Threads
<1>2. Threads' = Threads \ ids
  BY DEF RemoveComments, Threads, Tables, FreshIds
<1>3. Posts' = {p \in Posts : p[1] \notin ids}
  BY DEF RemoveComments, Posts
<1>4. QED
  BY <1>1, <1>2, <1>3 DEF Implemented!CloseThreads, Threads, Posts

LEMMA BoardRemove ==
  ASSUME Tables, NEW r, replies' = replies \ ReplyRows(r),
         UNCHANGED <<comments, nextComment, nextReply>>
  PROVE  (\E p \in Posts : Implemented!RemovePost(p)) \/ UNCHANGED Implemented!board
<1>1. CASE ReplyRows(r) = {}
  BY <1>1 DEF Implemented!board
<1>2. CASE ReplyRows(r) # {}
  <2>1. PICK row \in replies : row.id = r
    BY <1>2 DEF ReplyRows
  <2>2. replies' = replies \ {row}
    BY <2>1 DEF ReplyRows, Tables, FreshIds
  <2>3. <<row.parent, row.id>> \in Posts
    BY DEF Posts
  <2>4. Posts' = Posts \ {<<row.parent, row.id>>}
    BY <2>1, <2>2 DEF Posts, Tables, FreshIds
  <2>5. Implemented!RemovePost(<<row.parent, row.id>>)
    BY <2>4 DEF Implemented!RemovePost, Posts
  <2>6. QED
    BY <2>3, <2>5
<1>3. QED
  BY <1>1, <1>2

LEMMA BoardStep ==
  ASSUME Tables, RepliesBounded', [Next]_vars
  PROVE  [Implemented!Next]_(Implemented!board)
<1>1. CASE CommentAdded
  BY <1>1, BoardOpen DEF Implemented!Next
<1>2. CASE ReplyAdded
  BY <1>2, BoardPost DEF ReplyAdded, Implemented!Next, Threads
<1>3. CASE UNCHANGED <<comments, replies, nextComment, nextReply>>
  BY <1>3 DEF Implemented!board
<1>4. ASSUME NEW gone \in SUBSET comments, RemoveComments(gone),
             UNCHANGED <<nextComment, nextReply>>
      PROVE  Implemented!Next
  BY <1>4, BoardClose DEF Implemented!Next, Threads
<1>5. ASSUME NEW w \in Worker, Act(w)
      PROVE  \/ [Implemented!Next]_(Implemented!board)
             \/ CommentAdded \/ ReplyAdded
  <2>1. CASE InsertComment(w)
    BY <1>3, <2>1 DEF InsertComment, CommentAdded, NewComment, environment
  <2>2. CASE InsertReply(w)
    BY <1>3, <2>2 DEF InsertReply, ReplyAdded, NewReply, environment
  <2>3. CASE Recount(w)
    BY <1>3, <2>3 DEF Recount
  <2>4. CASE DeleteComment(w)
    BY <1>4, <2>4 DEF DeleteComment, CommentRows
  <2>5. CASE DeleteReplies(w)
    <3>1. RepliesOf(job[w].comment) = {}
      BY <2>5 DEF DeleteReplies, Tables, JobOK, RepliesBelong, RepliesOf
    <3>2. QED
      BY <1>3, <2>5, <3>1 DEF DeleteReplies
  <2>6. CASE DeleteReply(w)
    BY <2>6, BoardRemove DEF DeleteReply, Implemented!Next, Posts
  <2>7. QED
    BY <1>3, <1>5, <2>1, <2>2, <2>3, <2>4, <2>5, <2>6
       DEF Act, Handle, ReceivePostComment, ReceivePostReply, ReceiveDeleteComment,
           ReceiveDeleteReply, Receive, SelectEvent, SelectComment, SelectAttendance,
           SelectInvitation, SelectReply, SelectPrivilege, Respond, LoseConnection,
           FailStatement, tables
<1>6. CASE Others \/ UNCHANGED vars
  BY <1>3, <1>4, <1>6
     DEF Others, ChangeRows, DeleteEvent, ChangePrivilege,
         tables, vars
<1>7. QED
  BY <1>1, <1>2, <1>5, <1>6, NextActs

\* The four handlers, with their statements interleaved, retried and abandoned,
\* implement the board on which every request takes effect in one step.
THEOREM DiscussionImplementsBoard == Spec => ImplementsBoard
<1>1. Init => Implemented!Init
  BY DEF Init, Implemented!Init
<1>2. Tables /\ RepliesBounded' /\ [Next]_vars => [Implemented!Next]_(Implemented!board)
  BY BoardStep
<1>3. QED
  BY <1>1, <1>2, TablesInit, TablesStep, RepliesBoundedCorrect, PTL
     DEF Spec, ImplementsBoard, Implemented!Spec
-----------------------------------------------------------------------------
(***************************************************************************)
(* The column number_of_replies.                                           *)
(***************************************************************************)
\* No count ever shows more than the limit on the replies themselves: a recount
\* stores what it counts, and nothing else writes the column.
ShownBounded == \A c \in CommentId : replyCount[c] \in 0..ReplyLimit

\* Without a fault, a count is exact or somebody is about to make it so.
CountExactOrPending == \A c \in CommentId : CountExact(c) \/ RecountPending(c)

LEMMA LimitNat == ReplyLimit \in Nat
BY FS_CardinalityType, DiscussionAssumptions DEF ReplyLimit

LEMMA ShownStep ==
  ASSUME Tables, RepliesBounded, ShownBounded, [Next]_vars
  PROVE  ShownBounded'
<1>1. replyCount \in [CommentId -> Nat]
  BY DEF Tables, TypeOK
<1>2. CASE UNCHANGED replyCount
  BY <1>2 DEF ShownBounded, ReplyLimit
<1>3. ASSUME NEW w \in Worker, pc[w] = "recount",
             replyCount' = [replyCount EXCEPT ![job[w].comment] = Cardinality(RepliesOf(job[w].comment))]
      PROVE  ShownBounded'
  <2>1. job[w].comment \in CommentId
    BY <1>3 DEF Tables, JobOK
  <2>2. Cardinality(RepliesOf(job[w].comment)) \in 0..ReplyLimit
    BY <2>1, RepliesFinite, LimitNat DEF Tables, RepliesBounded
  <2>3. \A c \in CommentId : replyCount'[c] \in 0..ReplyLimit
    BY <1>1, <1>3, <2>1, <2>2 DEF ShownBounded
  <2>4. QED
    BY <2>3 DEF ShownBounded, ReplyLimit
<1>4. CommentAdded \/ ReplyAdded \/ Removed => UNCHANGED replyCount
  BY DEF CommentAdded, ReplyAdded, Removed
<1>5. QED
  BY <1>2, <1>3, <1>4, TableSteps DEF Recounted

\* What post_reply and delete_reply store in Comments.number_of_replies is never
\* negative and never above the limit that bounds the replies, whatever the
\* workers' statements do between the count and the next one.
THEOREM ShownBoundedCorrect == Spec => []ShownBounded
<1>1. Init => ShownBounded
  BY LimitNat DEF Init, ShownBounded
<1>2. Tables /\ RepliesBounded /\ ShownBounded /\ [Next]_vars => ShownBounded'
  BY ShownStep
<1>3. QED
  BY <1>1, <1>2, TablesInit, TablesStep, RepliesBoundedCorrect, PTL DEF Spec

\* The schema's TINYINT holds every count that is stored, so that no recount
\* fails for its size, as long as the limit, the workers and the faults add up to
\* no more than 128: with the code's limit of 100, for 28 workers and faults.
THEOREM ShownFits ==
  ASSUME MaxReplies + Cardinality(Worker) + MaxFaults <= 128
  PROVE  Spec => [](\A c \in CommentId : replyCount[c] \in 0..127)
<1>1. ReplyLimit <= 127
  BY FS_CardinalityType, DiscussionAssumptions DEF ReplyLimit
<1>2. ShownBounded => \A c \in CommentId : replyCount[c] \in 0..127
  BY <1>1, LimitNat DEF ShownBounded
<1>3. QED
  BY <1>2, ShownBoundedCorrect, PTL

\* post_reply's check and its INSERT are two statements, and that alone lets the
\* limit be exceeded: with one worker and no fault it holds as it is written.
THEOREM LimitHoldsAlone ==
  ASSUME MaxFaults = 0, \E w : Worker = {w}
  PROVE  Spec => [](\A c \in CommentId : Cardinality(RepliesOf(c)) <= MaxReplies)
<1>1. ReplyLimit = MaxReplies
  <2>1. Cardinality(Worker) = 1
    BY FS_Singleton
  <2>2. QED
    BY <2>1, DiscussionAssumptions DEF ReplyLimit
<1>2. RepliesBounded => \A c \in CommentId : Cardinality(RepliesOf(c)) <= MaxReplies
  BY <1>1 DEF RepliesBounded
<1>3. QED
  BY <1>2, RepliesBoundedCorrect, PTL

LEMMA NoFaultStale ==
  ASSUME MaxFaults = 0, Tables, stale = {}, [Next]_vars
  PROVE  stale' = {}
<1>1. faults = 0
  BY DEF Tables, TypeOK
<1>2. \A w \in Worker : ~LoseConnection(w) /\ ~FailStatement(w)
  BY <1>1 DEF LoseConnection, FailStatement, NoteFault
<1>3. ASSUME NEW w \in Worker, Act(w) PROVE stale' \subseteq stale
  BY <1>2, <1>3
     DEF Act, Handle, ReceivePostComment, ReceivePostReply, ReceiveDeleteComment,
         ReceiveDeleteReply, Receive, SelectEvent, SelectComment, SelectAttendance,
         SelectInvitation, InsertComment, InsertReply, Recount, DeleteComment,
         DeleteReplies, SelectReply, SelectPrivilege, DeleteReply, Respond, history
<1>4. Others \/ UNCHANGED vars => stale' = stale
  BY DEF Others, ChangeRows, DeleteEvent, ChangePrivilege,
         history, vars
<1>5. QED
  BY <1>3, <1>4, NextActs

\* When no statement fails, the page never shows a wrong number of replies that
\* no handler in progress is about to correct.
THEOREM CountExactWithoutFaults ==
  ASSUME MaxFaults = 0
  PROVE  Spec => []CountExactOrPending
<1>1. Init => stale = {}
  BY DEF Init
<1>2. Tables /\ stale = {} /\ [Next]_vars => (stale = {})'
  BY NoFaultStale
<1>3. CountSettled /\ stale = {} => CountExactOrPending
  BY DEF CountSettled, CountExactOrPending
<1>4. QED
  BY <1>1, <1>2, <1>3, TablesInit, TablesStep, CountSettledCorrect, PTL DEF Spec
-----------------------------------------------------------------------------
(***************************************************************************)
(* Every handler ends: a variant that each of its statements lowers.       *)
(***************************************************************************)
Rank(p) ==
  CASE p \in {"select_event", "select_comment"} -> 6
    [] p \in {"select_attendance", "select_reply"} -> 5
    [] p \in {"select_invitation", "select_privilege"} -> 4
    [] p \in {"insert_comment", "insert_reply", "delete_comment", "delete_reply"} -> 3
    [] p \in {"recount", "delete_replies"} -> 2
    [] p = "respond" -> 1
    [] p = "idle" -> 0

\* The statements a worker has still to execute, at most: a re-run starts over once.
Left(w) == IF pc[w] = "idle" THEN 0 ELSE Rank(pc[w]) + (IF attempt[w] = 1 THEN 6 ELSE 0)

HandlersAdvance == \A w \in Worker : pc[w] # "idle" =>
  (pc'[w] = pc[w] /\ job'[w] = job[w] /\ attempt'[w] = attempt[w]) \/ Left(w)' < Left(w)

LEMMA RankType == \A p \in Statement \cup {"respond"} : Rank(p) \in 1..6
BY DEF Rank, Statement

LEMMA ActLowers ==
  ASSUME Tables, NEW w \in Worker, Act(w), pc[w] # "idle"
  PROVE  Left(w)' < Left(w)
<1>0. /\ pc \in [Worker -> Statement \cup {"idle", "respond"}] /\ job \in [Worker -> Job]
      /\ attempt \in [Worker -> {1, 2}] /\ JobOK(w)
  BY DEF Tables, TypeOK
<1>1. Left(w) \in Nat /\ Left(w) >= 1
  <2>1. Rank(pc[w]) \in 1..6
    BY <1>0, RankType
  <2>2. QED
    BY <1>0, <2>1 DEF Left
<1>2. Finish(w) => Left(w)' < Left(w)
  BY <1>0, <1>1 DEF Finish, Left
<1>3. ASSUME NEW p \in Statement \cup {"respond"}, pc'[w] = p, UNCHANGED attempt, Rank(p) < Rank(pc[w])
      PROVE  Left(w)' < Left(w)
  <2>1. Rank(p) \in 1..6 /\ Rank(pc[w]) \in 1..6
    BY <1>0, RankType
  <2>2. p # "idle"
    BY DEF Statement
  <2>3. QED
    BY <1>0, <1>3, <2>1, <2>2 DEF Left
<1>4. ASSUME NEW p \in Statement \cup {"respond"}, GoTo(w, p), Rank(p) < Rank(pc[w])
      PROVE  Left(w)' < Left(w)
  BY <1>0, <1>3, <1>4 DEF GoTo
<1>5. ASSUME NEW e, NEW v, CheckRow(w, e, v), pc[w] \in {"select_event", "select_comment"}
      PROVE  Left(w)' < Left(w)
  <2>1. InsertStatement(job[w].op) \in {"insert_comment", "insert_reply"}
    BY DEF InsertStatement
  <2>2. \/ Finish(w)
        \/ UNCHANGED attempt /\ pc'[w] \in {"insert_comment", "insert_reply", "select_attendance"}
    BY <1>0, <1>5, <2>1 DEF CheckRow
  <2>3. Rank(pc[w]) = 6 /\ \A p \in {"insert_comment", "insert_reply", "select_attendance"} :
                             Rank(p) < 6 /\ p \in Statement
    BY <1>5 DEF Rank, Statement
  <2>4. QED
    BY <1>2, <1>3, <2>2, <2>3
<1>6. CASE SelectEvent(w) \/ SelectComment(w)
  BY <1>2, <1>5, <1>6 DEF SelectEvent, SelectComment
<1>7. CASE SelectAttendance(w) \/ SelectInvitation(w)
  <2>1. InsertStatement(job[w].op) \in {"insert_comment", "insert_reply"}
    BY DEF InsertStatement
  <2>2. \A p \in {"insert_comment", "insert_reply"} : p \in Statement /\ Rank(p) = 3
    BY DEF Rank, Statement
  <2>3. /\ "select_invitation" \in Statement /\ Rank("select_invitation") = 4
        /\ Rank("select_attendance") = 5
    BY DEF Rank, Statement
  <2>4. QED
    BY <1>2, <1>4, <1>7, <2>1, <2>2, <2>3 DEF SelectAttendance, SelectInvitation
<1>8. CASE InsertComment(w) \/ InsertReply(w) \/ Recount(w) \/ Respond(w)
  <2>1. /\ Rank("insert_comment") = 3 /\ Rank("insert_reply") = 3 /\ Rank("recount") = 2
        /\ Rank("respond") = 1 /\ "recount" \in Statement
    BY DEF Rank, Statement
  <2>2. QED
    BY <1>2, <1>4, <1>8, <2>1 DEF InsertComment, InsertReply, Recount, Respond
<1>9. CASE DeleteComment(w) \/ DeleteReplies(w) \/ DeleteReply(w)
  <2>1. /\ Rank("delete_comment") = 3 /\ Rank("delete_reply") = 3 /\ Rank("recount") = 2
        /\ Rank("delete_replies") = 2 /\ Rank("respond") = 1
        /\ {"recount", "delete_replies"} \subseteq Statement
    BY DEF Rank, Statement
  <2>2. QED
    BY <1>2, <1>4, <1>9, <2>1 DEF DeleteComment, DeleteReplies, DeleteReply
<1>10. CASE SelectReply(w) \/ SelectPrivilege(w)
  <2>1. /\ Rank("select_reply") = 5 /\ Rank("select_privilege") = 4 /\ Rank("delete_reply") = 3
        /\ {"select_privilege", "delete_reply"} \subseteq Statement
    BY DEF Rank, Statement
  <2>2. SelectReply(w) => Finish(w) \/ (UNCHANGED attempt /\ pc'[w] \in {"select_privilege", "delete_reply"})
    BY <1>0 DEF SelectReply
  <2>3. SelectReply(w) => pc[w] = "select_reply"
    BY DEF SelectReply
  <2>4. SelectReply(w) => Left(w)' < Left(w)
    BY <1>2, <1>3, <2>1, <2>2, <2>3
  <2>5. QED
    BY <1>2, <1>4, <1>10, <2>1, <2>4 DEF SelectPrivilege
<1>11. CASE LoseConnection(w) \/ FailStatement(w)
  <2>1. \/ Finish(w)
        \/ /\ attempt[w] = 1 /\ pc'[w] = FirstStatement(job[w].op) /\ attempt'[w] = 2
    BY <1>0, <1>11 DEF LoseConnection, FailStatement
  <2>2. job[w].op \in Operation \ {"none"}
    BY <1>0 DEF JobOK, Job
  <2>3. FirstStatement(job[w].op) \in Statement
    BY <2>2, FirstStatementType
  <2>4. Rank(FirstStatement(job[w].op)) \in 1..6 /\ Rank(pc[w]) \in 1..6
    BY <1>0, <2>3, RankType
  <2>5. FirstStatement(job[w].op) # "idle"
    BY <2>3 DEF Statement
  <2>6. QED
    BY <1>0, <1>2, <2>1, <2>4, <2>5 DEF Left
<1>12. ~ReceivePostComment(w) /\ ~ReceivePostReply(w) /\ ~ReceiveDeleteComment(w) /\ ~ReceiveDeleteReply(w)
  BY DEF ReceivePostComment, ReceivePostReply, ReceiveDeleteComment, ReceiveDeleteReply, Receive
<1>13. QED
  BY <1>6, <1>7, <1>8, <1>9, <1>10, <1>11, <1>12 DEF Act, Handle

LEMMA AttemptOfOthers ==
  ASSUME Tables, NEW w \in Worker, Act(w), NEW v \in Worker, v # w
  PROVE  attempt'[v] = attempt[v]
<1>0. attempt \in [Worker -> {1, 2}]
  BY DEF Tables, TypeOK
<1>1. Finish(w) => attempt'[v] = attempt[v]
  BY <1>0 DEF Finish
<1>2. ASSUME NEW s, GoTo(w, s) PROVE attempt'[v] = attempt[v]
  BY <1>2 DEF GoTo
<1>3. ASSUME NEW e, NEW x, CheckRow(w, e, x) PROVE attempt'[v] = attempt[v]
  BY <1>1, <1>3 DEF CheckRow
<1>4. CASE \/ ReceivePostComment(w) \/ ReceivePostReply(w)
           \/ ReceiveDeleteComment(w) \/ ReceiveDeleteReply(w)
  BY <1>4 DEF ReceivePostComment, ReceivePostReply, ReceiveDeleteComment, ReceiveDeleteReply, Receive
<1>5. CASE SelectEvent(w) \/ SelectComment(w) \/ SelectReply(w)
  BY <1>1, <1>3, <1>5 DEF SelectEvent, SelectComment, SelectReply
<1>6. CASE \/ SelectAttendance(w) \/ SelectInvitation(w) \/ SelectPrivilege(w) \/ Respond(w)
           \/ InsertComment(w) \/ InsertReply(w) \/ Recount(w)
           \/ DeleteComment(w) \/ DeleteReplies(w) \/ DeleteReply(w)
  BY <1>1, <1>2, <1>6
     DEF SelectAttendance, SelectInvitation, SelectPrivilege, Respond, InsertComment, InsertReply,
         Recount, DeleteComment, DeleteReplies, DeleteReply
<1>7. CASE LoseConnection(w) \/ FailStatement(w)
  BY <1>0, <1>1, <1>7 DEF LoseConnection, FailStatement
<1>8. QED
  BY <1>4, <1>5, <1>6, <1>7 DEF Act, Handle

\* The four handlers of Events.cpp have no loop and wait for nobody: each
\* statement that a worker executes, and each fault, brings its request nearer
\* to its response, in at most twelve steps, and no other worker's statement
\* sets it back.  (That they are executed is fairness, which TLC uses.)
THEOREM HandlersEnd == Spec => [][HandlersAdvance]_vars
<1>1. ASSUME Tables, [Next]_vars, NEW v \in Worker, pc[v] # "idle"
      PROVE  (pc'[v] = pc[v] /\ job'[v] = job[v] /\ attempt'[v] = attempt[v]) \/ Left(v)' < Left(v)
  <2>1. CASE Others \/ UNCHANGED vars
    BY <2>1, OthersKeepThreads DEF threads, vars
  <2>2. CASE Act(v)
    BY <1>1, <2>2, ActLowers
  <2>3. ASSUME NEW w \in Worker, Act(w), w # v
        PROVE  pc'[v] = pc[v] /\ job'[v] = job[v] /\ attempt'[v] = attempt[v]
    <3>1. pc'[v] = pc[v] /\ job'[v] = job[v]
      BY <1>1, <2>3, OtherWorkers DEF Tables
    <3>2. attempt'[v] = attempt[v]
      BY <1>1, <2>3, AttemptOfOthers
    <3>3. QED
      BY <3>1, <3>2
  <2>4. QED
    BY <1>1, <2>1, <2>2, <2>3, NextActs
<1>2. Tables /\ [Next]_vars => HandlersAdvance
  BY <1>1 DEF HandlersAdvance
<1>3. QED
  BY <1>2, TablesInit, TablesStep, PTL DEF Spec
=============================================================================
