----------------------------- MODULE Discussion -----------------------------
(***************************************************************************)
(* The discussion under an event: the tables Comments and Replies, and the *)
(* four request handlers that write them (Backend/DB/Events.cpp).          *)
(*                                                                         *)
(* Requests are served by a pool of worker threads, each with a database   *)
(* connection of its own.  Nothing opens a transaction, so every SQL       *)
(* statement commits by itself: one action below is one statement, and the *)
(* statements of different workers interleave.  What a worker read stays   *)
(* in its local variables while the tables move on.                        *)
(*                                                                         *)
(* A lost connection makes db_handle_connection_fail run the handler again *)
(* from its first statement, once; any other exception ends the request.   *)
(*                                                                         *)
(* The events come and go around the discussion as module EventRows says,  *)
(* which the handlers of module Events are shown to implement.             *)
(***************************************************************************)
EXTENDS Integers, FiniteSets

CONSTANTS
  User,             \* registered users
  Event,            \* events
  Worker,           \* threads of the HTTP server's pool
  Organiser,        \* Organiser[e]: the user who created event e
  Visitor,          \* bound: the users who come to events and are invited to them
  Promotable,       \* bound: the users whose privilege level is ever changed
  MaxReplies,       \* post_reply refuses when the column shows this many (100)
  MaxCommentId,     \* bound: where the AUTO_INCREMENT of Comments runs out
  MaxReplyId,       \* bound: where the AUTO_INCREMENT of Replies runs out
  MaxFaults,        \* bound: failed statements and lost connections per behaviour
  None              \* no event

ASSUME DiscussionAssumptions ==
  /\ IsFiniteSet(Worker)
  /\ Organiser \in [Event -> User]
  /\ Visitor \subseteq User
  /\ Promotable \subseteq User
  /\ None \notin Event
  /\ MaxReplies \in Nat \ {0}
  /\ MaxCommentId \in Nat
  /\ MaxReplyId \in Nat
  /\ MaxFaults \in Nat

CommentId == 1..MaxCommentId
ReplyId   == 1..MaxReplyId

Visibility == {"none", "draft", "private", "public", "deleted"}

CommentRow == [id : CommentId, event : Event, user : User]
ReplyRow   == [id : ReplyId, parent : CommentId, event : Event, user : User]

Operation == {"none", "post_comment", "post_reply", "delete_comment", "delete_reply"}

Statement ==
  {"select_event", "select_comment", "select_attendance", "select_invitation",
   "insert_comment", "insert_reply", "recount", "delete_comment",
   "delete_replies", "select_reply", "select_privilege", "delete_reply"}

\* A worker's request and what its handler remembers of the rows it read.
Job == [op : Operation, user : User \cup {None}, event : Event \cup {None},
        visibility : Visibility, comment : 0..MaxCommentId, reply : 0..MaxReplyId]

NoJob == [op |-> "none", user |-> None, event |-> None,
          visibility |-> "none", comment |-> 0, reply |-> 0]

VARIABLES
  visibility,     \* Events.is_published and is_public; "none": the id is not issued
                  \* yet, "deleted": the row is gone
  attending,      \* EventAttendance: pairs <<event, user>>
  invited,        \* EventInvitations: pairs <<event, user with that e-mail address>>
  moderators,     \* users with privilege_level >= 1
  comments,       \* Comments, without the column number_of_replies
  replyCount,     \* Comments.number_of_replies, by comment id
  replies,        \* Replies
  nextComment,    \* AUTO_INCREMENT of Comments
  nextReply,      \* AUTO_INCREMENT of Replies
  pc,             \* the statement each worker executes next
  job,            \* the request each worker serves
  attempt,        \* 1, or 2 while the handler is re-run
  faults,         \* history: failed statements and lost connections so far
  stale,          \* history: comments whose latest recount was lost to a fault
  admitted,       \* history: pairs <<event, user>> that could view the event at some time
  demoted         \* history: users who were moderators once

environment == <<visibility, attending, invited, moderators>>
tables      == <<comments, replyCount, replies, nextComment, nextReply>>
threads     == <<pc, job, attempt>>
history     == <<faults, stale, admitted, demoted>>
vars        == <<environment, tables, threads, history>>

\* The life of the events, with this module's visibility, attending and invited.
Rows == INSTANCE EventRows WITH User <- Visitor

CommentRows(c) == {row \in comments : row.id = c}
ReplyRows(r)   == {row \in replies : row.id = r}
RepliesOf(c)   == {row \in replies : row.parent = c}
Live(c)        == \E row \in comments : row.id = c

FirstStatement(op) ==
  CASE op = "post_comment"   -> "select_event"
    [] op = "post_reply"     -> "select_comment"
    [] op = "delete_comment" -> "delete_comment"
    [] op = "delete_reply"   -> "select_reply"

InsertStatement(op) == IF op = "post_comment" THEN "insert_comment" ELSE "insert_reply"
-----------------------------------------------------------------------------
Init ==
  /\ Rows!Init
  /\ moderators = {}
  /\ comments = {}
  /\ replyCount = [c \in CommentId |-> 0]
  /\ replies = {}
  /\ nextComment = 1
  /\ nextReply = 1
  /\ pc = [w \in Worker |-> "idle"]
  /\ job = [w \in Worker |-> NoJob]
  /\ attempt = [w \in Worker |-> 1]
  /\ faults = 0
  /\ stale = {}
  /\ admitted = {}
  /\ demoted = {}

(***************************************************************************)
(* The control flow of a handler: on to a statement, or back to the pool   *)
(* with a response (a value, an error code, or 500 after an exception).    *)
(***************************************************************************)
GoTo(w, statement) ==
  /\ pc' = [pc EXCEPT ![w] = statement]
  /\ UNCHANGED <<job, attempt>>

Finish(w) ==
  /\ pc' = [pc EXCEPT ![w] = "idle"]
  /\ job' = [job EXCEPT ![w] = NoJob]
  /\ attempt' = [attempt EXCEPT ![w] = 1]

Receive(w, request) ==
  /\ pc[w] = "idle"
  /\ pc' = [pc EXCEPT ![w] = FirstStatement(request.op)]
  /\ job' = [job EXCEPT ![w] = request]
  /\ UNCHANGED <<attempt, environment, tables, history>>

ReceivePostComment(w) == \E u \in User, e \in Event :
  Receive(w, [NoJob EXCEPT !.op = "post_comment", !.user = u, !.event = e])
ReceivePostReply(w) == \E u \in User, c \in CommentId :
  Receive(w, [NoJob EXCEPT !.op = "post_reply", !.user = u, !.comment = c])
ReceiveDeleteComment(w) == \E u \in User, c \in CommentId :
  Receive(w, [NoJob EXCEPT !.op = "delete_comment", !.user = u, !.comment = c])
ReceiveDeleteReply(w) == \E u \in User, r \in ReplyId :
  Receive(w, [NoJob EXCEPT !.op = "delete_reply", !.user = u, !.reply = r])

\* The response of a handler whose last statement was executed; until it is
\* known to have been executed the connection can still be lost.
Respond(w) ==
  /\ pc[w] = "respond"
  /\ Finish(w)
  /\ UNCHANGED <<environment, tables, history>>

(***************************************************************************)
(* check_event_view_permission: what follows once the event's row is read. *)
(* A public event still costs the attendance query, whose result is only   *)
(* reported.                                                               *)
(***************************************************************************)
\* Mutant: the test that the event is published is forgotten.
CheckRowUnpublished(w, e, v) ==
  /\ pc' = [pc EXCEPT ![w] = IF job[w].user = Organiser[e]
                             THEN InsertStatement(job[w].op) ELSE "select_attendance"]
  /\ job' = [job EXCEPT ![w].event = e, ![w].visibility = v]
  /\ UNCHANGED attempt

CheckRow(w, e, v) ==
  LET u == job[w].user
      next == IF u = Organiser[e] THEN InsertStatement(job[w].op) ELSE "select_attendance"
  IN IF v = "draft" /\ u # Organiser[e]
     THEN Finish(w)
     ELSE /\ pc' = [pc EXCEPT ![w] = next]
          /\ job' = [job EXCEPT ![w].event = e, ![w].visibility = v]
          /\ UNCHANGED attempt

SelectEvent(w) ==
  /\ pc[w] = "select_event"
  /\ LET e == job[w].event
     IN IF Rows!Here(e)
        THEN CheckRow(w, e, visibility[e])
        ELSE Finish(w)
  /\ UNCHANGED <<environment, tables, history>>

\* Mutant: the limit is off by one.
SelectCommentOffByOne(w) ==
  /\ pc[w] = "select_comment"
  /\ LET c == job[w].comment
     IN \/ ~Live(c) /\ Finish(w)
        \/ \E row \in CommentRows(c) :
             IF replyCount[c] > MaxReplies
             THEN Finish(w)
             ELSE CheckRow(w, row.event, visibility[row.event])
  /\ UNCHANGED <<environment, tables, history>>

\* post_reply: SELECT the comment joined with its event, and the limit check.
SelectComment(w) ==
  /\ pc[w] = "select_comment"
  /\ LET c == job[w].comment
     IN \/ /\ ~Live(c)
           /\ Finish(w)
        \/ \E row \in CommentRows(c) :
             IF replyCount[c] >= MaxReplies
             THEN Finish(w)
             ELSE CheckRow(w, row.event, visibility[row.event])
  /\ UNCHANGED <<environment, tables, history>>

SelectAttendance(w) ==
  /\ pc[w] = "select_attendance"
  /\ IF job[w].visibility = "public" \/ <<job[w].event, job[w].user>> \in attending
     THEN GoTo(w, InsertStatement(job[w].op))
     ELSE GoTo(w, "select_invitation")
  /\ UNCHANGED <<environment, tables, history>>

SelectInvitation(w) ==
  /\ pc[w] = "select_invitation"
  /\ IF <<job[w].event, job[w].user>> \in invited
     THEN GoTo(w, InsertStatement(job[w].op))
     ELSE Finish(w)
  /\ UNCHANGED <<environment, tables, history>>
-----------------------------------------------------------------------------
\* INSERT throws when the event is gone (foreign key) or the ids have run out.
InsertComment(w) ==
  /\ pc[w] = "insert_comment"
  /\ \/ /\ Rows!Here(job[w].event)
        /\ nextComment <= MaxCommentId
        /\ comments' = comments \cup
             {[id |-> nextComment, event |-> job[w].event, user |-> job[w].user]}
        /\ nextComment' = nextComment + 1
        /\ GoTo(w, "respond")
     \/ /\ ~Rows!Here(job[w].event) \/ nextComment > MaxCommentId
        /\ Finish(w)
        /\ UNCHANGED <<comments, nextComment>>
  /\ UNCHANGED <<environment, replyCount, replies, nextReply, history>>

\* Mutant: the reply is inserted without the foreign key on its comment.
InsertReplyUnchecked(w) ==
  /\ pc[w] = "insert_reply"
  /\ nextReply <= MaxReplyId
  /\ replies' = replies \cup
       {[id |-> nextReply, parent |-> job[w].comment,
         event |-> job[w].event, user |-> job[w].user]}
  /\ nextReply' = nextReply + 1
  /\ GoTo(w, "recount")
  /\ UNCHANGED <<environment, comments, replyCount, nextComment, history>>

InsertReply(w) ==
  /\ pc[w] = "insert_reply"
  /\ \/ /\ Live(job[w].comment)
        /\ nextReply <= MaxReplyId
        /\ replies' = replies \cup
             {[id |-> nextReply, parent |-> job[w].comment,
               event |-> job[w].event, user |-> job[w].user]}
        /\ nextReply' = nextReply + 1
        /\ GoTo(w, "recount")
     \/ /\ ~Live(job[w].comment) \/ nextReply > MaxReplyId
        /\ Finish(w)
        /\ UNCHANGED <<replies, nextReply>>
  /\ UNCHANGED <<environment, comments, replyCount, nextComment, history>>

\* Mutant: the shown number is counted up and down instead of recounted.
RecountByOne(w) ==
  /\ pc[w] = "recount"
  /\ LET c == job[w].comment
         step == IF job[w].op = "post_reply" THEN 1 ELSE -1
     IN /\ replyCount' = IF Live(c) THEN [replyCount EXCEPT ![c] = @ + step] ELSE replyCount
        /\ stale' = stale \ {c}
  /\ GoTo(w, "respond")
  /\ UNCHANGED <<environment, comments, replies, nextComment, nextReply,
                 faults, admitted, demoted>>

\* UPDATE Comments SET number_of_replies = (SELECT COUNT(*) ...) WHERE id = ...
Recount(w) ==
  /\ pc[w] = "recount"
  /\ LET c == job[w].comment
     IN /\ replyCount' = IF Live(c)
                         THEN [replyCount EXCEPT ![c] = Cardinality(RepliesOf(c))]
                         ELSE replyCount
        /\ stale' = stale \ {c}
  /\ GoTo(w, "respond")
  /\ UNCHANGED <<environment, comments, replies, nextComment, nextReply,
                 faults, admitted, demoted>>
-----------------------------------------------------------------------------
\* Mutant: no ON DELETE CASCADE.
RemoveCommentsOnly(gone) ==
  /\ comments' = comments \ gone
  /\ UNCHANGED replies

\* The foreign key Replies.parent_comment_id deletes the replies in the same step.
RemoveComments(gone) ==
  /\ comments' = comments \ gone
  /\ replies' = {row \in replies : \A c \in gone : row.parent # c.id}

\* DELETE FROM Comments WHERE id = ? AND (user_id = ? OR the user's level >= 1)
DeleteComment(w) ==
  /\ pc[w] = "delete_comment"
  /\ LET u == job[w].user
         gone == {row \in CommentRows(job[w].comment) : row.user = u \/ u \in moderators}
     IN /\ RemoveComments(gone)
        /\ IF gone = {} THEN Finish(w) ELSE GoTo(w, "delete_replies")
  /\ UNCHANGED <<environment, replyCount, nextComment, nextReply, history>>

DeleteReplies(w) ==
  /\ pc[w] = "delete_replies"
  /\ replies' = replies \ RepliesOf(job[w].comment)
  /\ GoTo(w, "respond")
  /\ UNCHANGED <<environment, comments, replyCount, nextComment, nextReply, history>>

\* Mutant: the author of the reply is not compared with the user.
SelectReplyOfAnyone(w) ==
  /\ pc[w] = "select_reply"
  /\ \/ ReplyRows(job[w].reply) = {} /\ Finish(w)
     \/ \E row \in ReplyRows(job[w].reply) :
          /\ pc' = [pc EXCEPT ![w] = "delete_reply"]
          /\ job' = [job EXCEPT ![w].comment = row.parent]
          /\ UNCHANGED attempt
  /\ UNCHANGED <<environment, tables, history>>

SelectReply(w) ==
  /\ pc[w] = "select_reply"
  /\ \/ /\ ReplyRows(job[w].reply) = {}
        /\ Finish(w)
     \/ \E row \in ReplyRows(job[w].reply) :
          /\ pc' = [pc EXCEPT ![w] = IF row.user = job[w].user
                                     THEN "delete_reply" ELSE "select_privilege"]
          /\ job' = [job EXCEPT ![w].comment = row.parent]
          /\ UNCHANGED attempt
  /\ UNCHANGED <<environment, tables, history>>

SelectPrivilege(w) ==
  /\ pc[w] = "select_privilege"
  /\ IF job[w].user \in moderators THEN GoTo(w, "delete_reply") ELSE Finish(w)
  /\ UNCHANGED <<environment, tables, history>>

\* Mutant: the recount after the deletion is forgotten.
DeleteReplyOnly(w) ==
  /\ pc[w] = "delete_reply"
  /\ replies' = replies \ ReplyRows(job[w].reply)
  /\ GoTo(w, "respond")
  /\ UNCHANGED <<environment, comments, replyCount, nextComment, nextReply, history>>

DeleteReply(w) ==
  /\ pc[w] = "delete_reply"
  /\ replies' = replies \ ReplyRows(job[w].reply)
  /\ GoTo(w, "recount")
  /\ UNCHANGED <<environment, comments, replyCount, nextComment, nextReply, history>>
-----------------------------------------------------------------------------
(***************************************************************************)
(* Faults.  A lost connection re-runs the handler, whatever its statements *)
(* have done already; the second one, and every other exception (a         *)
(* deadlock victim, a timeout), ends the request with status 500.          *)
(***************************************************************************)
NoteFault(w) ==
  /\ faults < MaxFaults
  /\ faults' = faults + 1
  /\ stale' = IF pc[w] = "recount" THEN stale \cup {job[w].comment} ELSE stale

LoseConnection(w) ==
  /\ pc[w] # "idle"
  /\ NoteFault(w)
  /\ \/ /\ attempt[w] = 1
        /\ pc' = [pc EXCEPT ![w] = FirstStatement(job[w].op)]
        /\ attempt' = [attempt EXCEPT ![w] = 2]
        /\ UNCHANGED job
     \/ /\ attempt[w] = 2
        /\ Finish(w)
  /\ UNCHANGED <<environment, tables, admitted, demoted>>

FailStatement(w) ==
  /\ pc[w] \in Statement
  /\ NoteFault(w)
  /\ Finish(w)
  /\ UNCHANGED <<environment, tables, admitted, demoted>>

(***************************************************************************)
(* What other handlers do to the rows these handlers read: each a row      *)
(* change of EventRows, which Events is shown to implement, with what it   *)
(* does to the discussion; and one statement of set_user_privilege.        *)
(***************************************************************************)
CanView(e, u) ==
  /\ Rows!Here(e)
  /\ \/ u = Organiser[e]
     \/ visibility[e] = "public"
     \/ visibility[e] = "private" /\ <<e, u>> \in attending \cup invited

NoteAdmitted == admitted' = admitted \cup {p \in Event \X User : CanView(p[1], p[2])'}

\* Rows that come and change do nothing to the tables of the discussion ...
ChangeRows(e) ==
  /\ \/ Rows!Create(e) \/ Rows!Edit(e)
     \/ \E u \in Visitor : Rows!Attend(e, u) \/ Rows!Invite(e, u)
  /\ NoteAdmitted
  /\ UNCHANGED <<moderators, tables, threads, faults, stale, demoted>>

\* ... and an event that goes takes its comments with it (foreign key).
DeleteEvent(e) ==
  /\ Rows!Delete(e)
  /\ RemoveComments({row \in comments : row.event = e})
  /\ UNCHANGED <<moderators, replyCount, nextComment, nextReply, threads, history>>

ChangePrivilege(u) ==
  /\ moderators' \in {moderators \cup {u}, moderators \ {u}}
  /\ demoted' = demoted \cup (moderators \ moderators')
  /\ UNCHANGED <<visibility, attending, invited, tables, threads, faults, stale, admitted>>
-----------------------------------------------------------------------------
Handle(w) ==
  \/ SelectEvent(w) \/ SelectComment(w) \/ SelectAttendance(w) \/ SelectInvitation(w)
  \/ InsertComment(w) \/ InsertReply(w) \/ Recount(w)
  \/ DeleteComment(w) \/ DeleteReplies(w)
  \/ SelectReply(w) \/ SelectPrivilege(w) \/ DeleteReply(w)
  \/ Respond(w)

Next ==
  \/ \E w \in Worker :
       \/ ReceivePostComment(w) \/ ReceivePostReply(w)
       \/ ReceiveDeleteComment(w) \/ ReceiveDeleteReply(w)
       \/ Handle(w)
       \/ LoseConnection(w) \/ FailStatement(w)
  \/ \E e \in Event : ChangeRows(e) \/ DeleteEvent(e)
  \/ \E u \in Promotable : ChangePrivilege(u)

Spec == Init /\ [][Next]_vars

\* A worker that has taken a request executes its handler to the end.
FairSpec == Spec /\ \A w \in Worker : WF_vars(Handle(w))
-----------------------------------------------------------------------------
\* The types of the tables, of the threads' variables and of the histories.
TypeOK ==
  /\ visibility \in [Event -> Visibility]
  /\ attending \subseteq Event \X User
  /\ invited \subseteq Event \X User
  /\ moderators \subseteq User
  /\ comments \subseteq CommentRow
  /\ replyCount \in [CommentId -> Nat]
  /\ replies \subseteq ReplyRow
  /\ nextComment \in 1..(MaxCommentId + 1)
  /\ nextReply \in 1..(MaxReplyId + 1)
  /\ pc \in [Worker -> Statement \cup {"idle", "respond"}]
  /\ job \in [Worker -> Job]
  /\ attempt \in [Worker -> {1, 2}]
  /\ faults \in 0..MaxFaults
  /\ stale \subseteq CommentId
  /\ admitted \subseteq Event \X User
  /\ demoted \subseteq User

(***************************************************************************)
(* Every reply hangs under a comment that is still there and carries that  *)
(* comment's event, and the event is still there, whatever was deleted     *)
(* between the statements of post_reply that read the comment and insert   *)
(* under it ("matches parent_comment_id->event_id", the schema says; no    *)
(* foreign key enforces it).                                               *)
(***************************************************************************)
RepliesBelong ==
  /\ \A reply \in replies : \E row \in comments :
       row.id = reply.parent /\ row.event = reply.event
  /\ \A row \in comments : Rows!Here(row.event)

(***************************************************************************)
(* The number of replies shown under a comment, which the page uses to     *)
(* offer them, differs from the number of replies only while some worker   *)
(* has yet to execute the recount for that comment, or when the recount    *)
(* was lost to a fault and no later one repaired it.                       *)
(***************************************************************************)
RecountPending(c) == \E w \in Worker : pc[w] = "recount" /\ job[w].comment = c
CountExact(c) == Live(c) => replyCount[c] = Cardinality(RepliesOf(c))
CountSettled == \A c \in CommentId : CountExact(c) \/ RecountPending(c) \/ c \in stale

(***************************************************************************)
(* post_reply checks the limit against a number that lags behind, so the   *)
(* limit is exceeded, but never by more than one reply for each of the     *)
(* other workers and one for each fault.                                   *)
(***************************************************************************)
ReplyLimit == MaxReplies - 1 + Cardinality(Worker) + MaxFaults
RepliesBounded == \A c \in CommentId : Cardinality(RepliesOf(c)) <= ReplyLimit

(***************************************************************************)
(* Nothing is posted under an event by somebody who never could view it,   *)
(* although the checks read the event, the attendance and the invitation   *)
(* in separate statements and the insert comes later still.                *)
(***************************************************************************)
AuthorsWereAdmitted == \A row \in comments \cup replies : <<row.event, row.user>> \in admitted

(***************************************************************************)
(* A reply is taken from a comment that stays only on behalf of its author *)
(* or of somebody who was a moderator (delete_reply reads the privilege    *)
(* before it deletes, so it may have been revoked since); a comment is     *)
(* taken from an event that stays only for its author or a moderator.      *)
(***************************************************************************)
RemovalByRight ==
  /\ \A row \in replies \ replies' :
       \/ row.parent \notin {c.id : c \in comments'}
       \/ \E w \in Worker : job[w].user \in {row.user} \cup moderators \cup demoted
  /\ \A row \in comments \ comments' :
       \/ visibility'[row.event] = "deleted"
       \/ \E w \in Worker : job[w].user \in {row.user} \cup moderators
RemovedByRight == [][RemovalByRight]_vars

\* The shown number of replies keeps coming back to the truth: whatever the
\* workers do, each comment's count is exact again and again, until a fault
\* leaves it stale for good.
CountConverges == \A c \in CommentId : []<>(CountExact(c) \/ c \in stale)

\* The four handlers implement the discussion board the readers see.
Implemented == INSTANCE Board WITH
  threads    <- {row.id : row \in comments},
  posts      <- {<<row.parent, row.id>> : row \in replies},
  lastThread <- nextComment - 1,
  lastPost   <- nextReply - 1,
  Limit      <- ReplyLimit
ImplementsBoard == Implemented!Spec
=============================================================================
