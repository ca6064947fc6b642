----------------------------- MODULE EmailQueue -----------------------------
(***************************************************************************)
(* The e-mail sender (Backend/Email.cpp, Backend/Main.cpp): the handlers   *)
(* push mails on a queue guarded by a mutex, and one thread takes the      *)
(* whole queue, sends it mail by mail without the mutex, sleeps and looks  *)
(* again.  An operation under the mutex is one action.                     *)
(*                                                                         *)
(* stop_thread clears a flag and joins nobody: main returns while the      *)
(* thread may be anywhere, and the process ends with it.                   *)
(***************************************************************************)
EXTENDS Integers, Sequences

CONSTANTS
  Limit,          \* no mail is accepted when the queue holds this many (3000)
  MaxBatch,       \* bound: the longest list given to send_emails
  MaxMails        \* bound: mails that are accepted or dropped per behaviour

ASSUME EmailQueueAssumptions ==
  /\ Limit \in Nat \ {0}
  /\ MaxBatch \in Nat \ {0}
  /\ MaxMails \in Nat

\* named: it names its event, if it is an invitation.
Mail == [id : 1..MaxMails, named : BOOLEAN]

VARIABLES
  queue,          \* email_queue
  batch,          \* emails_to_send: the sender's own queue
  sender,         \* where the sender thread is; "died": an exception left it
  connected,      \* curl is set up
  keepRunning,    \* keep_running
  process,        \* "serving", "stopping" once stop_thread was called, "ended"
  offered,        \* history: how many mails were handed to the two functions
  tried           \* history: the mails the sender is done with, in order

vars == <<queue, batch, sender, connected, keepRunning, process, offered, tried>>

Init ==
  /\ queue = <<>>
  /\ batch = <<>>
  /\ sender = "checking"
  /\ connected = FALSE
  /\ keepRunning = TRUE
  /\ process = "serving"
  /\ offered = 0
  /\ tried = <<>>

Offer(n) ==
  /\ process = "serving"
  /\ offered + n <= MaxMails
  /\ offered' = offered + n
  /\ UNCHANGED <<batch, sender, connected, keepRunning, process, tried>>

\* Mutant: one mail more than the limit.
PushOverLimit(mails) ==
  queue' = IF Len(queue) > Limit THEN queue ELSE queue \o mails

\* The length is looked at once, before the first of the mails.
Push(mails) ==
  queue' = IF Len(queue) >= Limit THEN queue ELSE queue \o mails

\* send_email, for a welcome, a password reset or unread notifications.
SendEmail ==
  /\ Offer(1)
  /\ Push(<<[id |-> offered + 1, named |-> TRUE]>>)

\* Mutant: one mail more than the list has addresses.
SendInvitationEmailsPastEnd(n) ==
  /\ Offer(n)
  /\ Push([i \in 1..(n + 1) |-> [id |-> offered + i, named |-> i = 1]])

\* send_invitation_emails: the name is moved into the first mail of the list,
\* which leaves none for the others.
SendInvitationEmails(n) ==
  /\ Offer(n)
  /\ Push([i \in 1..n |-> [id |-> offered + i, named |-> i = 1]])
-----------------------------------------------------------------------------
CheckRunning ==
  /\ sender = "checking"
  /\ sender' = IF keepRunning THEN "taking" ELSE "stopped"
  /\ UNCHANGED <<queue, batch, connected, keepRunning, process, offered, tried>>

\* Mutant: the queue is copied, not moved.
TakeQueueCopied ==
  /\ sender = "taking"
  /\ batch' = queue
  /\ sender' = "sending"
  /\ UNCHANGED <<queue, connected, keepRunning, process, offered, tried>>

TakeQueue ==
  /\ sender = "taking"
  /\ batch' = queue
  /\ queue' = <<>>
  /\ sender' = "sending"
  /\ UNCHANGED <<connected, keepRunning, process, offered, tried>>

\* Mutant: a mail that could not be sent ends the loop over the batch.
SendNextOrGiveUp ==
  /\ sender = "sending"
  /\ batch # <<>>
  /\ connected' \in {connected, TRUE}
  /\ tried' = Append(tried, Head(batch))
  /\ \/ batch' = Tail(batch) /\ UNCHANGED sender
     \/ batch' = <<>> /\ sender' = "sleeping"
  /\ UNCHANGED <<queue, keepRunning, process, offered>>

\* do_send_email and pop.  Sent, refused by the server or written to the log for
\* a phony address (which needs no connection): the sender is done with it.
SendNext ==
  /\ sender = "sending"
  /\ batch # <<>>
  /\ connected' \in {connected, TRUE}
  /\ tried' = Append(tried, Head(batch))
  /\ batch' = Tail(batch)
  /\ UNCHANGED <<queue, sender, keepRunning, process, offered>>

\* curl_easy_init failed: the exception leaves the thread's function, and
\* std::terminate ends the process.
FailToConnect ==
  /\ sender = "sending"
  /\ batch # <<>>
  /\ ~connected
  /\ sender' = "died"
  /\ process' = "ended"
  /\ UNCHANGED <<queue, batch, connected, keepRunning, offered, tried>>

FinishBatch ==
  /\ sender = "sending"
  /\ batch = <<>>
  /\ sender' = "sleeping"
  /\ UNCHANGED <<queue, batch, connected, keepRunning, process, offered, tried>>

WakeUp ==
  /\ sender = "sleeping"
  /\ sender' = "checking"
  /\ UNCHANGED <<queue, batch, connected, keepRunning, process, offered, tried>>
-----------------------------------------------------------------------------
\* start_server returned; its workers have been joined.
StopThread ==
  /\ process = "serving"
  /\ process' = "stopping"
  /\ keepRunning' = FALSE
  /\ UNCHANGED <<queue, batch, sender, connected, offered, tried>>

\* main returns and the static objects are destroyed, the thread unjoined.
Exit ==
  /\ process = "stopping"
  /\ process' = "ended"
  /\ UNCHANGED <<queue, batch, sender, connected, keepRunning, offered, tried>>

Sender ==
  /\ process # "ended"
  /\ CheckRunning \/ TakeQueue \/ SendNext \/ FailToConnect \/ FinishBatch \/ WakeUp

Next ==
  \/ SendEmail
  \/ \E n \in 0..MaxBatch : SendInvitationEmails(n)
  \/ Sender
  \/ StopThread \/ Exit

Spec == Init /\ [][Next]_vars

\* The sender's thread is scheduled, and the mail server answers or hangs up.
FairSpec == Spec /\ WF_vars(Sender)
-----------------------------------------------------------------------------
TypeOK ==
  /\ queue \in Seq(Mail)
  /\ batch \in Seq(Mail)
  /\ sender \in {"checking", "taking", "sending", "sleeping", "stopped", "died"}
  /\ connected \in BOOLEAN
  /\ keepRunning \in BOOLEAN
  /\ process \in {"serving", "stopping", "ended"}
  /\ offered \in 0..MaxMails
  /\ tried \in Seq(Mail)

(***************************************************************************)
(* The limit is exceeded, since a list is pushed whole, but by less than a *)
(* list; the sender's own queue can hold as much again.                    *)
(***************************************************************************)
Backlog == Limit - 1 + MaxBatch
BacklogBounded == Len(queue) <= Backlog /\ Len(batch) <= Backlog

\* A mail that was accepted is tried, unless the process ends before.
Pending(i) == \E k \in DOMAIN queue : queue[k].id = i
AcceptedTried == \A i \in 1..MaxMails :
  Pending(i) ~> (process # "serving" \/ \E k \in DOMAIN tried : tried[k].id = i)

\* "You have been invited the event: <name>", says every invitation mail.
InvitationsNamed == \A k \in DOMAIN tried : tried[k].named

\* The queue, the thread and its private queue are one bounded outbox.
Outside == INSTANCE Outbox WITH
  waiting <- batch \o queue,
  done <- tried,
  last <- offered,
  closed <- process = "ended",
  Capacity <- 2 * Backlog
ImplementsOutbox == Outside!Spec
=============================================================================
