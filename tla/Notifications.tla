--------------------------- MODULE Notifications ---------------------------
(***************************************************************************)
(* The notifications of one user: the rows and the two columns of Users    *)
(* that the handlers change (Backend/DB/Notifications.cpp), and a page of  *)
(* that user's browser, which fetches the rows every five minutes, keeps   *)
(* them in a list and reports what was seen (Frontend/init.js).            *)
(*                                                                         *)
(* Workers create notifications statement by statement, as in Events.  The *)
(* requests of a page are answered by workers of their own: here they are  *)
(* what is under way between the page and the tables, and may be lost,     *)
(* overtake each other, or be served twice when a connection is lost.      *)
(* Other pages of the user, and the same one before it was loaded again,   *)
(* are what reaches the tables from them: reports of what they have seen.  *)
(***************************************************************************)
EXTENDS Integers, Sequences, FiniteSets

CONSTANTS
  Worker,           \* threads that create notifications
  Poll,             \* bound: requests for notifications the page has under way
  MaxId,            \* bound: where the AUTO_INCREMENT of Notifications runs out
  MaxMarks,         \* bound: requests to mark as seen under way at once
  MaxFaults         \* bound: failed statements and lost requests

ASSUME NotificationsAssumptions ==
  /\ IsFiniteSet(Worker)
  /\ MaxId \in Nat
  /\ MaxMarks \in Nat
  /\ MaxFaults \in Nat

Id == 1..MaxId

\* A request for notifications: which it asks for, and the answer so far.
Request == [state : {"none", "asked", "half", "answered"},
            from : Nat, seen : Nat, upto : Nat]

NoRequest == [state |-> "none", from |-> 0, seen |-> 0, upto |-> 0]

VARIABLES
  latest,         \* Notifications holds the rows 1 .. latest of the user
  lastSeen,       \* Users.last_seen_notification
  emailSent,      \* Users.unread_notifications_email_sent
  pc,             \* the statement of create_notification a worker executes next
  list,           \* allNotifications
  lastId,         \* lastNotificationID
  seenId,         \* lastSeenNotificationID
  polls,          \* requests for notifications under way, by page
  marks,          \* requests to mark as seen under way: ids
  mails,          \* history: mails "unread notifications" since the last mark
  raced,          \* history: since then a worker read the flag while another was to set it
  dropped,        \* history: since then a mail was dropped, and the flag set all the same
  overtaken,      \* history: at the last mark a worker was between its mail and the flag
  overlapped,     \* history: whether two requests for notifications were under way at once
  shown,          \* history: the notifications that some page has listed
  faults          \* history: faults so far

columns == <<latest, lastSeen, emailSent>>
page    == <<list, lastId, seenId>>
mailing == <<mails, raced, dropped, overtaken>>
vars    == <<columns, pc, page, polls, marks, mailing, overlapped, shown, faults>>

\* The rows m .. n, each once: the query does not say in which order.
Orders(m, n) == {rows \in [1..(n - m + 1) -> m..n] :
  \A id \in m..n : \E i \in DOMAIN rows : \A j \in DOMAIN rows : rows[j] = id <=> j = i}

Listed == {list[i] : i \in DOMAIN list}
-----------------------------------------------------------------------------
Init ==
  /\ latest = 0
  /\ lastSeen = 0
  /\ emailSent = FALSE
  /\ pc = [w \in Worker |-> "idle"]
  /\ list = <<>>
  /\ lastId = 0
  /\ seenId = 0
  /\ polls = [k \in Poll |-> NoRequest]
  /\ marks = {}
  /\ mails = 0
  /\ raced = FALSE
  /\ dropped = FALSE
  /\ overtaken = FALSE
  /\ overlapped = FALSE
  /\ shown = {}
  /\ faults = 0
-----------------------------------------------------------------------------
(***************************************************************************)
(* create_notification.  It is called in the middle of other handlers; a   *)
(* handler that is run again may call it again, which is one more call.    *)
(***************************************************************************)
Insert(w) ==
  /\ pc[w] = "idle"
  /\ latest < MaxId
  /\ latest' = latest + 1
  /\ pc' = [pc EXCEPT ![w] = "select_flag"]
  /\ UNCHANGED <<lastSeen, emailSent, page, polls, marks, mailing, overlapped, shown, faults>>

\* The flag is read and the mail pushed, or dropped when the queue of the sender,
\* where the mails of all users are, is full.  Either way the column follows in the
\* next statement.
SelectFlag(w) ==
  /\ pc[w] = "select_flag"
  /\ \/ /\ emailSent
        /\ pc' = [pc EXCEPT ![w] = "idle"]
        /\ UNCHANGED mailing
     \/ /\ ~ emailSent
        /\ pc' = [pc EXCEPT ![w] = "set_flag"]
        /\ raced' = (raced \/ \E v \in Worker : pc[v] = "set_flag")
        /\ \/ mails' = mails + 1 /\ UNCHANGED dropped
           \/ dropped' = TRUE /\ UNCHANGED mails
        /\ UNCHANGED overtaken
  /\ UNCHANGED <<columns, page, polls, marks, overlapped, shown, faults>>

\* Mutant: the column is not written after the mail.
SetFlagNever(w) ==
  /\ pc[w] = "set_flag"
  /\ pc' = [pc EXCEPT ![w] = "idle"]
  /\ UNCHANGED <<columns, page, polls, marks, mailing, overlapped, shown, faults>>

SetFlag(w) ==
  /\ pc[w] = "set_flag"
  /\ emailSent' = TRUE
  /\ pc' = [pc EXCEPT ![w] = "idle"]
  /\ UNCHANGED <<latest, lastSeen, page, polls, marks, mailing, overlapped, shown, faults>>

\* An exception: before the statement was executed, or after the INSERT was.
Interrupt(w) ==
  /\ faults < MaxFaults
  /\ faults' = faults + 1
  /\ \/ pc[w] # "idle" /\ UNCHANGED latest
     \/ pc[w] = "idle" /\ latest < MaxId /\ latest' = latest + 1
  /\ pc' = [pc EXCEPT ![w] = "idle"]
  /\ UNCHANGED <<lastSeen, emailSent, page, polls, marks, mailing, overlapped, shown>>

Create(w) == Insert(w) \/ SelectFlag(w) \/ SetFlag(w) \/ Interrupt(w)
-----------------------------------------------------------------------------
(***************************************************************************)
(* The page asks for notifications: getNotifications, when it is loaded    *)
(* and every five minutes, whether or not the last answer has arrived.         *)
(***************************************************************************)
\* Mutant: the last one is asked for again, as if the handler left it out.
FromLast == lastId

From == IF lastId > 0 THEN lastId + 1 ELSE 0

Ask(k) ==
  /\ polls[k].state = "none"
  /\ polls' = [polls EXCEPT ![k] = [NoRequest EXCEPT !.state = "asked", !.from = From]]
  /\ overlapped' = (overlapped \/ \E j \in Poll : polls[j].state # "none")
  /\ UNCHANGED <<columns, pc, page, marks, mailing, shown, faults>>

\* get_notifications_for_user: first the column, then the rows.
SelectLastSeen(k) ==
  /\ polls[k].state = "asked"
  /\ polls' = [polls EXCEPT ![k].state = "half", ![k].seen = lastSeen]
  /\ UNCHANGED <<columns, pc, page, marks, mailing, overlapped, shown, faults>>

\* Mutant: the rows stop one before the latest, but are said to reach it.
SelectRowsPastEnd(k) ==
  /\ polls[k].state = "half"
  /\ polls' = [polls EXCEPT ![k].state = "answered", ![k].upto = latest + 1]
  /\ UNCHANGED <<columns, pc, page, marks, mailing, overlapped, shown, faults>>

SelectRows(k) ==
  /\ polls[k].state = "half"
  /\ polls' = [polls EXCEPT ![k].state = "answered", ![k].upto = latest]
  /\ UNCHANGED <<columns, pc, page, marks, mailing, overlapped, shown, faults>>

\* The connection is lost between the statements and the handler run again, or
\* the request or its answer is lost: the page does nothing until its next one.
DropRequest(k) ==
  /\ polls[k].state # "none"
  /\ faults < MaxFaults
  /\ faults' = faults + 1
  /\ \/ polls' = [polls EXCEPT ![k] = NoRequest]
     \/ /\ polls[k].state = "half"
        /\ polls' = [polls EXCEPT ![k].state = "asked", ![k].seen = 0]
  /\ UNCHANGED <<columns, pc, page, marks, mailing, overlapped, shown>>

\* The callback of getNotifications, with the list drawn again.  If the panel is
\* open then, what has come is seen, and reported.
Receive(k, prevLastSeen) ==
  LET answer == polls[k]
      first  == IF answer.from = 0 THEN 1 ELSE answer.from
      last   == IF first <= answer.upto /\ answer.upto > lastId THEN answer.upto ELSE lastId
  IN /\ answer.state = "answered"
     /\ \E rows \in Orders(first, answer.upto) : list' = list \o rows
     /\ lastId' = last
     /\ shown' = shown \cup first..answer.upto
     /\ polls' = [polls EXCEPT ![k] = NoRequest]
     /\ \/ /\ Cardinality(marks \cup {last}) <= MaxMarks
           /\ seenId' = last
           /\ marks' = marks \cup {last}
        \/ /\ seenId' = IF prevLastSeen > seenId THEN prevLastSeen ELSE seenId
           /\ UNCHANGED marks
     /\ UNCHANGED <<columns, pc, mailing, overlapped, faults>>

\* Mutant: the column is read after the rows.
DeliverLate(k) == Receive(k, lastSeen)

Deliver(k) == Receive(k, polls[k].seen)
-----------------------------------------------------------------------------
\* A click on the bell, whether it opens the panel, closes it or finds it fading.
ClickBell ==
  /\ Cardinality(marks \cup {lastId}) <= MaxMarks
  /\ seenId' = lastId
  /\ marks' = marks \cup {lastId}
  /\ UNCHANGED <<columns, pc, list, lastId, polls, mailing, overlapped, shown, faults>>

\* The panel is closed: it has been seen, which is not reported.
ClosePanel ==
  /\ seenId' = lastId
  /\ UNCHANGED <<columns, pc, list, lastId, polls, marks, mailing, overlapped, shown, faults>>

\* Another page of the user reports, in the same way, what it has listed.
OtherPage(n) ==
  /\ n \in 0..latest
  /\ Cardinality(marks \cup {n}) <= MaxMarks
  /\ marks' = marks \cup {n}
  /\ shown' = shown \cup 1..n
  /\ UNCHANGED <<columns, pc, page, polls, mailing, overlapped, faults>>
-----------------------------------------------------------------------------
(***************************************************************************)
(* mark_notifications_seen: one UPDATE of both columns.  Requests under    *)
(* way at once may overtake each other, so the column may go back.         *)
(***************************************************************************)
\* Mutant: everything is marked, whatever the page had listed.
ServeMarkAll(n) ==
  /\ n \in marks
  /\ lastSeen' = latest
  /\ emailSent' = FALSE
  /\ mails' = 0
  /\ raced' = FALSE
  /\ dropped' = FALSE
  /\ overtaken' = \E w \in Worker : pc[w] = "set_flag"
  /\ marks' = marks \ {n}
  /\ UNCHANGED <<latest, pc, page, polls, overlapped, shown, faults>>

\* Mutant: the UPDATE leaves the flag alone.
ServeMarkOnly(n) ==
  /\ n \in marks
  /\ lastSeen' = n
  /\ mails' = 0
  /\ raced' = FALSE
  /\ dropped' = FALSE
  /\ overtaken' = \E w \in Worker : pc[w] = "set_flag"
  /\ \/ marks' = marks \ {n} /\ UNCHANGED faults
     \/ faults < MaxFaults /\ faults' = faults + 1 /\ UNCHANGED marks
  /\ UNCHANGED <<latest, emailSent, pc, page, polls, overlapped, shown>>

\* Served once, or once more when the answer to the UPDATE is lost.
ServeMark(n) ==
  /\ n \in marks
  /\ lastSeen' = n
  /\ emailSent' = FALSE
  /\ mails' = 0
  /\ raced' = FALSE
  /\ dropped' = FALSE
  /\ overtaken' = \E w \in Worker : pc[w] = "set_flag"
  /\ \/ marks' = marks \ {n} /\ UNCHANGED faults
     \/ faults < MaxFaults /\ faults' = faults + 1 /\ UNCHANGED marks
  /\ UNCHANGED <<latest, pc, page, polls, overlapped, shown>>

LoseMark(n) ==
  /\ n \in marks
  /\ faults < MaxFaults
  /\ faults' = faults + 1
  /\ marks' = marks \ {n}
  /\ UNCHANGED <<columns, pc, page, polls, mailing, overlapped, shown>>
-----------------------------------------------------------------------------
Answer(k) == SelectLastSeen(k) \/ SelectRows(k)

Next ==
  \/ \E w \in Worker : Create(w)
  \/ \E k \in Poll : Ask(k) \/ Answer(k) \/ DropRequest(k) \/ Deliver(k)
  \/ ClickBell \/ ClosePanel
  \/ \E n \in 0..MaxId : OtherPage(n) \/ ServeMark(n) \/ LoseMark(n)

Spec == Init /\ [][Next]_vars
-----------------------------------------------------------------------------
TypeOK ==
  /\ latest \in 0..MaxId
  /\ lastSeen \in 0..MaxId
  /\ emailSent \in BOOLEAN
  /\ pc \in [Worker -> {"idle", "select_flag", "set_flag"}]
  /\ list \in Seq(Id)
  /\ lastId \in 0..MaxId
  /\ seenId \in 0..MaxId
  /\ polls \in [Poll -> Request]
  /\ marks \subseteq 0..MaxId
  /\ mails \in Nat
  /\ raced \in BOOLEAN
  /\ dropped \in BOOLEAN
  /\ overtaken \in BOOLEAN
  /\ overlapped \in BOOLEAN
  /\ shown \subseteq Id
  /\ faults \in 0..MaxFaults

(***************************************************************************)
(* Between two marks the user gets one mail about unread notifications;    *)
(* only workers that create notifications at the same time, or a failed    *)
(* statement, lead to another: create_notification reads the flag in one   *)
(* statement and sets it in another, after the mail.                       *)
(***************************************************************************)
MailedOnce == mails > 1 => raced \/ faults > 0

(***************************************************************************)
(* The flag that silences the mails until the next mark is set only if,    *)
(* since the last one, the user has been mailed, or a mail to the user has *)
(* been dropped at a full queue ("Email Backlog >= 3000"), after which the *)
(* flag is set although nothing was sent, or if that mark overtook a       *)
(* worker before its UPDATE.  Nothing else leaves notifications untold.    *)
(***************************************************************************)
SilenceExplained == emailSent => mails > 0 \/ dropped \/ overtaken

(***************************************************************************)
(* A page lists no notification twice, unless two of its requests were     *)
(* under way at once: the page asks from the id after its last one, and    *)
(* the query of get_notifications_for_user includes the id asked for.      *)
(***************************************************************************)
ListedOnce ==
  ~ overlapped => \A i, j \in DOMAIN list : list[i] = list[j] => i = j

(***************************************************************************)
(* A page never takes for seen what it has not listed, whatever another    *)
(* page reported meanwhile: get_notifications_for_user reads the column    *)
(* before the rows.  Later rows would otherwise come up as already seen.   *)
(***************************************************************************)
SeenIsListed == seenId <= lastId /\ 1..lastId = Listed

(***************************************************************************)
(* The rows, the pages and the column together are the log of NewsLog.     *)
(***************************************************************************)
Log == INSTANCE NewsLog WITH seen <- lastSeen
ImplementsNewsLog == Log!Spec
=============================================================================
