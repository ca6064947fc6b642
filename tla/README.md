# Verification of the event organisation website

The repository is a web site for organising events: a C++ server (`Backend/`) over a MariaDB
database (`event organisation site.sql`), a JavaScript front end (`Frontend/`), and a backup
tool. This directory holds TLA+ models of its parts, TLC configurations that check them on
small instances, and proofs that TLAPS checks for every value of the constants.

## 1. The system

### Parts

| Part | State it keeps | Operations | Talks to |
|---|---|---|---|
| HTTP server (`deps/httplib.h`, `Server/Server.cpp`) | a pool of at least 8 worker threads | routes a request to a handler; turns an exception into status 500 | every handler |
| Retry (`DB/ConnLostHandle.h`, `DB/DB.cpp`) | one database connection per thread | runs a handler again, once, after a lost connection | every handler |
| Discussion (`DB/Events.cpp` 122-177, 331-531) | `Comments`, `Replies` | post and delete comments and replies, read them in pages | events, invitations, attendance, privileges |
| Events (`DB/Events.cpp` 711-1116) | `Events`, `EventInvitations`, `EventAttendance` | create, edit and publish, delete, register, unregister | mail sender, notifications, followers |
| Media (`DB/Events.cpp` 1118-1276, `AWS.cpp`) | `Media`, `Events.cover_image_id`, S3 objects | add and delete media and cover images | S3 |
| Notifications (`DB/Notifications.cpp`) | `Notifications`, two columns of `Users` | create, list, mark as seen | mail sender |
| Mail sender (`Email.cpp`, `Main.cpp`) | a queue under a mutex, the sender's own queue, a flag | push one or many, take and send, stop | mail server |
| Accounts and sessions (`DB/Users.cpp`, `Users.cpp`, `Server/Logins.cpp`) | `Users`, `Sessions` | sign up, log in, log out, profile, privileges | mail sender, S3 |
| Password resets | `PasswordResets`, `Spam` | request a link, verify it, reset | mail sender |
| Followers | `Follows` | follow, unfollow | events |
| Front end (`init.js`, `Comments.js`, `UIVisibility.js`) | page state, notification list, comment pages | pages, forms, polling | the handlers |
| Helpers, static files, backup tool | none that is shared | parse, format, serve, copy | - |

The parts meet in three ways: through the tables, through calls inside one handler (an edit
mails and notifies), and through the mail queue. No transaction is ever opened, so every SQL
statement commits by itself and statements of different workers interleave.

### What is hard about it

* A handler reads in one statement and writes in a later one; what it read may be stale. Only
  foreign keys, primary keys and conditions inside a statement (`AND is_published=0`, the
  recount by sub-query) hold across workers.
* A connection lost *after* a statement was committed runs the whole handler again.
* Any other exception ends a handler between two of its statements.
* `create_event` swallows exceptions while it inserts invitations, a lost connection included.
* The mail sender works without the lock on a queue it took, and nobody waits for it to stop.
* The front end shows counters and lists that were computed earlier.

### What makes each part correct

* Discussion: the limit on replies is overshot by a bounded amount, the shown number of replies
  comes back to the truth, nothing is orphaned, nobody posts or removes without a right.
* Events: publishing is final and happens once, everybody promised a mail gets one and only
  one, nothing leaks about a draft, guests were entitled, attendees hear of changes.
* Mail sender: order, no duplicates, no loss but those it announces, a bounded backlog.
* Notifications: one "unread" mail between two marks, none missed without a reason; the page
  lists every notification once, without a gap, and takes none for seen that it has not listed.
* Media: a cover or a profile picture leads to a row of its own place, a row to its object, and
  what is left over is left by a fault or an overlap that can be named.
* Accounts: the limit on sign-ups is overshot by a bounded amount; a new password ends the
  sessions of the old one; a code that is older than the users are told changes nothing.
* Edit form: guests join and leave an event because the organiser said so.

`PROJECT.json` lists the components with their status and every hazard at its line.

## 2. Modules

| Module | What it is |
|---|---|
| `Discussion.tla` | the four handlers under an event, one action per SQL statement |
| `Board.tla` | what the discussion promises, one step per request |
| `DiscussionProofs.tla` | its theorems |
| `Events.tla` | create, edit, publish, delete, register, unregister, one action per SQL statement |
| `EventRows.tla` | the life of an event's rows; implemented by Events, the environment of Discussion |
| `EventsProofs.tla` | theorems about Events |
| `EmailQueue.tla` | the mail queue and the sender thread |
| `Outbox.tla` | what the sender promises: a bounded first-in first-out queue |
| `EmailQueueProofs.tla` | theorems about the sender |
| `Notifications.tla` | the notifications of a user: creation, listing, marking, and a page that polls |
| `NewsLog.tla` | what they promise: a log, shown without gaps and seen only where shown |
| `NotificationsProofs.tla` | theorems about Notifications |
| `Media.tla` | covers, files and profile pictures: table, links, bucket, one action per statement or request to S3 |
| `Gallery.tla` | what they promise: each place shows what was added for it, each picture in one place for one stretch of time |
| `MediaProofs.tla` | theorems about Media |
| `Accounts.tla` | sign-up, log-in, log-out and password resets, one action per SQL statement |
| `AccountsProofs.tla` | theorems about Accounts |
| `EditForm.tla` | the form of an event with its list of invitations, which outlives the page |
| `EditFormProofs.tla` | its theorem |
| `MCDiscussion.tla`, `MCEvents.tla`, `MCEmailQueue.tla`, `MCNotifications.tla`, `MCMedia.tla`, `MCAccounts.tla`, `MCEditForm.tla` | small instances for TLC |

### Discussion

`pc[w]` is the statement worker `w` executes next and `job[w]` what its handler holds in local
variables. `SelectEvent`, `SelectComment`, `SelectAttendance` and `SelectInvitation` are
`check_event_view_permission` as it is called by `post_comment` and `post_reply`; `CheckRow` is
the part after the row was read. `Recount` is the statement
`UPDATE Comments SET number_of_replies = (SELECT COUNT(*) ...)`. `RemoveComments` is the effect
of the foreign keys: it happens in the same step as the deletion. `DeleteReplies` is the second
statement of `delete_comment`, which finds nothing left to delete.
The events, attendances and invitations are those of an instance of EventRows (`Rows`), whose
actions the module takes as its environment, all of them and whenever they are enabled:
`ChangeRows`, and `DeleteEvent` with the comments that the foreign keys take along. That Events
implements EventRows (`ImplementsEventRows`) is what makes this enough: each change that the
handlers of events make to these rows is one that the discussion is checked and proved under. (The
converse, that EventRows admits more than Events ever does, costs nothing.) `Visitor` bounds the
users who come and go in an instance. `ChangePrivilege` is the remaining part of the environment.

The histories `admitted`, `demoted`, `faults` and `stale` are written and never read by a
handler. They say who could view an event at some time, who was a moderator at some time, how
many faults there were, and which comment lost its recount to one.

### Events

The row of an event goes from `"none"` (its id is not issued) to `"draft"`, `"published"` and
`"deleted"`. A `Form` is what `save_event` was sent: whether it publishes, the attribute
`is_public` if sent, whether any other attribute is sent, the addresses added and removed, and
those that are listed twice, of which `job[w].second` holds the copies still to be inserted: the
second one is refused, unless another edit withdrew the first in between (`AddNext`).
`create_event` refuses a form without the other attributes (`ReceiveCreate`). The name of the event
is one of them, so after the UPDATE the name is read or not (`UpdateEvent`). An UPDATE that changes no value affects no row,
which `edit_event` answers with an error. `select_followers` and `notify_follower` are
`send_new_event_notifications`; the reading of the organiser's name, which nothing depends on,
is left out. The loops over addresses and users take their elements in any order.

A user stands for the account and for its e-mail address; the code finds one by the other.
`Tell` is the INSERT of `create_notification`; its mail about unread notifications is in module
Notifications. `Swallows` says where `create_event` catches what goes wrong: at the INSERTs of
invitations, of which the last may have been executed and its answer lost, so that the mails go out
with the connection down. `FindConnectionDown` is the statement after that.

Histories: `repeated`, `promised`, `cut`, `entitled`, `owed`. `promised` is the guest list at
the moment the row becomes published (less those whose invitation is withdrawn later), `cut`
the events whose publication a fault interrupted, `owed[w]` the attendees that `w` has to tell:
those who attended when its handler began, less those who left and those it told.

### EmailQueue

`queue` is `email_queue`, `batch` the sender's `emails_to_send`. What happens under the mutex
is one action. `SendNext` is `do_send_email` with any result that is not an exception.
`FailToConnect` is the exception of `connect_to_gmail`, which leaves the thread. `Exit` is the
end of `main`, at any point of the sender's loop.

### Notifications

One user: `latest`, `lastSeen` and `emailSent` are that user's rows and two columns of `Users`.
`Insert`, `SelectFlag` and `SetFlag` are the statements of `create_notification`; the mail is
pushed with `SelectFlag`, or dropped there without a word when the queue of the sender is full
(`Email.cpp` 167): the flag is set all the same. The queue is EmailQueue's and full of anybody's
mails, so here it is full or not at any time. Only rows of this user are numbered: ids of other users' rows leave
gaps that nothing depends on, and the project takes the rows to become visible in the order of
their ids, as statements are atomic here.

`list`, `lastId` and `seenId` are `allNotifications`, `lastNotificationID` and
`lastSeenNotificationID` of one page. A request for notifications is asked (`Ask`), answered in
two statements (`SelectLastSeen`, `SelectRows`) and received (`Deliver`, the callback with
`regenerateNotificationsHTML`); several can be under way. The query orders nothing, so the rows come
in any order (`Orders`). `marks` are the requests
`mark_notifications_seen` under way, from this page (`ClickBell`, or an answer that finds the
panel open) and from others (`OtherPage`). `ClosePanel` is a click beside the panel, which takes
what is listed for seen but reports nothing. Whether the panel is open is left to chance, when an
answer comes and when it is closed, so the fades of `UIVisibility.js` do not appear; the bell does
the same whichever it does to the panel. A request that is lost, or a handler that
is run again, is `DropRequest`, `LoseMark` or a second `ServeMark`.

Histories: `mails`, `dropped`, `raced` and `overtaken` since the last mark, `overlapped`, `shown`, `faults`.

### Media

`media` is the table, `link` the columns `Events.cover_image_id` and `Users.profile_picture_id`,
`stored` the bucket. A place is an event or a user with a profile picture. Each handler selects
(`SelectAdding`, `SelectLinked`, `SelectMedia` with `SelectOrganiser`), then adds (`Insert`,
`Link`, `Put`) or deletes (`Unlink`, `DeleteRow`, `DeleteObject`). `new_profile_picture` deletes
and then adds (`PictureGone`); `remove_profile_picture` calls its deletion twice
(`"remove_again"`). `DeleteRows` is a deletion with the foreign keys that clear the links.
`Insert` and `FailInsert` are `try_add_media`, which swallows every exception and tries again or
gives up. `Upload` is the browser's PUT with the URL it was given; the five minutes after which
S3 refuses it are left out, so it may be later than in the code. `delete_event` is one step: its
other statements belong to Events.

Histories: `urls`, `drawn`, `clash` in a job (another worker linked a picture to the same place
since this one looked) and `strays`, the ids that a fault, an overlap, a late upload or the end of
an event took. The invariants say what holds of every other id, so they are as strong as
`strays` is narrow: it grows in the step that does the damage, by the id it does it to. A lost
connection does damage only where the second run does not find what the first has changed
(`HalfDone`): not at a SELECT, before a link is cleared, or before `delete_media` deletes the row.

The abstract `Gallery` adds a picture for a place, shows it there or passes it over, clears a place,
removes a picture, and ends an event with all of its pictures. Its `pictures` and `shown` are
`media` and `link`, its `used` is `drawn`, and its `fresh`, the pictures that no place has shown
yet, are the rows that a worker is about to link.

### Accounts

Sign-ups come from one IP address, as each has its own row of Spam. `log_out` comes before a
sign-up and a log-in as in the code. `SelectUser` reads the hash and compares; a password is the
number of resets before it. Times are minutes and `Stamp` turns them into the decimal numbers
that the database subtracts from; in the first six minutes of an hour the difference is no time of
day (`NoTime`), and both readings of the comparison, as numbers and as NULL, are allowed.
`FailDraw` is the loop of `SessionToken` and of `create_password_reset_code`, which swallow
exceptions. Between the INSERT of an account and that of its session, `"id_returned"` is the point
where the answer to the first is still to come (`ReturnId`); if it is lost, `create_account` runs
again, and finds its own address taken. Likewise a reset is done with
`Respond` only, after the answer to its last statement. Only the rows of the code and of the user matter for `verify`: it deletes old codes
and reads.

Histories: `drawn`, `admitted` (sign-ups let through since Spam was wiped), `late` in a session
(the password had been replaced when the row was inserted), `unended`, `faults`.

### EditForm

`rows` are the addresses in the element `ee_emails`, which is part of the one document: opening
another page hides it. `form` and `base` are what the callback of `setSubmitCallback` closes over.
`Loaded` is the callback of `event_edit_info`. The rows form a set: two rows with one address are
refused by the primary key when they are new (Events has that case). Saving is one step here, its
failure half-way included; Events has the statements.

## 3. Runs

| Run | Bounds | Shows |
|---|---|---|
| `discussion_counts` | 2 workers, 1 user, 1 comment, 4 replies, limit 1, 1 fault | `TypeOK`, `RepliesBelong`, `CountSettled`, `RepliesBounded`, `ImplementsBoard`, `CountConverges` |
| `discussion_rights` | 2 workers, organiser and guest, 1 comment, 2 replies | `AuthorsWereAdmitted`, `RemovedByRight` |
| `events_publish` | 2 workers, 2 events, organiser and guest, 2 forms, 1 fault | `TypeOK`, `ToldOnce`, `PromisesKept`, `SuccessMeansMailed`, `NothingLeaks`, `PublicationTold` |
| `events_lists` | 2 workers, 1 event, organiser and guest, 9 forms, no fault | `AttendeesEntitled`, `ListsBelong`, `ChangeTold`, `ImplementsEventRows` |
| `email_queue` | limit 2, lists of 0 to 2, 7 mails | `TypeOK`, `BacklogBounded`, `ImplementsOutbox`, `AcceptedTried` |
| `notifications` | 2 workers, 2 polls at a time, 1 mark at a time, 2 ids, 1 fault | `TypeOK`, `MailedOnce`, `SilenceExplained`, `ListedOnce`, `SeenIsListed`, `ImplementsNewsLog` |
| `media` | 2 workers, organiser and guest, 1 event, 1 profile picture's owner, 3 ids, 1 fault | `TypeOK`, `LinksHold`, `NoDeadRows`, `UsedOrExplained`, `NoLeaks`, `RemovedByOrganiser`, `ImplementsGallery` |
| `accounts` | 2 workers, 1 address, 2 tokens, 1 code, limit 1, 4 minutes, 2 resets, 1 fault | `TypeOK`, `SignUpsBounded`, `OldSessionsEnd`, `NobodysNothing`, `CodesExpire` |
| `mail_opens` | 1 worker, 1 event | `MailOpens` is violated |
| `deletion_told` | 1 worker, 1 event | `DeletionTold` is violated |
| `invitations_named` | limit 2, 4 mails | `InvitationsNamed` is violated |
| `edit_form` | 2 events, 2 addresses | `GuestsByChoice` is violated |

Why the bounds are enough. Two workers are two handlers that interleave, and a limit of one
reply is reached and passed with two or three replies; four leave room for the overshoot of a
worker and of a fault. One comment suffices because nothing relates two comments but ids, which
the proofs cover, as they do a second event under the discussion. One fault makes one re-run; two
would make the re-run fail as well, which the proofs cover. A second event
is what `create_event` makes when it is re-run. Nine forms name every path through
`edit_event`; the two of `events_publish` are the ones that publish and that add to a draft.
Seven mails fill the queue past its limit while the sender holds a full batch.

Two notifications, two polls and one mark under way suffice for a mail that races, a mark that
overtakes a worker, an answer that is older than what the page has, and a batch after the first
one. Three picture ids let two workers add one each over one that is there; the event's
organiser has a profile picture as well, and the guest has no right to anything. The four minutes
are five, six and eleven minutes apart and end in the next hour: they tell ten minutes from six
and from a decimal hour. One account and one code are what one address can have; with two resets
the code is used again, by the same request run twice or by another; two tokens make an old session
and one that comes late. The constants are limits of the model, not of the code, except
`MaxReplies` (100) and `Limit` (3000), whose values play no role but being positive.

Workers are interchangeable, so runs that check no liveness property use their symmetry.
`EmailQueue` really ends, so its runs do not check for deadlock; all others do.

### Fairness

`FairSpec` of Discussion and Events: a worker that has a request executes its statements
(`WF(Handle(w))`). Threads are scheduled by the operating system and the database answers or
throws; a lost answer is a fault. That requests arrive is not assumed, nor that a fault ever
happens or stops happening: `MaxFaults` is a bound, and the liveness properties except what a
fault destroyed. `FairSpec` of EmailQueue: the sender thread goes on (`WF(Sender)`). The code
sets no time limit on a transfer, so this assumes that the mail server answers or hangs up.

### Disagreements found

* **`mail_opens`**: invitees added in the form that publishes are mailed, but not stored
  (`DB/Events.cpp` 847); the mail says they can open the event (`Email.cpp` 130). For a private
  event they cannot.
* **`deletion_told`**: `delete_event` asks for the attendees after the foreign keys have deleted
  them (`DB/Events.cpp` 1097), so the notification "has been cancelled" (`init.js` 1368) is
  never created.
* **`edit_form`**: the form of a published event makes no rows of its invitations (`init.js` 683)
  but compares the rows of the last form with them (597) as if the organiser had added or deleted
  them ("We've added a new email then", "We've delete an email then"). Saving adds a guest of
  another form, or removes all guests. `DraftGuestsByChoice` says it cannot happen with a form
  that was loaded as a draft; it is proved.
* **`invitations_named`**: the event's name is moved into the first mail of a list
  (`Email.cpp` 196); the others say "You have been invited the event: " and nothing.

Further weaknesses the models show. One has a text against it: the schema says "If is_cover_image
then id == event->cover_image_id" (`event organisation site.sql` 174), and a cover that overlaps
with another on the same place, or meets a fault, leaves a row that nothing links and nothing finds
again (`UsedOrExplained` quotes the line and has to except it by `strays`). It is kept as an
excuse and not as a run of its own, because the property that is left says more: nothing but a
named overlap or fault leaves such a row. Of the others no text in the repository says otherwise:
a publication that loses its connection after the UPDATE fails for good, because the re-run's
UPDATE affects no row (`PromisesKept` has to except it by `cut`; `SuccessMeansMailed`
shows that nobody is told of success then); a re-run of `create_event`
makes a second event; a mark can overtake a worker that has mailed but not set the flag, and the
flag then silences what comes later (`SilenceExplained` has to except it by `overtaken`), and so
does a mail that was dropped at a full queue (`dropped`); the
column `last_seen_notification` goes back when a page that has listed less, or nothing yet,
reports last; a newer batch of notifications is appended below an older one although the list is
"Sorted by ID descending" (`init.js` 1325); the handler's comment says "id > this" where the
query has `>=` (the page allows for the latter); a fault or a late upload leaves an object in the
bucket that nothing finds again (`strays`), and so does `delete_event` with every object of its
event; a log-in that has compared the password before a
reset keeps its session (`late`); a reset code is accepted again until it expires, for six minutes
or less and never across the end of an hour, where users are told ten minutes and the code says
"In seconds" (`DB/Users.cpp` 202); a press on "publish" is remembered when the form was not
valid or saving failed, so that a later "cancel to save the event without publishing" (`init.js`
513) publishes; `create_event` announces a private event to the followers when
`is_public` is sent as false (`DB/Events.cpp` 961).

## 4. Proofs

TLAPS checks the proofs in the seven modules whose names end in `Proofs`. They hold for every
value of the constants that satisfies the module's assumptions (`DiscussionAssumptions`,
`EventsAssumptions`, `EmailQueueAssumptions`, `NotificationsAssumptions`, `MediaAssumptions`,
`AccountsAssumptions`; EditForm needs none): any number of users, events, workers, requests,
forms, ids, faults and mails, any limit.

**Discussion.** None of the properties is inductive: whether an insert is legal was decided
statements earlier, so the invariant has to say what each worker has established so far.

* `Tables` = `TypeOK`, finiteness of `replies`, `FreshIds` (ids below the counters, one row per
  id), `RepliesBelong`, and `JobOK(w)`: what a handler remembers of a row stays true of it while
  it exists. It needs nothing else and is proved first: `TypeCorrect`, `RepliesBelongCorrect`.
* `Counts` counts workers per comment. `Cleared(c)` are past the limit check and have not
  inserted; `Inserted(c)` have inserted and not recounted. `Lag(c)`: the replies exceed the
  count by no more than `Inserted(c)` and the faults. `Room(c)`: replies and `Cleared(c)`
  together stay under the limit plus the other workers and the faults. The step that matters
  is the SELECT that clears a worker: `Lag` bounds the replies by the count it has just read.
  From it: `CountSettledCorrect`, `RepliesBoundedCorrect`.
* `Rights` = `Viewers` (whoever can view is in `admitted`), `Checked(w)` (what the permission
  check has found out by each statement), `Entitled(w)` (who a deleting worker acts for). From
  it: `AuthorsWereAdmittedCorrect`, and with the invariant on both sides of a step
  `RemovedByRightCorrect`.
* `ShownBoundedCorrect`: the stored count is one that a recount took, so the bound on the replies
  is a bound on it; `ShownFits` draws the conclusion for the schema's TINYINT (up to 127): with the
  limit of 100 no recount overflows as long as workers and faults are at most 28. The server has at
  least 8 workers and one fewer than the processors if that is more.
* `LimitHoldsAlone` and `CountExactWithoutFaults` say what is left when the causes are taken away:
  with one worker and no fault the limit holds exactly, without faults the count is exact or about
  to be.
* `HandlersEnd` gives each worker a number, at most twelve, of statements and re-runs that are still
  before it: every step of its own lowers it, no step of another raises it. It is the safety part
  of `CountConverges`; the rest is fairness, and stays with TLC.
* `DiscussionImplementsBoard`: the statement that writes is the step of the board, all others
  stutter.
* All of this holds under an environment that does whatever EventRows allows. With
  `EventsImplementsEventRows`, by which the handlers of events do no more than that, it holds beside
  them.

**Events.** The invariant `IInv` has six parts, each preserved with the help of those before it.

* `Threads`: types, and `Fits`, which requests can be at which statement. With it go the control
  flow lemmas: every step of a handler `Ends` it, `Begins` it again or `Moves` it along `Leads`,
  and leaves the other workers alone. The later parts split a step this way and need to look only
  at the few actions that write what they speak of (`Steps`).
* `Lists`: `ListsBelong`, and `Entitlements`, by which a worker that is about to insert an
  attendance has found an entitlement that no later edit takes back.
* `Telling`: the types of what is told.
* `Rounds`: an event that a worker announces has a published row, no other worker announces it,
  and until the mails nobody has been mailed, until the notifications nobody notified. It holds
  because the row leaves `"draft"` or `"none"` only once. From it: `ToldOnceCorrect`,
  `NothingLeaksCorrect`.
* `Promises`: while a worker announces, its list (`Listed`) holds everybody who was promised a
  mail. It rests on `Rounds`: a second announcement would have a list of its own.
* `Debts`: those whom an edit has to tell attend the event until the attendees are asked for, and
  among those left in the loop from then on. From it: `ChangeToldCorrect`.
* `Rights`: past the statement that asks for the organiser or the privilege, a request is its
  organiser's, or deletes and is a moderator's. From it: `ChangedByRight`, which names the user behind every change of a row, of a
  guest list and of an attendance.
* `Told` rests on them: a worker that publishes and is past its mails (`Past`) has sent them all. The
  step that takes it past sends to its whole list (`MailsThem`), which holds all promised ones by
  `Promises`, and nothing is promised for an event that is published already (`PromisedBefore`).
  From it: `SuccessMeansMailedCorrect`, which has no excuse for faults.
* `PublishingIsFinal` is the life of a row step by step; `PublicationsWhole` is `Promises` with
  `cut` empty, which it stays when there is no fault.
* `CancellationNeverTold` strengthens the finding `deletion_told`: by `LoopEmpty` no worker of
  `delete_event` ever reaches the notification, for no order of statements and no number of users.
* `HandlersEnd` orders the statements (`Rank`) and, within a loop, what it has left: every
  statement of a worker and every fault goes down in that order, starts the one re-run, ends the
  request or is `create_event`'s one discovery that its connection is lost, whatever the others do. It is the safety part of `PublicationTold`; the loops are over
  finite lists, and that the statements are executed is fairness, which stays with TLC.
* `EventsImplementsEventRows`: a write to one row is one step of EventRows (`OneRow`);
  withdrawing an invitation or an attendance that is not stored is a stutter, and by
  `ListsBelong` one that is stored is withdrawn from an event that is there.

**EmailQueue.** The invariant is `TypeOK`, `BacklogBounded` and `BatchEmpty`: the sender's own
queue is empty unless it sends or has died. This is why taking the queue loses nothing and why
`batch \o queue` is one queue. `PushList` bounds the queue, `HeadTailOfConcat` makes the head of
`batch` the head of the whole; `EmailQueueImplementsOutbox` follows action by action.
`TriedInOrderCorrect` takes what was tried, what the thread holds and what is queued as one
sequence of increasing numbers (`InOrder`): pushes append to it, and sending moves its border.

**Notifications.** The invariant has three parts. `Feed` relates the places that hold ids: nothing
is reported or recorded as seen that was not shown, a request asks from at most one past the end
of the list (`PollOK`), and an answer reaches as far as the column that was read before it; from it
`SeenIsListedCorrect` and, step by step, `NotificationsImplementsNewsLog`. `Mailed` says that a
worker between its mail, sent or dropped, and its UPDATE accounts for both (`MailedOnceCorrect`,
`SilenceExplainedCorrect`). `OneRequest`: while requests do not overlap there is one, and it asks
from the end of the list, so that an answer extends the list by ids that are not in it, in whatever order its rows come
(`OrderProperties`, `AppendRows`; `ListedOnceCorrect`).

`NothingSkipped` is a fact about the log, proved of its steps only, and holds of the rows and pages
because they implement it. `PagesGoOn`: what a page has listed and taken for seen only grows, though
the column it reads may go back. `MailedOnceAlone`: with one worker and no fault nothing races at
the flag.

**Media.** The invariant has two layers.

* `Basis`: what each worker still knows (`Proper`) of the row it has read or written (`Knows`: a row
  is as it was until it is gone for good, because ids are not drawn twice) and of the link of its
  place (`Sees`: as it was, unless another worker has linked since, which is marked as a clash).
  With `LinkersApart`, `RowsIn` and `LinksIn` it keeps `LinksHold`. A step either `Lands` its worker
  where it knows what it has to while rows only vanish and links are only cleared (`Wears`), or is
  the one UPDATE that links (`Linked`).
* `Explained`: `NoDeadRows`, `UsedOrExplained` and `NoLeaks`. `Explains(w, m)` lists what a step of
  `w` leaves of each reason why picture `m` is as it is; it is proved action by action, and the
  three invariants follow from it together.

`RemovedByOrganiserCorrect` uses the basis on the left of the step: at the DELETE, the job still
has the event of the row and its organiser. `ShownByOwner` adds `Owned`: a handler for profile
pictures works on its own user's place, one that inserts or links for an event is its organiser's,
and the id that a deletion has read is shown by its own place or by none and is about to be linked
by nobody (`DropsOwn`). The last part is why the foreign key, which clears every link to a deleted
row, never clears another's.

`MediaImplementsGallery` follows the tables again: the INSERT adds, the UPDATE that links shows, and
a picture is fresh until then because only the INSERT leads a worker to that UPDATE
(`LinkFollowsInsert`) and no two workers are at it with one picture. `RowsInUseAlone` takes away
overlaps and faults: then the strays that are left (uploads after a deletion, ends of events) have
no row (`StraysGone`), so every row has its object and is in use.

**Accounts.** `Basis` says which statements belong to which handler and that the later ones follow
only once the account was found or made (`Proper`). Only the INSERT of an account that is not
there leads a sign-up on, so no second one follows and `NobodysNothing` is kept; the re-run after a
lost answer starts from the beginning. `Counted` bounds the
admitted sign-ups by the counter, the workers about to increment it and the faults; when a worker
compares, it is not one of them, which gives `SignUpsBoundedCorrect`. `OldSessionsEnd` is inductive
on the basis. `EndedForGood` and `OwnCodeCorrect` rest on tokens and codes being drawn once
(`DrawnOnce`, `Issued`): a deleted row cannot come back under another user, so the user that a reset
has read is still the code's when it writes. `LimitHoldsAlone` and `SessionsCurrentAlone` are the
two weaknesses without their causes: with one worker and no fault the limit is exact and no session
outlives its password. `CodesExpireCorrect` rests on arithmetic: `InTimeMinutes` shows for all times
that stamps whose decimal difference is at most 600 are at most ten minutes apart.

**EditForm.** `Faithful`: while the form is that of a draft, its rows differ from the invitations
it was loaded with only in what was touched. From it: `DraftGuestsByChoiceCorrect`.

`PROJECT.json` lists the theorems with the properties they state. A theorem without one says
something that no run states as a property: a consequence, such as `ShownFits` and `NothingSkipped`;
a property of its own, such as `ChangedByRight`, `ShownByOwner` and `EndedForGood`; or the exact
form of a promise under a hypothesis on the constants (`Alone`: one worker and no fault), which
shows that the excuses in the general form are needed for overlaps and faults and for nothing else.

### Only model-checked

* Liveness: `CountConverges`, `PublicationTold`, `AcceptedTried`.

All other properties of the passing runs are proved.

## 5. What is not modelled

* Text and layout, file serving, configuration and helpers: sequential, nothing shared.
* The backup tool: a sequential program of its own around a library.
* `UIVisibility.js` and the paging of `Comments.js`: state of the document, driven by timers and
  answers; what reaches the server from them is part of Discussion and Notifications. The paging is
  the first item of the plan.
* The forms for signing up, logging in, profiles and uploads: each sends one request.
* Reads that change nothing: pages of events, comments and profiles, searches.
* Inside modelled parts: the descriptive columns of an event (one flag, `details`), the time of
  an event, the text of mails but for the name in an invitation, file names, the hash of a
  password, names and biographies, and the chunks in which curl takes a mail (the string that
  `payload_source` does not free is memory no step depends on).
* That the feed catches up: the search for liveness on the instance takes longer than a run may.
  `SeenIsListed` and `ListedOnce` are its safety side: a lost answer is made up for by the next
  poll, because the page goes on from the last notification it has.
* The database is taken to execute each statement atomically and to be where the tables are
  read from; replication and its isolation levels are outside the code.

## 6. Plan

1. Paging of the discussion: the pages of `Comments.js` against the table of comments, which are
   added and deleted between two requests. The callbacks of an earlier page write to the elements of
   the one that is open (`Comments.js` 230), and the button stays enabled while its request is under
   way (212): that loading more leaves no gap, ends only when nothing is left, and lists in order.
2. Uploads of the edit page: which of several uploads of `init.js` names a row of Media.
3. A refinement of the handlers that Media and Events share (`delete_event`), so that the step that
   Media takes as one is shown to be the one that Events splits.
