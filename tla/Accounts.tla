----------------------------- MODULE Accounts -----------------------------
(***************************************************************************)
(* Accounts, sessions and password resets (Backend/Server/Logins.cpp,      *)
(* Backend/Users.cpp, Backend/DB/Users.cpp).  Each action is one statement *)
(* of a worker: workers interleave between them, the database wipes table  *)
(* Spam once a day, time passes, and connections are lost.                 *)
(*                                                                         *)
(* Sign-ups come from one address, as each has a row of its own in Spam.   *)
(* An e-mail address stands for its user.  A password is told from later   *)
(* ones of the same user by a number that grows.                           *)
(***************************************************************************)
EXTENDS Integers, FiniteSets

CONSTANTS
  Worker,           \* threads of the server
  Email,
  Token,            \* bound: session tokens that can be drawn
  Code,             \* bound: password reset codes that can be drawn
  None,
  MaxAccounts,      \* setting max_accounts_per_ip_per_day
  Minutes,          \* bound: the minutes at which something happens
  MaxResets,        \* bound: passwords set with codes
  MaxFaults         \* bound: lost connections

ASSUME AccountsAssumptions ==
  /\ IsFiniteSet(Worker)
  /\ None \notin Email \cup Token \cup Code \cup Nat
  /\ Minutes \subseteq Nat
  /\ MaxAccounts \in Nat \ {0}
  /\ MaxResets \in Nat
  /\ MaxFaults \in Nat

Op == {"sign_up", "log_in", "log_out", "get_link", "verify", "reset"}

\* A session remembers (history) the password it was opened with, and whether that
\* one had been replaced by the time that the row was inserted.
Session == [user : Email, password : Nat, late : BOOLEAN]

Reset == [user : Email, issued : Minutes]

\* What a worker does: the handler, the address or the cookie or the code that the
\* request has, the password that was compared, and whether it is the second run.
Job == [op : Op \cup {"none"}, user : Email \cup {None}, cookie : Token \cup {None},
        code : Code \cup {None}, password : Nat, again : BOOLEAN]

NoJob == [op |-> "none", user |-> None, cookie |-> None, code |-> None,
          password |-> 0, again |-> FALSE]

VARIABLES
  spam,           \* accounts_created in the row of Spam, or None
  users,          \* the addresses in Users
  password,       \* the password of each user
  sessions,       \* table Sessions: the row of each token, or None
  resets,         \* table PasswordResets: the row of each code, or None
  now,            \* the time in minutes
  pc,             \* the statement a worker executes next
  job,
  drawn,          \* history: tokens and codes that were drawn
  admitted,       \* history: sign-ups that were let through since Spam was wiped
  unended,        \* history: users whose sessions a fault kept from being deleted
  faults          \* history: faults so far

tables  == <<spam, users, password, sessions, resets>>
work    == <<pc, job>>
history == <<drawn, admitted, unended>>
vars    == <<tables, now, work, history, faults>>

Init ==
  /\ spam = None
  /\ users = {}
  /\ password = [u \in Email |-> 0]
  /\ sessions = [t \in Token |-> None]
  /\ resets = [c \in Code |-> None]
  /\ now \in Minutes
  /\ pc = [w \in Worker |-> "idle"]
  /\ job = [w \in Worker |-> NoJob]
  /\ drawn = {}
  /\ admitted = 0
  /\ unended = {}
  /\ faults = 0

GoTo(w, s) == pc' = [pc EXCEPT ![w] = s] /\ UNCHANGED job

Finish(w) ==
  /\ pc' = [pc EXCEPT ![w] = "idle"]
  /\ job' = [job EXCEPT ![w] = NoJob]
-----------------------------------------------------------------------------
(***************************************************************************)
(* Times.  NOW() and a TIMESTAMP are numbers YYYYMMDDHHMMSS when 10*60 is  *)
(* subtracted from one or they from each other: a minute counts 100, an    *)
(* hour 10000.                                                             *)
(***************************************************************************)
Stamp(minute) == (minute \div 60) * 10000 + (minute % 60) * 100

\* Mutant: the limit is taken in the wrong unit.
InTimeByHour(minute) == Stamp(now) - Stamp(minute) <= 60*60

InTime(minute) == Stamp(now) - Stamp(minute) <= 10*60

\* In the first six minutes of an hour NOW() - 10*60 is the number of no time of day:
\* a comparison with it may then also be NULL, neither true nor false.
NoTime == now % 60 < 6
-----------------------------------------------------------------------------
FirstStatement(op) ==
  CASE op \in {"sign_up", "log_in", "log_out"} -> "log_out"
    [] op = "get_link"                         -> "select_email"
    [] op \in {"verify", "reset"}              -> "delete_resets"

Receive(w) == \E op \in Op, u \in Email, t \in Token \cup {None}, c \in Code :
  /\ pc[w] = "idle"
  /\ pc' = [pc EXCEPT ![w] = FirstStatement(op)]
  /\ job' = [job EXCEPT ![w] = [NoJob EXCEPT
       !.op = op,
       !.user   = IF op \in {"sign_up", "log_in", "get_link"} THEN u ELSE None,
       !.cookie = IF op \in {"sign_up", "log_in", "log_out"} THEN t ELSE None,
       !.code   = IF op \in {"verify", "reset"} THEN c ELSE None]]
  /\ UNCHANGED <<tables, now, history, faults>>

\* log_out: the session of the cookie, if there is one, ends before anything else.
LogOut(w) ==
  /\ pc[w] = "log_out"
  /\ sessions' = [t \in Token |-> IF t = job[w].cookie THEN None ELSE sessions[t]]
  /\ CASE job[w].op = "sign_up" -> GoTo(w, "select_spam")
       [] job[w].op = "log_in"  -> GoTo(w, "select_user")
       [] job[w].op = "log_out" -> Finish(w)
  /\ UNCHANGED <<spam, users, password, resets, now, history, faults>>
-----------------------------------------------------------------------------
(***************************************************************************)
(* create_account.                                                         *)
(***************************************************************************)
\* Mutant: one more than the limit is admitted.
SelectSpamOffByOne(w) ==
  /\ pc[w] = "select_spam"
  /\ CASE spam = None -> GoTo(w, "insert_spam") /\ UNCHANGED admitted
       [] spam # None /\ spam > MaxAccounts -> Finish(w) /\ UNCHANGED admitted
       [] OTHER -> GoTo(w, "count") /\ admitted' = admitted + 1
  /\ UNCHANGED <<tables, now, drawn, unended, faults>>

SelectSpam(w) ==
  /\ pc[w] = "select_spam"
  /\ CASE spam = None -> GoTo(w, "insert_spam") /\ UNCHANGED admitted
       [] spam # None /\ spam >= MaxAccounts -> Finish(w) /\ UNCHANGED admitted
       [] OTHER -> GoTo(w, "count") /\ admitted' = admitted + 1
  /\ UNCHANGED <<tables, now, drawn, unended, faults>>

\* A row that another worker inserted meanwhile makes the INSERT throw.
InsertSpam(w) ==
  /\ pc[w] = "insert_spam"
  /\ IF spam = None THEN GoTo(w, "count") /\ spam' = 0 /\ admitted' = admitted + 1
                    ELSE Finish(w) /\ UNCHANGED <<spam, admitted>>
  /\ UNCHANGED <<users, password, sessions, resets, now, drawn, unended, faults>>

\* The UPDATE finds no row if Spam was wiped meanwhile.
Count(w) ==
  /\ pc[w] = "count"
  /\ spam' = IF spam = None THEN None ELSE spam + 1
  /\ GoTo(w, "insert_user")
  /\ UNCHANGED <<users, password, sessions, resets, now, history, faults>>

\* Mutant: a sign-up that fails is given back.
InsertUserOrRefund(w) ==
  /\ pc[w] = "insert_user"
  /\ IF job[w].user \in users
     THEN Finish(w) /\ UNCHANGED users /\ spam' = IF spam = None THEN None ELSE spam - 1
     ELSE GoTo(w, "id_returned") /\ users' = users \cup {job[w].user} /\ UNCHANGED spam
  /\ UNCHANGED <<password, sessions, resets, now, history, faults>>

\* Mutant: an address that is taken is not refused.
InsertUserAgain(w) ==
  /\ pc[w] = "insert_user"
  /\ GoTo(w, "id_returned")
  /\ users' = users \cup {job[w].user}
  /\ UNCHANGED <<spam, password, sessions, resets, now, history, faults>>

\* The address is unique: the INSERT throws if it has an account.
InsertUser(w) ==
  /\ pc[w] = "insert_user"
  /\ IF job[w].user \in users
     THEN Finish(w) /\ UNCHANGED users
     ELSE GoTo(w, "id_returned") /\ users' = users \cup {job[w].user}
  /\ UNCHANGED <<spam, password, sessions, resets, now, history, faults>>

\* The answer with the new user's id; it can be lost.
ReturnId(w) ==
  /\ pc[w] = "id_returned"
  /\ GoTo(w, "insert_session")
  /\ UNCHANGED <<tables, now, history, faults>>
-----------------------------------------------------------------------------
(***************************************************************************)
(* log_in_to_account, and the session that ends a sign-up or a log-in.     *)
(***************************************************************************)
\* The hash is read, and compared after the statement.
SelectUser(w) ==
  /\ pc[w] = "select_user"
  /\ \/ Finish(w)
     \/ /\ job[w].user \in users
        /\ pc' = [pc EXCEPT ![w] = "insert_session"]
        /\ job' = [job EXCEPT ![w].password = password[job[w].user]]
  /\ UNCHANGED <<tables, now, history, faults>>

NewSession(w) == [user |-> job[w].user, password |-> job[w].password,
                  late |-> job[w].password # password[job[w].user]]

Draw(t, row) ==
  /\ t \notin drawn
  /\ sessions' = [sessions EXCEPT ![t] = row]
  /\ drawn' = drawn \cup {t}

\* Bound: when the tokens run out, the INSERT fails.
InsertSession(w) ==
  /\ pc[w] = "insert_session"
  /\ \/ \E t \in Token : Draw(t, NewSession(w))
     \/ Token \subseteq drawn /\ UNCHANGED <<sessions, drawn>>
  /\ Finish(w)
  /\ UNCHANGED <<spam, users, password, resets, now, admitted, unended, faults>>
-----------------------------------------------------------------------------
(***************************************************************************)
(* Password resets: the link, its page, and the new password.              *)
(***************************************************************************)
SelectEmail(w) ==
  /\ pc[w] = "select_email"
  /\ IF job[w].user \in users THEN GoTo(w, "insert_reset") ELSE Finish(w)
  /\ UNCHANGED <<tables, now, history, faults>>

\* The row, and the mail with the code.
InsertReset(w) ==
  /\ pc[w] = "insert_reset"
  /\ \/ \E c \in Code \ drawn :
          /\ resets' = [resets EXCEPT ![c] = [user |-> job[w].user, issued |-> now]]
          /\ drawn' = drawn \cup {c}
     \/ Code \subseteq drawn /\ UNCHANGED <<resets, drawn>>
  /\ Finish(w)
  /\ UNCHANGED <<spam, users, password, sessions, now, admitted, unended, faults>>

DeleteResets(w) ==
  /\ pc[w] = "delete_resets"
  /\ \/ resets' = [c \in Code |->
          IF resets[c] # None /\ Stamp(resets[c].issued) <= Stamp(now) - 10*60
          THEN None ELSE resets[c]]
     \/ NoTime /\ UNCHANGED resets
  /\ IF job[w].op = "reset" THEN GoTo(w, "select_reset") ELSE Finish(w)
  /\ UNCHANGED <<spam, users, password, sessions, now, history, faults>>

\* The code is accepted; its row stays, so that it is accepted again until it expires.
SelectReset(w) ==
  LET row      == resets[job[w].code]
      accepted == row # None /\ InTime(row.issued)
  IN /\ pc[w] = "select_reset"
     /\ \/ /\ accepted
           /\ pc' = [pc EXCEPT ![w] = "update_password"]
           /\ job' = [job EXCEPT ![w].user = row.user]
        \/ /\ ~ accepted \/ NoTime
           /\ Finish(w)
     /\ UNCHANGED <<tables, now, history, faults>>

UpdatePassword(w) ==
  /\ pc[w] = "update_password"
  /\ password[job[w].user] < MaxResets
  /\ password' = [password EXCEPT ![job[w].user] = @ + 1]
  /\ GoTo(w, "kill_sessions")
  /\ UNCHANGED <<spam, users, sessions, resets, now, history, faults>>

\* Mutant: only the session of the browser that sent the request would end.
KillSessionsNot(w) ==
  /\ pc[w] = "kill_sessions"
  /\ GoTo(w, "respond")
  /\ UNCHANGED <<tables, now, history, faults>>

KillSessions(w) ==
  /\ pc[w] = "kill_sessions"
  /\ sessions' = [t \in Token |->
       IF sessions[t] # None /\ sessions[t].user = job[w].user THEN None ELSE sessions[t]]
  /\ GoTo(w, "respond")
  /\ UNCHANGED <<spam, users, password, resets, now, history, faults>>

Respond(w) ==
  /\ pc[w] = "respond"
  /\ Finish(w)
  /\ UNCHANGED <<tables, now, history, faults>>
-----------------------------------------------------------------------------
\* An exception at the INSERT of a session or a code is caught and the INSERT tried
\* again with another draw, or the tries run out; it may have been executed.
FailDraw(w) ==
  /\ pc[w] \in {"insert_session", "insert_reset"}
  /\ faults < MaxFaults
  /\ faults' = faults + 1
  /\ UNCHANGED work \/ Finish(w)
  /\ \/ UNCHANGED <<sessions, drawn>>
     \/ pc[w] = "insert_session" /\ \E t \in Token : Draw(t, NewSession(w))
  /\ UNCHANGED <<spam, users, password, resets, now, admitted, unended>>

\* A connection is lost at any other statement, or with the answer to the one before
\* (that of the INSERT of an account among them): the handler runs again from its
\* start, once.
LoseConnection(w) ==
  /\ pc[w] \notin {"idle", "insert_session", "insert_reset"}
  /\ faults < MaxFaults
  /\ faults' = faults + 1
  /\ unended' = IF pc[w] = "kill_sessions" THEN unended \cup {job[w].user} ELSE unended
  /\ IF job[w].again
     THEN Finish(w)
     ELSE /\ pc' = [pc EXCEPT ![w] = FirstStatement(job[w].op)]
          /\ job' = [job EXCEPT ![w].again = TRUE,
                                ![w].user = IF job[w].op = "reset" THEN None ELSE @]
  /\ UNCHANGED <<tables, now, drawn, admitted>>

\* The daily event of the database.
WipeSpam ==
  /\ spam' = None
  /\ admitted' = 0
  /\ UNCHANGED <<users, password, sessions, resets, now, work, drawn, unended, faults>>

Tick ==
  /\ now' \in {m \in Minutes : m > now}
  /\ UNCHANGED <<tables, work, history, faults>>

Step(w) ==
  \/ Receive(w) \/ LogOut(w)
  \/ SelectSpam(w) \/ InsertSpam(w) \/ Count(w) \/ InsertUser(w) \/ ReturnId(w)
  \/ SelectUser(w) \/ InsertSession(w)
  \/ SelectEmail(w) \/ InsertReset(w)
  \/ DeleteResets(w) \/ SelectReset(w) \/ UpdatePassword(w) \/ KillSessions(w) \/ Respond(w)
  \/ FailDraw(w) \/ LoseConnection(w)

Next == (\E w \in Worker : Step(w)) \/ WipeSpam \/ Tick

Spec == Init /\ [][Next]_vars
-----------------------------------------------------------------------------
TypeOK ==
  /\ spam \in Nat \cup {None}
  /\ users \subseteq Email
  /\ password \in [Email -> 0..MaxResets]
  /\ sessions \in [Token -> Session \cup {None}]
  /\ resets \in [Code -> Reset \cup {None}]
  /\ now \in Minutes
  /\ pc \in [Worker -> {"idle", "log_out", "select_spam", "insert_spam", "count",
                        "insert_user", "id_returned", "select_user", "insert_session",
                        "select_email", "insert_reset", "delete_resets", "select_reset",
                        "update_password", "kill_sessions", "respond"}]
  /\ job \in [Worker -> Job]
  /\ drawn \subseteq Token \cup Code
  /\ admitted \in Nat
  /\ unended \subseteq Email
  /\ faults \in 0..MaxFaults

(***************************************************************************)
(* On one day create_account admits no more sign-ups of an address than    *)
(* the setting allows, but for one of each other worker and fault: it      *)
(* reads the counter in one statement and increments it in another.        *)
(***************************************************************************)
SignUpsBounded == admitted <= MaxAccounts + Cardinality(Worker) - 1 + faults

(***************************************************************************)
(* A session that was opened with a password that is no longer the user's  *)
(* comes from a log-in that compared the password before the reset and     *)
(* inserted the session after it, or is about to be deleted, or a fault    *)
(* took the deletion: reset_password deletes every session of the user.    *)
(***************************************************************************)
OldSessionsEnd == \A t \in Token :
  LET s == sessions[t]
  IN s # None /\ s.password # password[s.user] =>
       \/ s.late \/ s.user \in unended
       \/ \E w \in Worker : pc[w] = "kill_sessions" /\ job[w].user = s.user

(***************************************************************************)
(* A session and a code belong to a user who has an account, and an        *)
(* address is signed up once: of the workers that sign it up at the same   *)
(* time, no two get past the INSERT of the account, nor does a sign-up     *)
(* that is run again because the answer to that INSERT was lost, and that  *)
(* finds its own address taken.                                            *)
(***************************************************************************)
SigningIn(w) == job[w].op = "sign_up" /\ pc[w] \in {"id_returned", "insert_session"}
NobodysNothing ==
  /\ \A t \in Token : sessions[t] # None => sessions[t].user \in users
  /\ \A c \in Code : resets[c] # None => resets[c].user \in users
  /\ \A w \in Worker : SigningIn(w) => job[w].user \in users
  /\ \A v, w \in Worker : SigningIn(v) /\ SigningIn(w) /\ job[v].user = job[w].user => v = w

(***************************************************************************)
(* "links expire after 10 minutes" (Frontend/init.js): a code that is      *)
(* older changes no password, although the times are compared as decimal   *)
(* numbers and the old rows deleted in a statement of their own.           *)
(***************************************************************************)
CodesExpire == [][\A w \in Worker :
  pc[w] = "select_reset" /\ pc'[w] = "update_password" =>
    now - resets[job[w].code].issued <= 10]_vars
=============================================================================
