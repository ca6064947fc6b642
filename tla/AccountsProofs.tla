--------------------------- MODULE AccountsProofs ---------------------------
(***************************************************************************)
(* Theorems of Accounts, for any number of workers, users, tokens, codes   *)
(* and faults, and any limit of accounts.  The inductive invariant says    *)
(* which statements belong to which handler and which of them follow only  *)
(* once the account was found, and counts the sign-ups that were admitted  *)
(* and are not yet in the counter of table Spam.                           *)
(***************************************************************************)
EXTENDS Accounts, FiniteSetTheorems, TLAPS

Statement == {"idle", "log_out", "select_spam", "insert_spam", "count", "insert_user",
              "id_returned", "select_user", "insert_session", "select_email",
              "insert_reset", "delete_resets", "select_reset", "update_password",
              "kill_sessions", "respond"}

\* A worker at statement s with job j, when the addresses in known have accounts.
Proper(s, j, known) ==
  /\ \/ s = "idle"
     \/ /\ j.op = "sign_up" /\ j.user \in Email
        /\ s \in {"log_out", "select_spam", "insert_spam", "count", "insert_user",
                  "id_returned", "insert_session"}
     \/ /\ j.op = "log_in" /\ j.user \in Email
        /\ s \in {"log_out", "select_user", "insert_session"}
     \/ j.op = "log_out" /\ s = "log_out"
     \/ j.op = "get_link" /\ j.user \in Email /\ s \in {"select_email", "insert_reset"}
     \/ j.op = "verify" /\ s = "delete_resets"
     \/ /\ j.op = "reset" /\ j.code \in Code
        /\ s \in {"delete_resets", "select_reset", "update_password", "kill_sessions", "respond"}
  /\ s \in {"id_returned", "insert_session", "insert_reset", "update_password",
            "kill_sessions"} =>
       j.user \in known

WorkersProper == \A w \in Worker : Proper(pc[w], job[w], users)

Basis == TypeOK /\ WorkersProper /\ NobodysNothing

\* The sign-ups that were admitted and are not in the counter yet.
Counting == {w \in Worker : pc[w] = "count"}

Counted ==
  /\ spam = None => admitted = 0
  /\ spam # None => admitted <= spam + Cardinality(Counting) + faults

IInv == Basis /\ Counted /\ SignUpsBounded /\ OldSessionsEnd
-----------------------------------------------------------------------------
(***************************************************************************)
(* The workers: what Receive, GoTo, Finish and the retry do to one of them.*)
(***************************************************************************)
\* Worker w goes to statement s with job j, and no other worker moves.
Moves(w, s, j) ==
  /\ s \in Statement /\ j \in Job
  /\ pc' = [pc EXCEPT ![w] = s]
  /\ job' = [job EXCEPT ![w] = j]

LEMMA NoJobType == NoJob \in Job
  BY DEF NoJob, Job

LEMMA GoToMoves ==
  ASSUME TypeOK, NEW w \in Worker, NEW s \in Statement, GoTo(w, s)
  PROVE  Moves(w, s, job[w])
  BY DEF TypeOK, GoTo, Moves

LEMMA FinishMoves ==
  ASSUME TypeOK, NEW w \in Worker, Finish(w)
  PROVE  Moves(w, "idle", NoJob)
  BY NoJobType DEF Finish, Moves, Statement

LEMMA MovesLocal ==
  ASSUME TypeOK, NEW w \in Worker, NEW s, NEW j, Moves(w, s, j)
  PROVE  /\ pc' \in [Worker -> Statement] /\ job' \in [Worker -> Job]
         /\ pc'[w] = s /\ job'[w] = j
         /\ \A v \in Worker : v # w => pc'[v] = pc[v] /\ job'[v] = job[v]
  BY DEF TypeOK, Moves, Statement

\* A move to a proper statement keeps all workers proper while accounts remain.
LEMMA MovesProper ==
  ASSUME TypeOK, WorkersProper, users \subseteq users',
         NEW w \in Worker, NEW s, NEW j, Moves(w, s, j), Proper(s, j, users')
  PROVE  WorkersProper'
  <1> SUFFICES ASSUME NEW v \in Worker PROVE Proper(pc'[v], job'[v], users')
    BY DEF WorkersProper
  <1>1. CASE v = w  BY <1>1, MovesLocal
  <1>2. CASE v # w
    <2>1. pc'[v] = pc[v] /\ job'[v] = job[v]  BY <1>2, MovesLocal
    <2>2. Proper(pc[v], job[v], users)  BY DEF WorkersProper
    <2> QED  BY <2>1, <2>2 DEF Proper
  <1> QED  BY <1>1, <1>2

LEMMA IdleProper == ASSUME NEW j, NEW known PROVE Proper("idle", j, known)
  BY DEF Proper
-----------------------------------------------------------------------------
(***************************************************************************)
(* Every step of a worker moves it properly and keeps the types.           *)
(***************************************************************************)
LEMMA ReceiveMoves ==
  ASSUME Basis, NEW w \in Worker, Receive(w)
  PROVE  \E s, j : Moves(w, s, j) /\ Proper(s, j, users)
  <1>1. PICK op \in Op, u \in Email, t \in Token \cup {None}, c \in Code :
          /\ pc' = [pc EXCEPT ![w] = FirstStatement(op)]
          /\ job' = [job EXCEPT ![w] = [NoJob EXCEPT
               !.op = op,
               !.user   = IF op \in {"sign_up", "log_in", "get_link"} THEN u ELSE None,
               !.cookie = IF op \in {"sign_up", "log_in", "log_out"} THEN t ELSE None,
               !.code   = IF op \in {"verify", "reset"} THEN c ELSE None]]
    BY DEF Receive
  <1> DEFINE user   == IF op \in {"sign_up", "log_in", "get_link"} THEN u ELSE None
             cookie == IF op \in {"sign_up", "log_in", "log_out"} THEN t ELSE None
             code   == IF op \in {"verify", "reset"} THEN c ELSE None
             j == [NoJob EXCEPT !.op = op, !.user = user, !.cookie = cookie, !.code = code]
  <1>2. user \in Email \cup {None} /\ cookie \in Token \cup {None} /\ code \in Code \cup {None}
    OBVIOUS
  <1>3. /\ op \in {"sign_up", "log_in", "get_link"} => user \in Email
        /\ op \in {"verify", "reset"} => code \in Code
    OBVIOUS
  <1> HIDE DEF user, cookie, code
  <1>4. j \in Job /\ j.op = op /\ j.user = user /\ j.code = code
    BY <1>2, NoJobType DEF Job
  <1>5. FirstStatement(op) \in Statement
    BY DEF FirstStatement, Statement, Op
  <1>6. Moves(w, FirstStatement(op), j)
    BY <1>1, <1>4, <1>5 DEF Moves, user, cookie, code
  <1> HIDE DEF j
  <1>7. Proper(FirstStatement(op), j, users)
    BY <1>3, <1>4 DEF Proper, FirstStatement, Op
  <1> QED  BY <1>6, <1>7

LEMMA SignUpMoves ==
  ASSUME Basis, NEW w \in Worker,
         SelectSpam(w) \/ InsertSpam(w) \/ Count(w) \/ InsertUser(w) \/ ReturnId(w)
  PROVE  \E s, j : Moves(w, s, j) /\ Proper(s, j, users')
  <1>1. TypeOK /\ Proper(pc[w], job[w], users)  BY DEF Basis, WorkersProper
  <1>2. job[w].op = "sign_up" /\ job[w].user \in Email
    BY <1>1 DEF Proper, SelectSpam, InsertSpam, Count, InsertUser, ReturnId
  <1>3. CASE Finish(w)  BY <1>1, <1>3, FinishMoves, IdleProper
  <1>4. ASSUME NEW s \in {"insert_spam", "count", "insert_user"}, GoTo(w, s)
        PROVE  \E r, j : Moves(w, r, j) /\ Proper(r, j, users')
    <2>1. Moves(w, s, job[w])  BY <1>1, <1>4, GoToMoves DEF Statement
    <2>2. Proper(s, job[w], users')  BY <1>2 DEF Proper
    <2> QED  BY <2>1, <2>2
  <1>5. ASSUME NEW s \in {"id_returned", "insert_session"}, GoTo(w, s), job[w].user \in users'
        PROVE  \E r, j : Moves(w, r, j) /\ Proper(r, j, users')
    <2>1. Moves(w, s, job[w])  BY <1>1, <1>5, GoToMoves DEF Statement
    <2>2. Proper(s, job[w], users')  BY <1>2, <1>5 DEF Proper
    <2> QED  BY <2>1, <2>2
  <1>6. CASE SelectSpam(w) \/ InsertSpam(w) \/ Count(w)
    <2>1. Finish(w) \/ \E s \in {"insert_spam", "count", "insert_user"} : GoTo(w, s)
      BY <1>6, Zenon DEF SelectSpam, InsertSpam, Count
    <2> QED  BY <1>3, <1>4, <2>1
  <1>7. CASE InsertUser(w)
    <2>1. Finish(w) \/ (GoTo(w, "id_returned") /\ users' = users \cup {job[w].user})
      BY <1>7 DEF InsertUser
    <2> QED  BY <1>3, <1>5, <2>1
  <1>8. CASE ReturnId(w)
    <2>1. GoTo(w, "insert_session") /\ users' = users /\ pc[w] = "id_returned"
      BY <1>8 DEF ReturnId, tables
    <2>2. job[w].user \in users'  BY <1>1, <2>1 DEF Proper
    <2> QED  BY <1>5, <2>1, <2>2
  <1> QED  BY <1>6, <1>7, <1>8

LEMMA SessionMoves ==
  ASSUME Basis, NEW w \in Worker, LogOut(w) \/ SelectUser(w) \/ InsertSession(w)
  PROVE  \E s, j : Moves(w, s, j) /\ Proper(s, j, users)
  <1>1. TypeOK /\ Proper(pc[w], job[w], users)  BY DEF Basis, WorkersProper
  <1>2. CASE Finish(w)  BY <1>1, <1>2, FinishMoves, IdleProper
  <1>3. CASE LogOut(w)
    <2>1. job[w].op \in {"sign_up", "log_in", "log_out"} /\ pc[w] = "log_out"
      BY <1>1, <1>3 DEF Proper, LogOut
    <2>2. CASE job[w].op = "sign_up"
      <3>1. GoTo(w, "select_spam") /\ job[w].user \in Email
        BY <1>1, <1>3, <2>1, <2>2 DEF LogOut, Proper
      <3>2. Moves(w, "select_spam", job[w])  BY <1>1, <3>1, GoToMoves DEF Statement
      <3> QED  BY <2>2, <3>1, <3>2 DEF Proper
    <2>3. CASE job[w].op = "log_in"
      <3>1. GoTo(w, "select_user") /\ job[w].user \in Email
        BY <1>1, <1>3, <2>1, <2>3 DEF LogOut, Proper
      <3>2. Moves(w, "select_user", job[w])  BY <1>1, <3>1, GoToMoves DEF Statement
      <3> QED  BY <2>3, <3>1, <3>2 DEF Proper
    <2>4. CASE job[w].op = "log_out"  BY <1>2, <1>3, <2>4 DEF LogOut
    <2> QED  BY <2>1, <2>2, <2>3, <2>4
  <1>4. CASE SelectUser(w) /\ ~ Finish(w)
    <2> DEFINE j == [job[w] EXCEPT !.password = password[job[w].user]]
    <2>1. /\ job[w].user \in users /\ job[w].op = "log_in" /\ job[w] \in Job
          /\ job[w].user \in Email
      BY <1>1, <1>4 DEF SelectUser, Proper, TypeOK
    <2>2. password[job[w].user] \in Nat
      BY <1>1, <2>1, AccountsAssumptions DEF TypeOK
    <2>3. j \in Job /\ j.op = "log_in" /\ j.user = job[w].user
      BY <2>1, <2>2 DEF Job
    <2>4. Moves(w, "insert_session", j)
      BY <1>1, <1>4, <2>3 DEF SelectUser, Moves, Statement, TypeOK
    <2> HIDE DEF j
    <2>5. Proper("insert_session", j, users)  BY <2>1, <2>3 DEF Proper
    <2> QED  BY <2>4, <2>5
  <1>5. CASE InsertSession(w)  BY <1>2, <1>5 DEF InsertSession
  <1> QED  BY <1>2, <1>3, <1>4, <1>5

LEMMA ResetMoves ==
  ASSUME Basis, NEW w \in Worker,
         \/ SelectEmail(w) \/ InsertReset(w) \/ DeleteResets(w)
         \/ SelectReset(w) \/ UpdatePassword(w) \/ KillSessions(w) \/ Respond(w)
  PROVE  \E s, j : Moves(w, s, j) /\ Proper(s, j, users)
  <1>1. TypeOK /\ Proper(pc[w], job[w], users)  BY DEF Basis, WorkersProper
  <1>2. CASE Finish(w)  BY <1>1, <1>2, FinishMoves, IdleProper
  <1>3. CASE SelectEmail(w) /\ ~ Finish(w)
    <2>1. GoTo(w, "insert_reset") /\ job[w].user \in users
      BY <1>3 DEF SelectEmail
    <2>2. job[w].op = "get_link" /\ job[w].user \in Email
      BY <1>1, <1>3 DEF SelectEmail, Proper
    <2>3. Moves(w, "insert_reset", job[w])  BY <1>1, <2>1, GoToMoves DEF Statement
    <2> QED  BY <2>1, <2>2, <2>3 DEF Proper
  <1>4. CASE InsertReset(w)  BY <1>2, <1>4 DEF InsertReset
  <1>5. CASE DeleteResets(w) /\ ~ Finish(w)
    <2>1. GoTo(w, "select_reset") /\ job[w].op = "reset"
      BY <1>5 DEF DeleteResets
    <2>2. job[w].code \in Code  BY <1>1, <1>5, <2>1 DEF DeleteResets, Proper
    <2>3. Moves(w, "select_reset", job[w])  BY <1>1, <2>1, GoToMoves DEF Statement
    <2> QED  BY <2>1, <2>2, <2>3 DEF Proper
  <1>6. CASE SelectReset(w) /\ ~ Finish(w)
    <2> DEFINE row == resets[job[w].code]
               j   == [job[w] EXCEPT !.user = row.user]
    <2>1. job[w].op = "reset" /\ job[w].code \in Code /\ job[w] \in Job
      BY <1>1, <1>6 DEF SelectReset, Proper, TypeOK
    <2>2. row # None /\ row.user \in users /\ row.user \in Email
      BY <1>6, <2>1 DEF SelectReset, Basis, NobodysNothing, TypeOK
    <2>3. /\ pc' = [pc EXCEPT ![w] = "update_password"]
          /\ job' = [job EXCEPT ![w].user = row.user]
      BY <1>6 DEF SelectReset
    <2> HIDE DEF row
    <2>4. j \in Job /\ j.op = "reset" /\ j.code = job[w].code /\ j.user = row.user
      BY <2>1, <2>2 DEF Job
    <2>5. Moves(w, "update_password", j)
      BY <1>1, <2>3, <2>4 DEF Moves, Statement, TypeOK
    <2> HIDE DEF j
    <2>6. Proper("update_password", j, users)  BY <2>1, <2>2, <2>4 DEF Proper
    <2> QED  BY <2>5, <2>6
  <1>7. CASE UpdatePassword(w)
    <2>1. job[w].op = "reset" /\ job[w].code \in Code /\ job[w].user \in users
      BY <1>1, <1>7 DEF UpdatePassword, Proper
    <2>2. Moves(w, "kill_sessions", job[w])
      BY <1>1, <1>7, GoToMoves DEF UpdatePassword, Statement
    <2> QED  BY <2>1, <2>2 DEF Proper
  <1>8. CASE KillSessions(w)
    <2>1. job[w].op = "reset" /\ job[w].code \in Code
      BY <1>1, <1>8 DEF KillSessions, Proper
    <2>2. Moves(w, "respond", job[w])
      BY <1>1, <1>8, GoToMoves DEF KillSessions, Statement
    <2> QED  BY <2>1, <2>2 DEF Proper
  <1>9. CASE Respond(w)  BY <1>2, <1>9 DEF Respond
  <1> QED  BY <1>2, <1>3, <1>4, <1>5, <1>6, <1>7, <1>8, <1>9

LEMMA FaultMoves ==
  ASSUME Basis, NEW w \in Worker, FailDraw(w) \/ LoseConnection(w)
  PROVE  \E s, j : Moves(w, s, j) /\ Proper(s, j, users)
  <1>1. TypeOK /\ Proper(pc[w], job[w], users)  BY DEF Basis, WorkersProper
  <1>2. CASE Finish(w)  BY <1>1, <1>2, FinishMoves, IdleProper
  <1>3. CASE UNCHANGED work
    <2>1. Moves(w, pc[w], job[w])  BY <1>1, <1>3 DEF work, Moves, TypeOK, Statement
    <2> QED  BY <1>1, <2>1
  <1>4. CASE LoseConnection(w) /\ ~ Finish(w)
    <2> DEFINE user == IF job[w].op = "reset" THEN None ELSE job[w].user
               j    == [job[w] EXCEPT !.again = TRUE, !.user = user]
    <2>1. pc[w] # "idle" /\ job[w] \in Job
      BY <1>1, <1>4 DEF LoseConnection, TypeOK
    <2>2. /\ pc' = [pc EXCEPT ![w] = FirstStatement(job[w].op)]
          /\ job' = [job EXCEPT ![w].again = TRUE,
                                ![w].user = IF job[w].op = "reset" THEN None ELSE @]
      BY <1>4 DEF LoseConnection
    <2>3. user \in Email \cup {None} /\ (job[w].op # "reset" => user = job[w].user)
      BY <2>1 DEF Job
    <2>4. job' = [job EXCEPT ![w] = j]
      BY <1>1, <2>1, <2>2 DEF TypeOK, Job
    <2> HIDE DEF user
    <2>5. j \in Job /\ j.op = job[w].op /\ j.code = job[w].code /\ j.user = user
      BY <2>1, <2>3 DEF Job
    <2>6. job[w].op \in Op  BY <1>1, <2>1 DEF Proper, Op
    <2>7. FirstStatement(job[w].op) \in Statement
      BY <2>6 DEF FirstStatement, Statement, Op
    <2>8. Moves(w, FirstStatement(job[w].op), j)
      BY <2>2, <2>4, <2>5, <2>7 DEF Moves
    <2> HIDE DEF j
    <2>9. Proper(FirstStatement(job[w].op), j, users)
      BY <1>1, <2>1, <2>3, <2>5, <2>6 DEF Proper, FirstStatement, Op
    <2> QED  BY <2>8, <2>9
  <1> QED  BY <1>2, <1>3, <1>4 DEF FailDraw

\* All of them together.
LEMMA StepMoves ==
  ASSUME Basis, NEW w \in Worker, Step(w)
  PROVE  /\ \E s, j : Moves(w, s, j) /\ Proper(s, j, users')
         /\ users \subseteq users'
         /\ now' = now
  <1>1. CASE SelectSpam(w) \/ InsertSpam(w) \/ Count(w) \/ InsertUser(w) \/ ReturnId(w)
    <2>1. users \subseteq users' /\ now' = now
      BY <1>1 DEF SelectSpam, InsertSpam, Count, InsertUser, ReturnId, tables
    <2> QED  BY <1>1, <2>1, SignUpMoves
  <1>2. ASSUME UNCHANGED <<users, now>>, \E s, j : Moves(w, s, j) /\ Proper(s, j, users)
        PROVE  /\ \E s, j : Moves(w, s, j) /\ Proper(s, j, users')
               /\ users \subseteq users'
               /\ now' = now
    BY <1>2
  <1>3. CASE Receive(w)
    BY <1>2, <1>3, ReceiveMoves DEF Receive, tables
  <1>4. CASE LogOut(w) \/ SelectUser(w) \/ InsertSession(w)
    <2>1. UNCHANGED <<users, now>>
      BY <1>4, Zenon DEF LogOut, SelectUser, InsertSession, tables
    <2> QED  BY <1>2, <1>4, <2>1, SessionMoves
  <1>5. CASE \/ SelectEmail(w) \/ InsertReset(w) \/ DeleteResets(w)
             \/ SelectReset(w) \/ UpdatePassword(w) \/ KillSessions(w) \/ Respond(w)
    <2>1. UNCHANGED <<users, now>>
      BY <1>5, Zenon DEF SelectEmail, InsertReset, DeleteResets, SelectReset,
                         UpdatePassword, KillSessions, Respond, tables
    <2> QED  BY <1>2, <1>5, <2>1, ResetMoves
  <1>6. CASE FailDraw(w) \/ LoseConnection(w)
    <2>1. UNCHANGED <<users, now>>
      BY <1>6, Zenon DEF FailDraw, LoseConnection, tables
    <2> QED  BY <1>2, <1>6, <2>1, FaultMoves
  <1> QED  BY <1>1, <1>3, <1>4, <1>5, <1>6 DEF Step
-----------------------------------------------------------------------------
(***************************************************************************)
(* The tables keep their types, and nothing in them belongs to nobody.     *)
(***************************************************************************)
\* The tables of sessions and codes, when accounts are in known.
RowsOK(sess, res, known) ==
  /\ sess \in [Token -> Session \cup {None}]
  /\ res \in [Code -> Reset \cup {None}]
  /\ \A t \in Token : sess[t] # None => sess[t].user \in known
  /\ \A c \in Code : res[c] # None => res[c].user \in known

LEMMA NewSessionType ==
  ASSUME Basis, NEW w \in Worker, pc[w] = "insert_session"
  PROVE  NewSession(w) \in Session /\ NewSession(w).user \in users
  <1>1. TypeOK /\ Proper(pc[w], job[w], users)  BY DEF Basis, WorkersProper
  <1>2. job[w] \in Job /\ job[w].user \in users /\ job[w].user \in Email
    BY <1>1 DEF TypeOK, Proper
  <1>3. job[w].password \in Nat  BY <1>2 DEF Job
  <1>4. (job[w].password # password[job[w].user]) \in BOOLEAN  OBVIOUS
  <1> QED  BY <1>2, <1>3, <1>4 DEF NewSession, Session

LEMMA DrawRows ==
  ASSUME TypeOK, NEW t \in Token, NEW row \in Session, row.user \in users, Draw(t, row),
         RowsOK(sessions, resets, users)
  PROVE  RowsOK(sessions', resets, users)
  <1>1. sessions' = [sessions EXCEPT ![t] = row]  BY DEF Draw
  <1>2. sessions' \in [Token -> Session \cup {None}]  BY <1>1 DEF TypeOK
  <1>3. \A s \in Token : sessions'[s] = IF s = t THEN row ELSE sessions[s]
    BY <1>1 DEF TypeOK
  <1> QED  BY <1>2, <1>3 DEF RowsOK

LEMMA StepRows ==
  ASSUME Basis, NEW w \in Worker, Step(w)
  PROVE  RowsOK(sessions', resets', users')
  <1>1. TypeOK /\ Proper(pc[w], job[w], users)  BY DEF Basis, WorkersProper
  <1>2. RowsOK(sessions, resets, users)  BY DEF Basis, TypeOK, NobodysNothing, RowsOK
  <1>3. users \subseteq users'  BY StepMoves
  <1>4. SUFFICES RowsOK(sessions', resets', users)  BY <1>3 DEF RowsOK
  <1>5. CASE UNCHANGED <<sessions, resets>>  BY <1>2, <1>5
  <1>6. CASE LogOut(w)
    <2>1. resets' = resets /\ \A t \in Token : sessions'[t] \in {None, sessions[t]}
      BY <1>6 DEF LogOut
    <2>2. sessions' \in [Token -> Session \cup {None}]
      BY <1>1, <1>6 DEF LogOut, TypeOK
    <2> QED  BY <1>2, <2>1, <2>2 DEF RowsOK
  <1>7. CASE KillSessions(w)
    <2>1. resets' = resets /\ \A t \in Token : sessions'[t] \in {None, sessions[t]}
      BY <1>7 DEF KillSessions
    <2>2. sessions' \in [Token -> Session \cup {None}]
      BY <1>1, <1>7 DEF KillSessions, TypeOK
    <2> QED  BY <1>2, <2>1, <2>2 DEF RowsOK
  <1>8. CASE pc[w] = "insert_session" /\ resets' = resets
             /\ \E t \in Token : Draw(t, NewSession(w))
    BY <1>1, <1>2, <1>8, NewSessionType, DrawRows
  <1>9. CASE InsertReset(w)
    <2>1. sessions' = sessions /\ pc[w] = "insert_reset"
      BY <1>9 DEF InsertReset
    <2>2. CASE resets' = resets  BY <1>2, <2>1, <2>2
    <2>3. ASSUME NEW c \in Code, resets' = [resets EXCEPT ![c] = [user |-> job[w].user, issued |-> now]]
          PROVE  RowsOK(sessions', resets', users)
      <3>1. job[w].user \in Email /\ job[w].user \in users
        BY <1>1, <2>1 DEF Proper
      <3>2. [user |-> job[w].user, issued |-> now] \in Reset
        BY <1>1, <3>1 DEF TypeOK, Reset
      <3>3. resets' \in [Code -> Reset \cup {None}]  BY <1>1, <2>3, <3>2 DEF TypeOK
      <3>4. \A d \in Code : resets'[d] =
              IF d = c THEN [user |-> job[w].user, issued |-> now] ELSE resets[d]
        BY <1>1, <2>3 DEF TypeOK
      <3> QED  BY <1>2, <2>1, <3>1, <3>3, <3>4 DEF RowsOK
    <2> QED  BY <1>9, <2>2, <2>3 DEF InsertReset
  <1>10. CASE DeleteResets(w)
    <2>1. sessions' = sessions  BY <1>10 DEF DeleteResets
    <2>2. CASE resets' = resets  BY <1>2, <2>1, <2>2
    <2>3. CASE resets' = [c \in Code |->
                 IF resets[c] # None /\ Stamp(resets[c].issued) <= Stamp(now) - 10*60
                 THEN None ELSE resets[c]]
      <3>1. \A c \in Code : resets'[c] \in {None, resets[c]}  BY <2>3
      <3>2. resets' \in [Code -> Reset \cup {None}]  BY <1>1, <2>3 DEF TypeOK
      <3> QED  BY <1>2, <2>1, <3>1, <3>2 DEF RowsOK
    <2> QED  BY <1>10, <2>2, <2>3 DEF DeleteResets
  <1>11. \/ UNCHANGED <<sessions, resets>>
         \/ LogOut(w) \/ KillSessions(w) \/ InsertReset(w) \/ DeleteResets(w)
         \/ /\ pc[w] = "insert_session" /\ resets' = resets
            /\ \E t \in Token : Draw(t, NewSession(w))
    BY Zenon DEF Step, Receive, SelectSpam, InsertSpam, Count, InsertUser, ReturnId, SelectUser,
                 InsertSession, SelectEmail, SelectReset, UpdatePassword, Respond, FailDraw,
                 LoseConnection, tables
  <1> QED  BY <1>5, <1>6, <1>7, <1>8, <1>9, <1>10, <1>11

\* A worker gets past the INSERT of an account only if the address has none, and so
\* no two of them do for the same address.
LEMMA StepSignsUp ==
  ASSUME Basis, NEW w \in Worker, Step(w), SigningIn(w)'
  PROVE  /\ job'[w].user = job[w].user
         /\ SigningIn(w) \/ job[w].user \notin users
  <1>1. TypeOK /\ Proper(pc[w], job[w], users)  BY DEF Basis, WorkersProper
  <1>2. job'[w].op = "sign_up" /\ pc'[w] \in {"id_returned", "insert_session"}
    BY DEF SigningIn
  <1>3. ~ Finish(w)  BY <1>1, <1>2 DEF Finish, TypeOK
  <1>4. ASSUME NEW s \in Statement \ {"id_returned", "insert_session"}
        PROVE  ~ GoTo(w, s)
    BY <1>1, <1>2, <1>4 DEF GoTo, TypeOK
  <1>5. CASE InsertUser(w)
    BY <1>1, <1>3, <1>5 DEF InsertUser, GoTo, TypeOK
  <1>6. CASE ReturnId(w)
    BY <1>1, <1>2, <1>6 DEF ReturnId, GoTo, SigningIn, TypeOK
  <1>7. CASE UNCHANGED work
    BY <1>2, <1>7 DEF work, SigningIn
  <1>8. CASE Receive(w) \/ (LoseConnection(w) /\ ~ Finish(w))
    <2>1. pc'[w] \notin {"id_returned", "insert_session"}
      <3>1. CASE Receive(w)
        BY <1>1, <3>1 DEF Receive, FirstStatement, Op, TypeOK
      <3>2. CASE LoseConnection(w) /\ ~ Finish(w)
        BY <1>1, <3>2 DEF LoseConnection, FirstStatement, TypeOK, Proper
      <3> QED  BY <1>8, <3>1, <3>2
    <2> QED  BY <1>2, <2>1
  <1>9. CASE SelectUser(w) \/ SelectReset(w)
    <2>1. job'[w].op = job[w].op /\ job[w].op \in {"log_in", "reset"}
      BY <1>1, <1>3, <1>9 DEF SelectUser, SelectReset, TypeOK, Proper, Job
    <2> QED  BY <1>2, <2>1
  <1>10. \/ Finish(w) \/ UNCHANGED work
         \/ \E s \in Statement \ {"id_returned", "insert_session"} : GoTo(w, s)
         \/ InsertUser(w) \/ ReturnId(w) \/ Receive(w)
         \/ (LoseConnection(w) /\ ~ Finish(w)) \/ SelectUser(w) \/ SelectReset(w)
    BY <1>1 DEF Step, LogOut, SelectSpam, InsertSpam, Count, InsertSession, SelectEmail,
           InsertReset, DeleteResets, UpdatePassword, KillSessions, Respond, FailDraw,
           Statement, Proper
  <1> QED  BY <1>3, <1>4, <1>5, <1>6, <1>7, <1>8, <1>9, <1>10

LEMMA StepNobodys ==
  ASSUME Basis, NEW w \in Worker, Step(w)
  PROVE  NobodysNothing'
  <1>1. TypeOK /\ WorkersProper /\ NobodysNothing  BY DEF Basis
  <1>2. PICK s, j : Moves(w, s, j) /\ Proper(s, j, users')  BY StepMoves
  <1>3. WorkersProper'  BY <1>1, <1>2, StepMoves, MovesProper
  <1>4. ASSUME NEW v \in Worker, SigningIn(v)' PROVE job'[v].user \in users'
    BY <1>3, <1>4 DEF WorkersProper, Proper, SigningIn
  <1>5. ASSUME NEW v \in Worker, v # w, SigningIn(v)', SigningIn(w)',
               job'[v].user = job'[w].user
        PROVE  FALSE
    <2>1. pc'[v] = pc[v] /\ job'[v] = job[v]  BY <1>1, <1>2, <1>5, MovesLocal
    <2>2. SigningIn(v) /\ job[v].user \in users
      BY <1>1, <1>5, <2>1 DEF SigningIn, NobodysNothing
    <2>3. job[v].user = job[w].user /\ SigningIn(w)
      BY <1>5, <2>1, <2>2, StepSignsUp
    <2> QED  BY <1>1, <1>5, <2>2, <2>3 DEF NobodysNothing
  <1>6. ASSUME NEW u \in Worker, NEW v \in Worker, SigningIn(u)', SigningIn(v)',
               job'[u].user = job'[v].user
        PROVE  u = v
    <2>1. CASE u = w \/ v = w  BY <1>5, <1>6, <2>1
    <2>2. CASE u # w /\ v # w
      <3>1. /\ pc'[u] = pc[u] /\ job'[u] = job[u]
            /\ pc'[v] = pc[v] /\ job'[v] = job[v]
        BY <1>1, <1>2, <2>2, MovesLocal
      <3> QED  BY <1>1, <1>6, <3>1 DEF SigningIn, NobodysNothing
    <2> QED  BY <2>1, <2>2
  <1>7. RowsOK(sessions', resets', users')  BY StepRows
  <1> QED  BY <1>4, <1>6, <1>7 DEF RowsOK, NobodysNothing

LEMMA InitBasis == Init => Basis
  <1> SUFFICES ASSUME Init PROVE Basis  OBVIOUS
  <1>1. TypeOK
    <2>1. 0 \in 0..MaxResets /\ 0 \in 0..MaxFaults  BY AccountsAssumptions
    <2>2. job \in [Worker -> Job]  BY NoJobType DEF Init
    <2> QED  BY <2>1, <2>2 DEF Init, TypeOK
  <1>2. WorkersProper  BY IdleProper DEF Init, WorkersProper
  <1>3. NobodysNothing  BY DEF Init, NobodysNothing, SigningIn
  <1> QED  BY <1>1, <1>2, <1>3 DEF Basis

\* The counters and the sets of history in the types.
LEMMA StepCounters ==
  ASSUME Basis, NEW w \in Worker, Step(w)
  PROVE  /\ spam' \in Nat \cup {None} /\ users' \subseteq Email
         /\ password' \in [Email -> 0..MaxResets]
         /\ drawn' \subseteq Token \cup Code
         /\ admitted' \in Nat /\ unended' \subseteq Email /\ faults' \in 0..MaxFaults
  <1>1. TypeOK /\ Proper(pc[w], job[w], users)  BY DEF Basis, WorkersProper
  <1>2. spam' \in Nat \cup {None}
    <2>1. spam' \in {spam, 0} \/ (spam # None /\ spam' = spam + 1)
      BY DEF Step, Receive, LogOut, SelectSpam, InsertSpam, Count, InsertUser, ReturnId, SelectUser,
             InsertSession, SelectEmail, InsertReset, DeleteResets, SelectReset,
             UpdatePassword, KillSessions, Respond, FailDraw, LoseConnection, tables
    <2> QED  BY <1>1, <2>1 DEF TypeOK
  <1>3. users' \subseteq Email
    <2>1. users' = users \/ (InsertUser(w) /\ users' = users \cup {job[w].user})
      BY Zenon
      DEF Step, Receive, LogOut, SelectSpam, InsertSpam, Count, InsertUser, ReturnId, SelectUser,
          InsertSession, SelectEmail, InsertReset, DeleteResets, SelectReset,
          UpdatePassword, KillSessions, Respond, FailDraw, LoseConnection, tables
    <2>2. InsertUser(w) => job[w].user \in Email  BY <1>1 DEF InsertUser, Proper
    <2> QED  BY <1>1, <2>1, <2>2 DEF TypeOK
  <1>4. password' \in [Email -> 0..MaxResets]
    <2>1. CASE password' = password  BY <1>1, <2>1 DEF TypeOK
    <2>2. CASE UpdatePassword(w)
      <3>1. job[w].user \in Email  BY <1>1, <2>2 DEF UpdatePassword, Proper, TypeOK
      <3>2. /\ password[job[w].user] \in 0..MaxResets
            /\ password[job[w].user] < MaxResets
            /\ password' = [password EXCEPT ![job[w].user] = password[job[w].user] + 1]
        BY <1>1, <2>2, <3>1 DEF UpdatePassword, TypeOK
      <3>3. password[job[w].user] + 1 \in 0..MaxResets
        BY <3>2, AccountsAssumptions
      <3> QED  BY <1>1, <3>2, <3>3 DEF TypeOK
    <2>3. password' = password \/ UpdatePassword(w)
      BY Zenon
      DEF Step, Receive, LogOut, SelectSpam, InsertSpam, Count, InsertUser, ReturnId, SelectUser,
          InsertSession, SelectEmail, InsertReset, DeleteResets, SelectReset,
          KillSessions, Respond, FailDraw, LoseConnection, tables
    <2> QED  BY <2>1, <2>2, <2>3
  <1>5. drawn' \subseteq Token \cup Code
    <2>1. drawn' = drawn \/ \E d \in Token \cup Code : drawn' = drawn \cup {d}
      BY DEF Step, Receive, LogOut, SelectSpam, InsertSpam, Count, InsertUser, ReturnId, SelectUser,
             InsertSession, SelectEmail, InsertReset, DeleteResets, SelectReset,
             UpdatePassword, KillSessions, Respond, FailDraw, LoseConnection, history, Draw
    <2> QED  BY <1>1, <2>1 DEF TypeOK
  <1>6. admitted' \in Nat
    <2>1. admitted' \in {admitted, admitted + 1}
      BY DEF Step, Receive, LogOut, SelectSpam, InsertSpam, Count, InsertUser, ReturnId, SelectUser,
             InsertSession, SelectEmail, InsertReset, DeleteResets, SelectReset,
             UpdatePassword, KillSessions, Respond, FailDraw, LoseConnection, history
    <2> QED  BY <1>1, <2>1 DEF TypeOK
  <1>7. unended' \subseteq Email
    <2>1. unended' = unended \/ (pc[w] = "kill_sessions" /\ unended' = unended \cup {job[w].user})
      BY Zenon
      DEF Step, Receive, LogOut, SelectSpam, InsertSpam, Count, InsertUser, ReturnId, SelectUser,
          InsertSession, SelectEmail, InsertReset, DeleteResets, SelectReset,
          UpdatePassword, KillSessions, Respond, FailDraw, LoseConnection, history
    <2>2. pc[w] = "kill_sessions" => job[w].user \in Email  BY <1>1 DEF Proper, TypeOK
    <2> QED  BY <1>1, <2>1, <2>2 DEF TypeOK
  <1>8. faults' \in 0..MaxFaults
    <2>1. faults' = faults \/ (faults < MaxFaults /\ faults' = faults + 1)
      BY Zenon
      DEF Step, Receive, LogOut, SelectSpam, InsertSpam, Count, InsertUser, ReturnId, SelectUser,
          InsertSession, SelectEmail, InsertReset, DeleteResets, SelectReset,
          UpdatePassword, KillSessions, Respond, FailDraw, LoseConnection
    <2> QED  BY <1>1, <2>1, AccountsAssumptions DEF TypeOK
  <1> QED  BY <1>2, <1>3, <1>4, <1>5, <1>6, <1>7, <1>8

LEMMA NextBasis ==
  ASSUME Basis, [Next]_vars
  PROVE  Basis'
  <1>1. TypeOK /\ WorkersProper /\ NobodysNothing  BY DEF Basis
  <1>2. ASSUME NEW w \in Worker, Step(w)
        PROVE  Basis'
    <2>1. PICK s, j : Moves(w, s, j) /\ Proper(s, j, users')  BY <1>2, StepMoves
    <2>2. users \subseteq users' /\ now' = now  BY <1>2, StepMoves
    <2>3. pc' \in [Worker -> Statement] /\ job' \in [Worker -> Job]
      BY <1>1, <2>1, MovesLocal
    <2>4. WorkersProper'  BY <1>1, <2>1, <2>2, MovesProper
    <2>5. RowsOK(sessions', resets', users')  BY <1>2, StepRows
    <2>6. TypeOK'
      BY <1>1, <1>2, <2>2, <2>3, <2>5, StepCounters DEF TypeOK, RowsOK, Statement
    <2>7. NobodysNothing'  BY <1>2, StepNobodys
    <2> QED  BY <2>4, <2>6, <2>7 DEF Basis
  <1>3. CASE WipeSpam \/ Tick \/ UNCHANGED vars
    <2>1. UNCHANGED <<users, password, sessions, resets, pc, job, drawn, unended, faults>>
      BY <1>3, Zenon DEF WipeSpam, Tick, vars, tables, work, history
    <2>2. spam' \in {spam, None} /\ now' \in Minutes /\ admitted' \in {admitted, 0}
      BY <1>1, <1>3 DEF WipeSpam, Tick, vars, tables, history, TypeOK
    <2>3. TypeOK'  BY <1>1, <2>1, <2>2 DEF TypeOK
    <2>4. WorkersProper'  BY <1>1, <2>1 DEF WorkersProper
    <2>5. NobodysNothing'  BY <1>1, <2>1 DEF NobodysNothing, SigningIn
    <2> QED  BY <2>3, <2>4, <2>5 DEF Basis
  <1> QED  BY <1>2, <1>3 DEF Next
-----------------------------------------------------------------------------
(***************************************************************************)
(* The counter of sign-ups: what was admitted is counted, or is about to   *)
(* be, or was lost in a fault.                                             *)
(***************************************************************************)
LEMMA CountingFinite ==
  /\ IsFiniteSet(Counting) /\ IsFiniteSet(Counting')
  /\ Cardinality(Counting) \in Nat /\ Cardinality(Counting') \in Nat
  /\ Cardinality(Worker) \in Nat
  <1>1. Counting \subseteq Worker /\ Counting' \subseteq Worker  BY DEF Counting
  <1> QED  BY <1>1, AccountsAssumptions, FS_Subset, FS_CardinalityType

\* A worker that goes to the UPDATE, or comes from it.
LEMMA CountingGrows ==
  ASSUME TypeOK, NEW w \in Worker, NEW j, Moves(w, "count", j), pc[w] # "count"
  PROVE  /\ Cardinality(Counting') = Cardinality(Counting) + 1
         /\ Cardinality(Counting) < Cardinality(Worker)
  <1>1. Counting' = Counting \cup {w} /\ w \notin Counting
    BY MovesLocal DEF Counting
  <1>2. Cardinality(Counting') = Cardinality(Counting) + 1
    BY <1>1, CountingFinite, FS_AddElement
  <1>3. Counting' \subseteq Worker  BY DEF Counting
  <1>4. Cardinality(Counting') <= Cardinality(Worker)
    BY <1>3, AccountsAssumptions, FS_Subset
  <1> QED  BY <1>2, <1>4, CountingFinite

LEMMA CountingShrinks ==
  ASSUME TypeOK, NEW w \in Worker, NEW s, NEW j, Moves(w, s, j), pc[w] = "count", s # "count"
  PROVE  Cardinality(Counting') = Cardinality(Counting) - 1
  <1>1. Counting' = Counting \ {w} /\ w \in Counting
    BY MovesLocal DEF Counting
  <1> QED  BY <1>1, CountingFinite, FS_RemoveElement

LEMMA CountingSame ==
  ASSUME TypeOK, NEW w \in Worker, NEW s, NEW j, Moves(w, s, j), pc[w] # "count", s # "count"
  PROVE  Counting' = Counting
  BY MovesLocal DEF Counting

Sums == Counted /\ SignUpsBounded

LEMMA InitSums == Init => Sums
  <1> SUFFICES ASSUME Init PROVE Sums  OBVIOUS
  <1>1. admitted = 0 /\ faults = 0 /\ spam = None  BY DEF Init
  <1> QED  BY <1>1, CountingFinite, AccountsAssumptions DEF Sums, Counted, SignUpsBounded

\* A step that admits nobody, and counts all that it takes from those to be counted.
LEMMA SumsKept ==
  ASSUME TypeOK, Sums, admitted' = admitted, spam' = spam, TypeOK',
         Cardinality(Counting) + faults <= Cardinality(Counting') + faults',
         faults' >= faults
  PROVE  Sums'
  <1>1. faults \in Nat /\ faults' \in Nat /\ admitted \in Nat /\ (spam # None => spam \in Nat)
    BY AccountsAssumptions DEF TypeOK
  <1> QED  BY <1>1, CountingFinite, AccountsAssumptions DEF Sums, Counted, SignUpsBounded

LEMMA SignUpSums ==
  ASSUME TypeOK, Sums, NEW w \in Worker, SelectSpam(w) \/ InsertSpam(w)
  PROVE  Sums'
  <1>1. /\ faults \in Nat /\ faults' = faults /\ admitted \in Nat
        /\ (spam # None => spam \in Nat) /\ pc[w] # "count"
    <2>1. faults' = faults /\ pc[w] # "count"  BY DEF SelectSpam, InsertSpam
    <2> QED  BY <2>1, AccountsAssumptions DEF TypeOK
  <1>2. ASSUME UNCHANGED <<spam, admitted>>,
               NEW s \in Statement \ {"count"}, NEW j, Moves(w, s, j)
        PROVE  Sums'
    <2>1. Counting' = Counting  BY <1>1, <1>2, CountingSame
    <2> QED  BY <1>1, <1>2, <2>1 DEF Sums, Counted, SignUpsBounded
  <1>3. CASE SelectSpam(w) /\ spam = None
    <2>1. GoTo(w, "insert_spam") /\ UNCHANGED <<spam, admitted>>
      BY <1>3 DEF SelectSpam, tables
    <2>2. Moves(w, "insert_spam", job[w])  BY <2>1, GoToMoves DEF Statement
    <2> QED  BY <1>2, <2>1, <2>2 DEF Statement
  <1>4. CASE Finish(w) /\ UNCHANGED <<spam, admitted>>
    <2>1. Moves(w, "idle", NoJob)  BY <1>4, FinishMoves
    <2> QED  BY <1>2, <1>4, <2>1 DEF Statement
  <1>5. CASE SelectSpam(w) /\ spam # None /\ ~(spam >= MaxAccounts)
    <2>1. GoTo(w, "count") /\ admitted' = admitted + 1 /\ spam' = spam
      BY <1>5 DEF SelectSpam, tables
    <2>2. Moves(w, "count", job[w])  BY <2>1, GoToMoves DEF Statement
    <2>3. /\ Cardinality(Counting') = Cardinality(Counting) + 1
          /\ Cardinality(Counting) < Cardinality(Worker)
      BY <1>1, <2>2, CountingGrows
    <2>4. admitted <= spam + Cardinality(Counting) + faults /\ spam < MaxAccounts /\ spam \in Nat
      BY <1>1, <1>5, AccountsAssumptions DEF Sums, Counted
    <2> QED  BY <1>1, <2>1, <2>3, <2>4, CountingFinite, AccountsAssumptions
             DEF Sums, Counted, SignUpsBounded
  <1>6. CASE InsertSpam(w) /\ spam = None
    <2>1. GoTo(w, "count") /\ admitted' = admitted + 1 /\ spam' = 0 /\ admitted = 0
      BY <1>6 DEF InsertSpam, Sums, Counted
    <2>2. Moves(w, "count", job[w])  BY <2>1, GoToMoves DEF Statement
    <2>3. /\ Cardinality(Counting') = Cardinality(Counting) + 1
          /\ Cardinality(Counting) < Cardinality(Worker)
      BY <1>1, <2>2, CountingGrows
    <2> QED  BY <1>1, <1>6, <2>1, <2>3, CountingFinite, AccountsAssumptions
             DEF Sums, Counted, SignUpsBounded
  <1>7. CASE SelectSpam(w) /\ spam # None /\ spam >= MaxAccounts
    BY <1>4, <1>7 DEF SelectSpam, tables
  <1>8. CASE InsertSpam(w) /\ spam # None
    BY <1>4, <1>8 DEF InsertSpam
  <1> QED  BY <1>3, <1>5, <1>6, <1>7, <1>8

LEMMA StepSums ==
  ASSUME Basis, Sums, NEW w \in Worker, Step(w)
  PROVE  Sums'
  <1>1. TypeOK /\ Proper(pc[w], job[w], users)  BY DEF Basis, WorkersProper
  <1>2. Basis' /\ TypeOK'
    <2>1. Basis'  BY NextBasis DEF Next
    <2> QED  BY <2>1 DEF Basis
  <1>3. /\ faults \in Nat /\ faults' \in Nat /\ admitted \in Nat
        /\ (spam # None => spam \in Nat)
    BY <1>1, <1>2, AccountsAssumptions DEF TypeOK
  <1>4. PICK s, j : Moves(w, s, j) /\ Proper(s, j, users')  BY StepMoves
  <1>5. CASE SelectSpam(w) \/ InsertSpam(w)  BY <1>1, <1>5, SignUpSums
  <1>6. CASE Count(w)
    <2>1. /\ GoTo(w, "insert_user") /\ pc[w] = "count" /\ UNCHANGED <<admitted, faults>>
          /\ spam' = IF spam = None THEN None ELSE spam + 1
      BY <1>6 DEF Count, history
    <2>2. Moves(w, "insert_user", job[w])  BY <1>1, <2>1, GoToMoves DEF Statement
    <2>3. Cardinality(Counting') = Cardinality(Counting) - 1
      BY <1>1, <2>1, <2>2, CountingShrinks
    <2>4. CASE spam = None
      BY <2>1, <2>4 DEF Sums, Counted, SignUpsBounded
    <2>5. CASE spam # None
      <3>1. spam' = spam + 1 /\ spam \in Nat /\ spam' # None
        BY <1>3, <2>1, <2>5, AccountsAssumptions
      <3> QED  BY <1>3, <2>1, <2>3, <2>5, <3>1, CountingFinite
               DEF Sums, Counted, SignUpsBounded
    <2> QED  BY <2>4, <2>5
  <1>7. CASE pc[w] = "count" /\ LoseConnection(w)
    <2>1. faults' = faults + 1 /\ UNCHANGED <<spam, admitted>>
      BY <1>7 DEF LoseConnection, tables
    <2>2. pc'[w] # "count"
      BY <1>1, <1>7 DEF LoseConnection, Finish, FirstStatement, TypeOK, Proper
    <2>3. s # "count"  BY <1>1, <1>4, <2>2, MovesLocal
    <2>4. Cardinality(Counting') = Cardinality(Counting) - 1
      BY <1>1, <1>4, <1>7, <2>3, CountingShrinks
    <2> QED  BY <1>1, <1>2, <1>3, <2>1, <2>4, CountingFinite, SumsKept
  <1>8. CASE /\ pc[w] # "count" /\ pc'[w] # "count"
             /\ UNCHANGED <<spam, admitted>> /\ faults' >= faults
    <2>1. s # "count"  BY <1>1, <1>4, <1>8, MovesLocal
    <2>2. Counting' = Counting  BY <1>1, <1>4, <1>8, <2>1, CountingSame
    <2> QED  BY <1>1, <1>2, <1>3, <1>8, <2>2, CountingFinite, SumsKept
  <1>9. ASSUME ~ (SelectSpam(w) \/ InsertSpam(w) \/ Count(w)),
               ~ (pc[w] = "count" /\ LoseConnection(w))
        PROVE  /\ pc[w] # "count" /\ pc'[w] # "count"
               /\ UNCHANGED <<spam, admitted>> /\ faults' >= faults
    <2>1. UNCHANGED <<spam, admitted>> /\ (faults' = faults \/ faults' = faults + 1)
      BY <1>9, Zenon
      DEF Step, Receive, LogOut, InsertUser, ReturnId, SelectUser,
          InsertSession, SelectEmail, InsertReset, DeleteResets, SelectReset,
          UpdatePassword, KillSessions, Respond, FailDraw, LoseConnection, tables, history
    <2>2. pc[w] # "count"
      BY <1>9
      DEF Step, Receive, LogOut, InsertUser, ReturnId, SelectUser,
          InsertSession, SelectEmail, InsertReset, DeleteResets, SelectReset,
          UpdatePassword, KillSessions, Respond, FailDraw
    <2>3. pc'[w] # "count"
      <3>1. CASE Receive(w)
        BY <1>1, <3>1 DEF Receive, FirstStatement, Op, TypeOK
      <3>2. CASE LoseConnection(w)
        BY <1>1, <1>9, <3>2 DEF LoseConnection, Finish, FirstStatement, TypeOK, Proper
      <3>3. CASE FailDraw(w)
        BY <1>1, <3>3 DEF FailDraw, Finish, work, TypeOK
      <3>4. CASE LogOut(w)
        BY <1>1, <3>4 DEF LogOut, Finish, GoTo, TypeOK, Proper
      <3>5. CASE InsertUser(w) \/ ReturnId(w) \/ SelectUser(w) \/ InsertSession(w)
        BY <1>1, <3>5 DEF InsertUser, ReturnId, SelectUser, InsertSession, Finish, GoTo, TypeOK
      <3>6. CASE SelectEmail(w) \/ InsertReset(w) \/ DeleteResets(w)
        BY <1>1, <3>6 DEF SelectEmail, InsertReset, DeleteResets, Finish, GoTo, TypeOK
      <3>7. CASE SelectReset(w) \/ UpdatePassword(w) \/ KillSessions(w) \/ Respond(w)
        BY <1>1, <3>7
        DEF SelectReset, UpdatePassword, KillSessions, Respond, Finish, GoTo, TypeOK
      <3> QED  BY <1>9, <3>1, <3>2, <3>3, <3>4, <3>5, <3>6, <3>7 DEF Step
    <2> QED  BY <1>3, <2>1, <2>2, <2>3
  <1> QED  BY <1>5, <1>6, <1>7, <1>8, <1>9

LEMMA NextSums ==
  ASSUME Basis, Sums, [Next]_vars
  PROVE  Sums'
  <1>1. CASE \E w \in Worker : Step(w)  BY <1>1, StepSums
  <1>2. CASE WipeSpam
    <2>1. spam' = None /\ admitted' = 0 /\ faults' = faults /\ faults \in Nat
      BY <1>2, AccountsAssumptions DEF WipeSpam, Basis, TypeOK
    <2> QED  BY <2>1, CountingFinite, AccountsAssumptions DEF Sums, Counted, SignUpsBounded
  <1>3. CASE Tick \/ UNCHANGED vars
    <2>1. UNCHANGED <<spam, admitted, faults, pc>>
      BY <1>3, Zenon DEF Tick, vars, tables, work, history
    <2> QED  BY <2>1 DEF Sums, Counted, SignUpsBounded, Counting
  <1> QED  BY <1>1, <1>2, <1>3 DEF Next
-----------------------------------------------------------------------------
(***************************************************************************)
(* Sessions after a reset: whoever writes a password is about to delete    *)
(* the sessions of its user, unless a fault takes the deletion.            *)
(***************************************************************************)
Explained(t, w) == pc[w] = "kill_sessions" /\ job[w].user = sessions[t].user

\* A step that opens no session, changes no password and leaves the deletions to come.
LEMMA OldSessionsKept ==
  ASSUME OldSessionsEnd, password' = password, unended \subseteq unended',
         \A t \in Token : sessions'[t] = None \/ sessions'[t] = sessions[t],
         \A t \in Token, w \in Worker : Explained(t, w) =>
           \/ sessions'[t] = None \/ sessions'[t].user \in unended'
           \/ pc'[w] = "kill_sessions" /\ job'[w].user = sessions[t].user
  PROVE  OldSessionsEnd'
  <1> SUFFICES ASSUME NEW t \in Token, sessions'[t] # None,
                      sessions'[t].password # password'[sessions'[t].user]
               PROVE  \/ sessions'[t].late \/ sessions'[t].user \in unended'
                      \/ \E w \in Worker : /\ pc'[w] = "kill_sessions"
                                           /\ job'[w].user = sessions'[t].user
    BY DEF OldSessionsEnd
  <1>1. sessions'[t] = sessions[t]  OBVIOUS
  <1>2. \/ sessions[t].late \/ sessions[t].user \in unended
        \/ \E w \in Worker : Explained(t, w)
    BY <1>1 DEF OldSessionsEnd, Explained
  <1> QED  BY <1>1, <1>2

LEMMA StepOldSessions ==
  ASSUME Basis, OldSessionsEnd, NEW w \in Worker, Step(w)
  PROVE  OldSessionsEnd'
  <1>1. TypeOK /\ Proper(pc[w], job[w], users)  BY DEF Basis, WorkersProper
  <1>2. PICK s, j : Moves(w, s, j) /\ Proper(s, j, users')  BY StepMoves
  <1>3. \A v \in Worker : v # w => pc'[v] = pc[v] /\ job'[v] = job[v]
    BY <1>1, <1>2, MovesLocal
  <1>4. CASE KillSessions(w)
    <2>1. UNCHANGED <<password, unended>> /\ pc[w] = "kill_sessions"
      BY <1>4 DEF KillSessions, history
    <2>2. \A t \in Token :
            sessions'[t] = IF sessions[t] # None /\ sessions[t].user = job[w].user
                           THEN None ELSE sessions[t]
      BY <1>4 DEF KillSessions
    <2>3. \A t \in Token, v \in Worker : Explained(t, v) =>
            \/ sessions'[t] = None
            \/ pc'[v] = "kill_sessions" /\ job'[v].user = sessions[t].user
      BY <1>3, <2>2 DEF Explained
    <2> QED  BY <2>1, <2>2, <2>3, OldSessionsKept
  <1>5. CASE pc[w] = "kill_sessions" /\ LoseConnection(w)
    <2>1. UNCHANGED <<password, sessions>> /\ unended' = unended \cup {job[w].user}
      BY <1>5 DEF LoseConnection, tables
    <2>2. \A t \in Token, v \in Worker : Explained(t, v) =>
            \/ sessions'[t].user \in unended'
            \/ pc'[v] = "kill_sessions" /\ job'[v].user = sessions[t].user
      BY <1>3, <2>1 DEF Explained
    <2> QED  BY <2>1, <2>2, OldSessionsKept
  <1>6. CASE UpdatePassword(w)
    <2> DEFINE u == job[w].user
    <2>1. /\ UNCHANGED <<sessions, unended>> /\ u \in Email
          /\ pc'[w] = "kill_sessions" /\ job'[w].user = u
          /\ \A v \in Worker : pc[v] = "kill_sessions" => pc'[v] = "kill_sessions"
          /\ job' = job
      <3>1. u \in Email  BY <1>1, <1>6 DEF UpdatePassword, Proper, TypeOK
      <3> QED  BY <1>1, <1>6, <3>1 DEF UpdatePassword, GoTo, history, TypeOK
    <2>2. \A e \in Email : e # u => password'[e] = password[e]
      BY <1>1, <1>6 DEF UpdatePassword, TypeOK
    <2> HIDE DEF u
    <2>3. SUFFICES ASSUME NEW t \in Token, sessions[t] # None,
                          sessions[t].password # password'[sessions[t].user]
                   PROVE  \/ sessions[t].late \/ sessions[t].user \in unended
                          \/ \E v \in Worker : /\ pc'[v] = "kill_sessions"
                                               /\ job'[v].user = sessions[t].user
      BY <2>1 DEF OldSessionsEnd
    <2>4. CASE sessions[t].user = u  BY <2>1, <2>4
    <2>5. CASE sessions[t].user # u
      <3>1. sessions[t].user \in Email  BY <1>1, <2>3 DEF TypeOK, Session
      <3>2. password'[sessions[t].user] = password[sessions[t].user]  BY <2>2, <2>5, <3>1
      <3> QED  BY <2>1, <2>3, <3>2 DEF OldSessionsEnd
    <2> QED  BY <2>4, <2>5
  <1>7. CASE /\ pc[w] # "kill_sessions" /\ UNCHANGED password /\ unended \subseteq unended'
             /\ \A t \in Token : sessions'[t] = None \/ sessions'[t] = sessions[t]
    <2>1. \A t \in Token, v \in Worker : Explained(t, v) =>
            pc'[v] = "kill_sessions" /\ job'[v].user = sessions[t].user
      BY <1>3, <1>7 DEF Explained
    <2> QED  BY <1>7, <2>1, OldSessionsKept
  <1>8. ASSUME pc[w] = "insert_session", UNCHANGED <<password, unended>>,
               NEW t \in Token, Draw(t, NewSession(w))
        PROVE  OldSessionsEnd'
    <2>1. \A r \in Token : sessions'[r] = IF r = t THEN NewSession(w) ELSE sessions[r]
      BY <1>1, <1>8 DEF Draw, TypeOK
    <2>2. \A v \in Worker : pc[v] = "kill_sessions" =>
            pc'[v] = "kill_sessions" /\ job'[v].user = job[v].user
      BY <1>3, <1>8
    <2>3. NewSession(w).password # password[NewSession(w).user] => NewSession(w).late
      BY DEF NewSession
    <2> SUFFICES ASSUME NEW r \in Token, sessions'[r] # None,
                        sessions'[r].password # password[sessions'[r].user]
                 PROVE  \/ sessions'[r].late \/ sessions'[r].user \in unended
                        \/ \E v \in Worker : /\ pc'[v] = "kill_sessions"
                                             /\ job'[v].user = sessions'[r].user
      BY <1>8 DEF OldSessionsEnd
    <2>4. CASE r = t
      <3>1. sessions'[r] = NewSession(w)  BY <2>1, <2>4
      <3> HIDE DEF NewSession
      <3> QED  BY <2>3, <3>1
    <2>5. CASE r # t
      <3>1. sessions'[r] = sessions[r]  BY <2>1, <2>5
      <3> QED  BY <2>2, <3>1 DEF OldSessionsEnd
    <2> QED  BY <2>4, <2>5
  <1>9. ASSUME ~ KillSessions(w), ~ UpdatePassword(w),
               ~ (pc[w] = "kill_sessions" /\ LoseConnection(w)),
               ~ (pc[w] = "insert_session" /\ \E t \in Token : Draw(t, NewSession(w)))
        PROVE  /\ pc[w] # "kill_sessions" /\ UNCHANGED password /\ unended \subseteq unended'
               /\ \A t \in Token : sessions'[t] = None \/ sessions'[t] = sessions[t]
    <2>1. pc[w] # "kill_sessions"
      BY <1>9
      DEF Step, Receive, LogOut, SelectSpam, InsertSpam, Count, InsertUser, ReturnId, SelectUser,
          InsertSession, SelectEmail, InsertReset, DeleteResets, SelectReset, Respond, FailDraw
    <2>2. UNCHANGED password /\ unended \subseteq unended'
      BY <1>9, <2>1
      DEF Step, Receive, LogOut, SelectSpam, InsertSpam, Count, InsertUser, ReturnId, SelectUser,
          InsertSession, SelectEmail, InsertReset, DeleteResets, SelectReset, Respond,
          FailDraw, LoseConnection, tables, history
    <2>3. sessions' = sessions \/ LogOut(w)
      BY <1>9, Zenon
      DEF Step, Receive, SelectSpam, InsertSpam, Count, InsertUser, ReturnId, SelectUser,
          InsertSession, SelectEmail, InsertReset, DeleteResets, SelectReset, Respond,
          FailDraw, LoseConnection, tables
    <2>4. LogOut(w) => \A t \in Token : sessions'[t] = None \/ sessions'[t] = sessions[t]
      BY DEF LogOut
    <2> QED  BY <2>1, <2>2, <2>3, <2>4
  <1>10. /\ pc[w] = "insert_session" /\ (\E t \in Token : Draw(t, NewSession(w))) =>
              UNCHANGED <<password, unended>>
    <2>1. ASSUME pc[w] = "insert_session", \E t \in Token : Draw(t, NewSession(w))
          PROVE  UNCHANGED <<password, unended>>
      BY <2>1
      DEF Step, Receive, LogOut, SelectSpam, InsertSpam, Count, InsertUser, ReturnId, SelectUser,
          InsertSession, SelectEmail, InsertReset, DeleteResets, SelectReset,
          UpdatePassword, KillSessions, Respond, FailDraw, LoseConnection, history
    <2> QED  BY <2>1
  <1> QED  BY <1>4, <1>5, <1>6, <1>7, <1>8, <1>9, <1>10

LEMMA NextOldSessions ==
  ASSUME Basis, OldSessionsEnd, [Next]_vars
  PROVE  OldSessionsEnd'
  <1>1. CASE \E w \in Worker : Step(w)  BY <1>1, StepOldSessions
  <1>2. CASE WipeSpam \/ Tick \/ UNCHANGED vars
    <2>1. UNCHANGED <<password, sessions, pc, job, unended>>
      BY <1>2, Zenon DEF WipeSpam, Tick, vars, tables, work, history
    <2> QED  BY <2>1 DEF OldSessionsEnd
  <1> QED  BY <1>1, <1>2 DEF Next
-----------------------------------------------------------------------------
LEMMA InitIInv == Init => IInv
  <1>1. Init => OldSessionsEnd  BY DEF Init, OldSessionsEnd
  <1> QED  BY <1>1, InitBasis, InitSums DEF IInv, Sums

LEMMA NextIInv == IInv /\ [Next]_vars => IInv'
  BY NextBasis, NextSums, NextOldSessions DEF IInv, Sums

THEOREM IInvCorrect == Spec => []IInv
  BY InitIInv, NextIInv, PTL DEF Spec

(***************************************************************************)
(* The types hold in every reachable state.                                *)
(***************************************************************************)
THEOREM TypeCorrect == Spec => []TypeOK
  <1>1. IInv => TypeOK  BY DEF IInv, Basis
  <1> QED  BY <1>1, IInvCorrect, PTL

(***************************************************************************)
(* The sign-ups of a day exceed the setting by one for each other worker   *)
(* and each fault at most, however many of either there are.               *)
(***************************************************************************)
THEOREM SignUpsBoundedCorrect == Spec => []SignUpsBounded
  <1>1. IInv => SignUpsBounded  BY DEF IInv
  <1> QED  BY <1>1, IInvCorrect, PTL

(***************************************************************************)
(* A session that was opened with a replaced password comes from a log-in  *)
(* that overlapped with the reset, is about to go, or a fault kept it.     *)
(***************************************************************************)
THEOREM OldSessionsEndCorrect == Spec => []OldSessionsEnd
  <1>1. IInv => OldSessionsEnd  BY DEF IInv
  <1> QED  BY <1>1, IInvCorrect, PTL

(***************************************************************************)
(* A session and a code have an account behind them, and an address is     *)
(* signed up by one worker, with any number of workers and of answers lost *)
(* after the INSERT of the account.                                        *)
(***************************************************************************)
THEOREM NobodysNothingCorrect == Spec => []NobodysNothing
  <1>1. IInv => NobodysNothing  BY DEF IInv, Basis
  <1> QED  BY <1>1, IInvCorrect, PTL
-----------------------------------------------------------------------------
(***************************************************************************)
(* The decimal times: within the hour a difference counts a hundred times  *)
(* the minutes, and across hours it is either too large or negative.       *)
(***************************************************************************)
LEMMA InTimeMinutes ==
  ASSUME NEW m \in Nat, NEW n \in Nat, Stamp(n) - Stamp(m) <= 10*60
  PROVE  n - m <= 10
  <1> DEFINE hn == n \div 60  bn == n % 60
             hm == m \div 60  bm == m % 60
  <1>1. /\ hn \in Nat /\ bn \in 0..59 /\ n = 60 * hn + bn
        /\ hm \in Nat /\ bm \in 0..59 /\ m = 60 * hm + bm
    OBVIOUS
  <1>2. hn * 10000 + bn * 100 - (hm * 10000 + bm * 100) <= 600
    BY DEF Stamp
  <1> HIDE DEF hn, bn, hm, bm
  <1> QED  BY <1>1, <1>2

(***************************************************************************)
(* A code that changes a password is at most ten minutes old, at whatever  *)
(* times it was issued and used.                                           *)
(***************************************************************************)
THEOREM CodesExpireCorrect == Spec => CodesExpire
  <1> DEFINE Young == \A w \in Worker :
        pc[w] = "select_reset" /\ pc'[w] = "update_password" =>
          now - resets[job[w].code].issued <= 10
  <1>1. IInv /\ [Next]_vars => [Young]_vars
    <2> SUFFICES ASSUME IInv, Next, NEW w \in Worker,
                        pc[w] = "select_reset", pc'[w] = "update_password"
                 PROVE  now - resets[job[w].code].issued <= 10
      OBVIOUS
    <2>1. Basis /\ TypeOK /\ Proper(pc[w], job[w], users)
      BY DEF IInv, Basis, WorkersProper
    <2>2. Step(w)
      <3>1. pc' # pc  OBVIOUS
      <3>2. PICK v \in Worker : Step(v)  BY <3>1 DEF Next, WipeSpam, Tick, work
      <3>3. PICK s, j : Moves(v, s, j)  BY <2>1, <3>2, StepMoves
      <3>4. v = w  BY <2>1, <3>3, MovesLocal
      <3> QED  BY <3>2, <3>4
    <2>3. SelectReset(w)
      <3>1. LoseConnection(w) => pc'[w] # "update_password"
        BY <2>1 DEF LoseConnection, Finish, FirstStatement, TypeOK, Proper
      <3> QED  BY <2>2, <3>1
          DEF Step, Receive, LogOut, SelectSpam, InsertSpam, Count, InsertUser, ReturnId, SelectUser,
              InsertSession, SelectEmail, InsertReset, DeleteResets, UpdatePassword,
              KillSessions, Respond, FailDraw
    <2> DEFINE row == resets[job[w].code]
    <2>4. row # None /\ InTime(row.issued) /\ job[w].code \in Code
      BY <2>1, <2>3 DEF SelectReset, Finish, TypeOK, Proper
    <2>5. row.issued \in Nat /\ now \in Nat
      BY <2>1, <2>4, AccountsAssumptions DEF TypeOK, Reset
    <2> HIDE DEF row
    <2>6. now - row.issued <= 10
      BY <2>4, <2>5, InTimeMinutes DEF InTime
    <2> QED  BY <2>6 DEF row
  <1> QED  BY <1>1, IInvCorrect, PTL DEF Spec, CodesExpire
-----------------------------------------------------------------------------
(***************************************************************************)
(* Tokens and codes are drawn once: a row that is gone never comes back,   *)
(* and no row is handed to another user.                                   *)
(***************************************************************************)
\* Whatever has a row was drawn.
Issued ==
  /\ \A t \in Token : sessions[t] # None => t \in drawn
  /\ \A c \in Code : resets[c] # None => c \in drawn

\* A row stays as it is or goes; only what was not drawn before gets one.
DrawnOnce ==
  /\ drawn \subseteq drawn'
  /\ \A t \in Token : sessions'[t] \in {sessions[t], None} \/ t \in drawn' \ drawn
  /\ \A c \in Code : resets'[c] \in {resets[c], None} \/ c \in drawn' \ drawn

LEMMA StepDrawnOnce ==
  ASSUME Basis, NEW w \in Worker, Step(w)
  PROVE  DrawnOnce
  <1>1. TypeOK  BY DEF Basis
  <1>2. CASE UNCHANGED <<sessions, resets, drawn>>  BY <1>2 DEF DrawnOnce
  <1>3. CASE LogOut(w) \/ KillSessions(w)
    <2>1. resets' = resets /\ drawn' = drawn  BY <1>3 DEF LogOut, KillSessions, history
    <2>2. \A t \in Token : sessions'[t] \in {sessions[t], None}
      BY <1>3 DEF LogOut, KillSessions
    <2> QED  BY <2>1, <2>2 DEF DrawnOnce
  <1>4. CASE resets' = resets /\ \E t \in Token : Draw(t, NewSession(w))
    <2>1. PICK t \in Token : Draw(t, NewSession(w))  BY <1>4
    <2>2. drawn' = drawn \cup {t} /\ t \notin drawn  BY <2>1 DEF Draw
    <2>3. \A s \in Token : s # t => sessions'[s] = sessions[s]
      BY <1>1, <2>1 DEF Draw, TypeOK
    <2> QED  BY <1>4, <2>2, <2>3 DEF DrawnOnce
  <1>5. CASE InsertReset(w)
    <2>1. sessions' = sessions  BY <1>5 DEF InsertReset
    <2>2. CASE UNCHANGED <<resets, drawn>>  BY <2>1, <2>2 DEF DrawnOnce
    <2>3. ASSUME NEW c \in Code \ drawn, drawn' = drawn \cup {c},
                 resets' = [resets EXCEPT ![c] = [user |-> job[w].user, issued |-> now]]
          PROVE  DrawnOnce
      <3>1. \A d \in Code : d # c => resets'[d] = resets[d]  BY <1>1, <2>3 DEF TypeOK
      <3> QED  BY <2>1, <2>3, <3>1 DEF DrawnOnce
    <2> QED  BY <1>5, <2>2, <2>3 DEF InsertReset
  <1>6. CASE DeleteResets(w)
    <2>1. sessions' = sessions /\ drawn' = drawn  BY <1>6 DEF DeleteResets, history
    <2>2. \A c \in Code : resets'[c] \in {resets[c], None}  BY <1>6 DEF DeleteResets
    <2> QED  BY <2>1, <2>2 DEF DrawnOnce
  <1>7. \/ UNCHANGED <<sessions, resets, drawn>>
        \/ LogOut(w) \/ KillSessions(w) \/ InsertReset(w) \/ DeleteResets(w)
        \/ resets' = resets /\ \E t \in Token : Draw(t, NewSession(w))
    BY Zenon DEF Step, Receive, SelectSpam, InsertSpam, Count, InsertUser, ReturnId, SelectUser,
                 InsertSession, SelectEmail, SelectReset, UpdatePassword, Respond, FailDraw,
                 LoseConnection, tables, history
  <1> QED  BY <1>2, <1>3, <1>4, <1>5, <1>6, <1>7

LEMMA NextDrawnOnce ==
  ASSUME Basis, [Next]_vars
  PROVE  DrawnOnce
  <1>1. CASE \E w \in Worker : Step(w)  BY <1>1, StepDrawnOnce
  <1>2. CASE WipeSpam \/ Tick \/ UNCHANGED vars
    <2>1. UNCHANGED <<sessions, resets, drawn>>
      BY <1>2, Zenon DEF WipeSpam, Tick, vars, tables, history
    <2> QED  BY <2>1 DEF DrawnOnce
  <1> QED  BY <1>1, <1>2 DEF Next

LEMMA NextIssued == ASSUME Basis, Issued, [Next]_vars PROVE Issued'
  BY NextDrawnOnce DEF DrawnOnce, Issued

\* A token or a code that was drawn never gets a row, nor the row of another user.
RowsOnward ==
  /\ \A t \in Token : t \in drawn => sessions'[t] \in {sessions[t], None}
  /\ \A c \in Code : c \in drawn => resets'[c] \in {resets[c], None}

(***************************************************************************)
(* What has ended has ended: after a log-out, a reset or its ten minutes,  *)
(* no retry and no other worker brings a session or a code back, and a     *)
(* token or code never passes from a user to another.                      *)
(***************************************************************************)
THEOREM EndedForGood == Spec => [][RowsOnward]_vars
  <1>1. IInv /\ [Next]_vars => [RowsOnward]_vars
    BY NextDrawnOnce DEF IInv, DrawnOnce, RowsOnward
  <1> QED  BY <1>1, IInvCorrect, PTL DEF Spec

\* A reset that is about to write has a code that was issued for this user, or whose
\* row was deleted since.
OwnCode == \A w \in Worker : pc[w] \in {"update_password", "kill_sessions"} =>
  /\ job[w].code \in drawn
  /\ resets[job[w].code] # None => resets[job[w].code].user = job[w].user

LEMMA StepOwnCode ==
  ASSUME Basis, Issued, OwnCode, NEW w \in Worker, Step(w)
  PROVE  OwnCode'
  <1>1. TypeOK /\ WorkersProper  BY DEF Basis
  <1>2. PICK s, j : Moves(w, s, j) /\ Proper(s, j, users')  BY StepMoves
  <1>3. DrawnOnce  BY StepDrawnOnce
  <1>4. SUFFICES ASSUME NEW v \in Worker, pc'[v] \in {"update_password", "kill_sessions"}
                 PROVE  /\ job'[v].code \in drawn'
                        /\ resets'[job'[v].code] # None =>
                             resets'[job'[v].code].user = job'[v].user
    BY DEF OwnCode
  <1>5. ASSUME NEW c \in Code, NEW u, c \in drawn, resets[c] # None => resets[c].user = u
        PROVE  c \in drawn' /\ (resets'[c] # None => resets'[c].user = u)
    BY <1>3, <1>5 DEF DrawnOnce
  <1>6. CASE v # w
    <2>1. pc'[v] = pc[v] /\ job'[v] = job[v]  BY <1>1, <1>2, <1>6, MovesLocal
    <2>2. Proper(pc[v], job[v], users)  BY <1>1 DEF WorkersProper
    <2>3. job[v].code \in Code  BY <1>4, <2>1, <2>2 DEF Proper
    <2>4. /\ job[v].code \in drawn
          /\ resets[job[v].code] # None => resets[job[v].code].user = job[v].user
      BY <1>4, <2>1 DEF OwnCode
    <2> QED  BY <1>5, <2>1, <2>3, <2>4
  <1>7. CASE v = w
    <2>1. Proper(pc[w], job[w], users)  BY <1>1 DEF WorkersProper
    <2>2. SelectReset(w) \/ UpdatePassword(w)
      <3>1. LoseConnection(w) => pc'[w] \notin {"update_password", "kill_sessions"}
        BY <1>1, <2>1 DEF LoseConnection, Finish, FirstStatement, TypeOK, Proper
      <3>2. Receive(w) => pc'[w] \notin {"update_password", "kill_sessions"}
        BY <1>1 DEF Receive, FirstStatement, TypeOK, Op
      <3>3. \A x : GoTo(w, x) => pc'[w] = x  BY <1>1 DEF GoTo, TypeOK
      <3>4. Finish(w) => pc'[w] = "idle"  BY <1>1 DEF Finish, TypeOK
      <3>5. FailDraw(w) => pc'[w] \in {"idle", "insert_session", "insert_reset"}
        BY <3>4 DEF FailDraw, work
      <3>6. LogOut(w) => pc'[w] \in {"idle", "select_spam", "select_user"}
        BY <3>3, <3>4, <2>1 DEF LogOut, Proper
      <3>7. SelectSpam(w) => pc'[w] \in {"idle", "insert_spam", "count"}
        BY <3>3, <3>4 DEF SelectSpam
      <3>8. InsertSpam(w) \/ Count(w) \/ InsertUser(w) \/ ReturnId(w) =>
              pc'[w] \in {"idle", "count", "insert_user", "id_returned", "insert_session"}
        BY <3>3, <3>4 DEF InsertSpam, Count, InsertUser, ReturnId
      <3>9. SelectUser(w) => pc'[w] \in {"idle", "insert_session"}
        BY <1>1, <3>4 DEF SelectUser, TypeOK
      <3>10. SelectEmail(w) \/ DeleteResets(w) => pc'[w] \in {"idle", "insert_reset", "select_reset"}
        BY <3>3, <3>4 DEF SelectEmail, DeleteResets
      <3>11. InsertSession(w) \/ InsertReset(w) \/ KillSessions(w) \/ Respond(w) =>
               pc'[w] \in {"idle", "respond"}
        BY <3>3, <3>4 DEF InsertSession, InsertReset, KillSessions, Respond
      <3> QED  BY <1>4, <1>7, <3>1, <3>2, <3>5, <3>6, <3>7, <3>8, <3>9, <3>10, <3>11 DEF Step
    <2>3. CASE SelectReset(w)
      <3>1. pc'[w] = "update_password"
        BY <1>1, <1>4, <1>7, <2>3 DEF SelectReset, Finish, TypeOK
      <3>2. job[w].code \in Code /\ resets' = resets /\ drawn' = drawn
        BY <2>1, <2>3 DEF SelectReset, Proper, tables, history
      <3>3. /\ resets[job[w].code] # None
            /\ job' = [job EXCEPT ![w].user = resets[job[w].code].user]
        BY <1>1, <2>3, <3>1 DEF SelectReset, Finish, TypeOK
      <3>4. job[w] \in Job  BY <1>1 DEF TypeOK
      <3>5. job'[w].code = job[w].code /\ job'[w].user = resets[job[w].code].user
        BY <1>1, <3>3, <3>4 DEF TypeOK, Job
      <3>6. job[w].code \in drawn  BY <3>2, <3>3 DEF Issued
      <3> QED  BY <1>7, <3>2, <3>5, <3>6
    <2>4. CASE UpdatePassword(w)
      <3>1. job' = job /\ pc[w] = "update_password" /\ job[w].code \in Code
        BY <2>1, <2>4 DEF UpdatePassword, GoTo, Proper
      <3>2. /\ job[w].code \in drawn
            /\ resets[job[w].code] # None => resets[job[w].code].user = job[w].user
        BY <3>1 DEF OwnCode
      <3> QED  BY <1>5, <1>7, <3>1, <3>2
    <2> QED  BY <2>2, <2>3, <2>4
  <1> QED  BY <1>6, <1>7

LEMMA NextOwnCode ==
  ASSUME Basis, Issued, OwnCode, [Next]_vars
  PROVE  OwnCode'
  <1>1. CASE \E w \in Worker : Step(w)  BY <1>1, StepOwnCode
  <1>2. CASE WipeSpam \/ Tick \/ UNCHANGED vars
    <2>1. UNCHANGED <<resets, drawn, pc, job>>
      BY <1>2, Zenon DEF WipeSpam, Tick, vars, tables, work, history
    <2> QED  BY <2>1 DEF OwnCode
  <1> QED  BY <1>1, <1>2 DEF Next

(***************************************************************************)
(* A password is written, and sessions are deleted, only for the user whom *)
(* the code was mailed to, although the row is read in one statement and   *)
(* the user written in later ones, while others delete rows and draw codes.*)
(***************************************************************************)
THEOREM OwnCodeCorrect == Spec => []OwnCode
  <1>1. Init => Issued /\ OwnCode  BY DEF Init, Issued, OwnCode
  <1>2. IInv /\ Issued /\ OwnCode /\ [Next]_vars => Issued' /\ OwnCode'
    BY NextIssued, NextOwnCode DEF IInv
  <1> QED  BY <1>1, <1>2, IInvCorrect, PTL DEF Spec
-----------------------------------------------------------------------------
(***************************************************************************)
(* A server with a single worker that loses no connection: what is left of *)
(* the slack above shows that it comes from the interleavings and faults.  *)
(***************************************************************************)
Alone == MaxFaults = 0 /\ \E w : Worker = {w}

(***************************************************************************)
(* The setting is kept exactly: the check and the increment are apart, but *)
(* nobody comes between them.                                              *)
(***************************************************************************)
THEOREM LimitHoldsAlone == ASSUME Alone PROVE Spec => [](admitted <= MaxAccounts)
  <1>1. IInv => admitted <= MaxAccounts
    <2> SUFFICES ASSUME IInv PROVE admitted <= MaxAccounts  OBVIOUS
    <2>1. Cardinality(Worker) = 1  BY FS_Singleton DEF Alone
    <2>2. faults = 0 /\ admitted \in Nat  BY DEF IInv, Basis, TypeOK, Alone
    <2>3. admitted <= MaxAccounts + Cardinality(Worker) - 1 + faults
      BY DEF IInv, SignUpsBounded
    <2> QED  BY <2>1, <2>2, <2>3, AccountsAssumptions
  <1> QED  BY <1>1, IInvCorrect, PTL

\* A session is opened with the password of the moment: none is behind it, and the
\* password of an address without an account has not been set yet.
Punctual ==
  /\ unended = {}
  /\ \A t \in Token : sessions[t] # None => ~ sessions[t].late
  /\ \A u \in Email : u \notin users => password[u] = 0
  /\ \A w \in Worker : job[w].op = "sign_up" => job[w].password = 0
  /\ \A w \in Worker : pc[w] \in {"id_returned", "insert_session"} =>
       job[w].password = password[job[w].user]

\* What a step of the one worker does to the tables that Punctual is about.
LEMMA AloneTables ==
  ASSUME Alone, Basis, Punctual, NEW w \in Worker, Step(w)
  PROVE  /\ unended' = {}
         /\ \A t \in Token : sessions'[t] # None => ~ sessions'[t].late
         /\ \A u \in Email : u \notin users' => password'[u] = 0
  <1>1. TypeOK /\ Proper(pc[w], job[w], users)  BY DEF Basis, WorkersProper
  <1>2. ~ FailDraw(w) /\ ~ LoseConnection(w)
    BY <1>1 DEF Alone, TypeOK, FailDraw, LoseConnection
  <1>3. unended' = {}
    BY <1>2, Zenon
    DEF Punctual, Step, Receive, LogOut, SelectSpam, InsertSpam, Count, InsertUser,
        ReturnId, SelectUser, InsertSession, SelectEmail, InsertReset, DeleteResets,
        SelectReset, UpdatePassword, KillSessions, Respond, history
  <1>4. \A t \in Token : sessions'[t] # None => ~ sessions'[t].late
    <2>1. CASE \A t \in Token : sessions'[t] \in {sessions[t], None}
      BY <2>1 DEF Punctual
    <2>2. CASE pc[w] = "insert_session" /\ \E t \in Token : Draw(t, NewSession(w))
      <3>1. PICK t \in Token : Draw(t, NewSession(w))  BY <2>2
      <3>2. \A s \in Token : sessions'[s] = IF s = t THEN NewSession(w) ELSE sessions[s]
        BY <1>1, <3>1 DEF Draw, TypeOK
      <3>3. ~ NewSession(w).late  BY <2>2 DEF NewSession, Punctual
      <3> HIDE DEF NewSession
      <3> QED  BY <3>2, <3>3 DEF Punctual
    <2>3. \/ sessions' = sessions \/ LogOut(w) \/ KillSessions(w)
          \/ pc[w] = "insert_session" /\ \E t \in Token : Draw(t, NewSession(w))
      BY <1>2, Zenon
      DEF Step, Receive, SelectSpam, InsertSpam, Count, InsertUser, ReturnId, SelectUser,
          InsertSession, SelectEmail, InsertReset, DeleteResets, SelectReset,
          UpdatePassword, Respond, tables
    <2>4. LogOut(w) \/ KillSessions(w) => \A t \in Token : sessions'[t] \in {sessions[t], None}
      BY DEF LogOut, KillSessions
    <2> QED  BY <2>1, <2>2, <2>3, <2>4
  <1>5. \A u \in Email : u \notin users' => password'[u] = 0
    <2>1. users \subseteq users'  BY StepMoves
    <2>2. password' = password \/ UpdatePassword(w)
      BY <1>2, Zenon
      DEF Step, Receive, LogOut, SelectSpam, InsertSpam, Count, InsertUser, ReturnId, SelectUser,
          InsertSession, SelectEmail, InsertReset, DeleteResets, SelectReset,
          KillSessions, Respond, tables
    <2>3. ASSUME UpdatePassword(w), NEW u \in Email, u \notin users
          PROVE  password'[u] = password[u]
      <3>1. job[w].user # u  BY <1>1, <2>3 DEF UpdatePassword, Proper
      <3> QED  BY <1>1, <2>3, <3>1 DEF UpdatePassword, TypeOK
    <2> QED  BY <2>1, <2>2, <2>3 DEF Punctual
  <1> QED  BY <1>3, <1>4, <1>5

LEMMA AlonePunctual ==
  ASSUME Alone, Basis, Punctual, [Next]_vars
  PROVE  Punctual'
  <1>1. CASE WipeSpam \/ Tick \/ UNCHANGED vars
    <2>1. UNCHANGED <<unended, sessions, users, password, job, pc>>
      BY <1>1, Zenon DEF WipeSpam, Tick, vars, tables, work, history
    <2> QED  BY <2>1 DEF Punctual
  <1>2. ASSUME NEW w \in Worker, Step(w)
        PROVE  Punctual'
    <2>1. TypeOK /\ Proper(pc[w], job[w], users)  BY DEF Basis, WorkersProper
    <2>2. PICK s, j : Moves(w, s, j) /\ Proper(s, j, users')  BY <1>2, StepMoves
    <2>3. \A v \in Worker : v = w  BY DEF Alone
    <2>4. ~ FailDraw(w) /\ ~ LoseConnection(w)
      BY <2>1 DEF Alone, TypeOK, FailDraw, LoseConnection
    <2>5. pc \in [Worker -> Statement] /\ job \in [Worker -> Job]
      BY <2>1 DEF TypeOK, Statement
    <2>6. /\ job'[w].op = "sign_up" => job'[w].password = 0
          /\ pc'[w] \in {"id_returned", "insert_session"} =>
               job'[w].password = password'[job'[w].user]
      <3>1. CASE Receive(w)
        <4>1. PICK op \in Op : /\ pc'[w] = FirstStatement(op) /\ job'[w].password = 0
          BY <2>5, <3>1 DEF Receive, NoJob
        <4> QED  BY <4>1 DEF FirstStatement, Op
      <3>2. CASE Finish(w)
        BY <2>5, <3>2 DEF Finish, NoJob
      <3>3. CASE \E x \in Statement \ {"id_returned", "insert_session"} : GoTo(w, x)
        BY <2>5, <3>3 DEF GoTo, Punctual
      <3>4. CASE InsertUser(w) /\ ~ Finish(w)
        <4>1. /\ job' = job /\ password' = password /\ job[w].user \notin users
              /\ job[w].op = "sign_up" /\ job[w].user \in Email
          BY <2>1, <3>4 DEF InsertUser, GoTo, Proper
        <4> QED  BY <4>1 DEF Punctual
      <3>5. CASE SelectUser(w) /\ ~ Finish(w)
        <4>1. /\ job[w].op = "log_in" /\ job[w] \in Job /\ password' = password
              /\ job' = [job EXCEPT ![w].password = password[job[w].user]]
          BY <2>1, <2>5, <3>5 DEF SelectUser, Proper, tables
        <4>2. /\ job'[w].op = "log_in" /\ job'[w].user = job[w].user
              /\ job'[w].password = password[job[w].user]
          BY <2>5, <4>1 DEF Job
        <4> QED  BY <4>1, <4>2
      <3>6. CASE SelectReset(w) /\ ~ Finish(w)
        <4>1. /\ job[w].op = "reset" /\ job[w] \in Job /\ pc'[w] = "update_password"
              /\ job' = [job EXCEPT ![w].user = resets[job[w].code].user]
          BY <2>1, <2>5, <3>6 DEF SelectReset, Proper
        <4>2. job'[w].op = "reset"  BY <2>5, <4>1 DEF Job
        <4> QED  BY <4>1, <4>2
      <3>7. CASE ReturnId(w)
        <4>1. job' = job /\ password' = password /\ pc[w] = "id_returned"
          BY <3>7 DEF ReturnId, GoTo, tables
        <4> QED  BY <4>1 DEF Punctual
      <3>8. \/ Receive(w) \/ Finish(w)
            \/ \E x \in Statement \ {"id_returned", "insert_session"} : GoTo(w, x)
            \/ InsertUser(w) \/ ReturnId(w) \/ SelectUser(w) \/ SelectReset(w)
        <4>1. LogOut(w) => Finish(w) \/ GoTo(w, "select_spam") \/ GoTo(w, "select_user")
          BY <2>1 DEF LogOut, Proper
        <4> QED  BY <1>2, <2>4, <4>1, Zenon
          DEF Step, Statement, SelectSpam, InsertSpam, Count, InsertSession, SelectEmail,
              InsertReset, DeleteResets, UpdatePassword, KillSessions, Respond
      <3> QED  BY <3>1, <3>2, <3>3, <3>4, <3>5, <3>6, <3>7, <3>8
    <2> QED  BY <1>2, <2>3, <2>6, AloneTables DEF Punctual
  <1> QED  BY <1>1, <1>2 DEF Next

\* Each session was opened with the password that its user has now, unless a reset is
\* about to delete the sessions of that user.
SessionsCurrent == \A t \in Token :
  sessions[t] # None =>
    \/ sessions[t].password = password[sessions[t].user]
    \/ \E w \in Worker : pc[w] = "kill_sessions" /\ job[w].user = sessions[t].user

(***************************************************************************)
(* A reset leaves no session of the old password: the log-in that carries  *)
(* one past the deletion needs another worker, or a fault.                 *)
(***************************************************************************)
THEOREM SessionsCurrentAlone == ASSUME Alone PROVE Spec => []SessionsCurrent
  <1>1. Init => Punctual  BY DEF Init, Punctual, NoJob
  <1>2. IInv /\ Punctual /\ [Next]_vars => Punctual'  BY AlonePunctual DEF IInv
  <1>3. IInv /\ Punctual => SessionsCurrent
    BY DEF IInv, OldSessionsEnd, Punctual, SessionsCurrent
  <1> QED  BY <1>1, <1>2, <1>3, IInvCorrect, PTL DEF Spec
=============================================================================
