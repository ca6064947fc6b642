-------------------------- MODULE EmailQueueProofs --------------------------
(***************************************************************************)
(* Theorems of EmailQueue.  The inductive invariant adds to the types and  *)
(* the bounds that the sender's own queue is empty unless it is sending    *)
(* (or died while it was), which is why taking the whole queue loses       *)
(* nothing and why the two queues, one behind the other, are one queue.    *)
(***************************************************************************)
EXTENDS EmailQueue, SequenceTheorems, TLAPS

BatchEmpty == sender \notin {"sending", "died"} => batch = <<>>

IInv == TypeOK /\ BacklogBounded /\ BatchEmpty

\* Sequences: what concatenation does to the beginning of a sequence.
LEMMA SubSeqOfConcat ==
  ASSUME NEW S, NEW s \in Seq(S), NEW t \in Seq(S)
  PROVE  SubSeq(s \o t, 1, Len(s)) = s
<1>1. s \o t \in Seq(S) /\ \A i \in 1..Len(s) : (s \o t)[i] = s[i]
  BY ConcatProperties, LenProperties
<1>2. Len(s) \in Nat /\ \A i \in 1..Len(s) : s[i] \in S
  BY LenProperties, ElementOfSeq
<1>3. /\ SubSeq(s \o t, 1, Len(s)) \in Seq(S)
      /\ Len(SubSeq(s \o t, 1, Len(s))) = Len(s)
      /\ \A i \in 1..Len(s) : SubSeq(s \o t, 1, Len(s))[i] = s[i]
  <2>1. \A i \in 1..Len(s) : (s \o t)[i] \in S
    BY <1>1, <1>2
  <2>2. /\ SubSeq(s \o t, 1, Len(s)) \in Seq(S)
        /\ Len(SubSeq(s \o t, 1, Len(s))) = IF 1 <= Len(s) THEN Len(s) - 1 + 1 ELSE 0
        /\ \A i \in 1..(Len(s) - 1 + 1) : SubSeq(s \o t, 1, Len(s))[i] = (s \o t)[1 + i - 1]
    BY <1>2, <2>1, SubSeqProperties
  <2>3. QED
    BY <1>1, <1>2, <2>2
<1>4. QED
  BY <1>3, SeqEqual

LEMMA HeadTailOfConcat ==
  ASSUME NEW S, NEW s \in Seq(S), NEW t \in Seq(S), s # <<>>
  PROVE  Head(s \o t) = Head(s) /\ Tail(s \o t) = Tail(s) \o t
<1>1. /\ s \o t \in Seq(S)
      /\ Len(s \o t) = Len(s) + Len(t)
      /\ \A i \in 1..(Len(s) + Len(t)) : (s \o t)[i] = IF i <= Len(s) THEN s[i] ELSE t[i - Len(s)]
  BY ConcatProperties
<1>2. Len(s) \in Nat \ {0} /\ Len(t) \in Nat
  BY LenProperties, EmptySeq
<1>3. s \o t # <<>>
  BY <1>1, <1>2, EmptySeq
<1>4. Head(s \o t) = Head(s)
  BY <1>1, <1>2
<1>5. /\ Tail(s) \in Seq(S) /\ Len(Tail(s)) = Len(s) - 1
      /\ \A i \in 1..Len(Tail(s)) : Tail(s)[i] = s[i + 1]
  BY HeadTailProperties
<1>6. /\ Tail(s \o t) \in Seq(S) /\ Len(Tail(s \o t)) = Len(s \o t) - 1
      /\ \A i \in 1..Len(Tail(s \o t)) : Tail(s \o t)[i] = (s \o t)[i + 1]
  BY <1>1, <1>3, HeadTailProperties
<1>7. /\ Tail(s) \o t \in Seq(S)
      /\ Len(Tail(s) \o t) = Len(Tail(s)) + Len(t)
      /\ \A i \in 1..(Len(Tail(s)) + Len(t)) :
           (Tail(s) \o t)[i] = IF i <= Len(Tail(s)) THEN Tail(s)[i] ELSE t[i - Len(Tail(s))]
  BY <1>5, ConcatProperties
<1>8. Len(Tail(s \o t)) = Len(Tail(s) \o t)
  BY <1>1, <1>2, <1>5, <1>6, <1>7
<1>9. \A i \in 1..Len(Tail(s \o t)) : Tail(s \o t)[i] = (Tail(s) \o t)[i]
  <2>1. TAKE i \in 1..Len(Tail(s \o t))
  <2>2. i \in 1..(Len(s) - 1 + Len(t)) /\ i + 1 \in 1..(Len(s) + Len(t))
    BY <1>1, <1>2, <1>6
  <2>3. Tail(s \o t)[i] = IF i + 1 <= Len(s) THEN s[i + 1] ELSE t[i + 1 - Len(s)]
    BY <1>1, <1>6, <2>2
  <2>4. (Tail(s) \o t)[i] = IF i <= Len(s) - 1 THEN Tail(s)[i] ELSE t[i - (Len(s) - 1)]
    BY <1>5, <1>7, <2>2
  <2>5. CASE i <= Len(s) - 1
    <3>1. i \in 1..Len(Tail(s)) /\ i + 1 <= Len(s)
      BY <1>2, <1>5, <2>2, <2>5
    <3>2. QED
      BY <1>5, <2>3, <2>4, <2>5, <3>1
  <2>6. CASE ~(i <= Len(s) - 1)
    <3>1. ~(i + 1 <= Len(s)) /\ i - (Len(s) - 1) = i + 1 - Len(s)
      BY <1>2, <2>2, <2>6
    <3>2. QED
      BY <2>3, <2>4, <2>6, <3>1
  <2>7. QED
    BY <2>5, <2>6
<1>10. Tail(s \o t) = Tail(s) \o t
  BY <1>6, <1>7, <1>8, <1>9, SeqEqual
<1>11. QED
  BY <1>4, <1>10
-----------------------------------------------------------------------------
LEMMA BacklogNat == Backlog \in Nat /\ Backlog >= Limit
BY EmailQueueAssumptions DEF Backlog

\* Pushing a list leaves a queue of mails within the bound, and the old queue
\* as its beginning.
LEMMA PushList ==
  ASSUME TypeOK, BacklogBounded,
         NEW mails \in Seq(Mail), Len(mails) <= MaxBatch, Push(mails)
  PROVE  /\ queue' \in Seq(Mail)
         /\ Len(queue') <= Backlog
         /\ queue' = queue \/ queue' = queue \o mails
<1>1. queue \in Seq(Mail) /\ Len(queue) \in Nat /\ Len(mails) \in Nat
  BY LenProperties DEF TypeOK
<1>2. queue \o mails \in Seq(Mail) /\ Len(queue \o mails) = Len(queue) + Len(mails)
  BY <1>1, ConcatProperties
<1>3. CASE Len(queue) >= Limit
  BY <1>1, <1>3 DEF Push, BacklogBounded
<1>4. CASE ~(Len(queue) >= Limit)
  <2>1. Len(queue) + Len(mails) <= Limit - 1 + MaxBatch
    BY <1>1, <1>4, EmailQueueAssumptions
  <2>2. QED
    BY <1>1, <1>2, <1>4, <2>1 DEF Push, Backlog
<1>5. QED
  BY <1>3, <1>4

\* The two ways of pushing, as one.
PushingOf(mails) ==
  /\ Len(mails) <= MaxBatch
  /\ Push(mails)
  /\ \A i \in 1..Len(mails) : mails[i].id = offered + i
  /\ process = "serving"
  /\ offered' = offered + Len(mails)
  /\ offered' \in 0..MaxMails
  /\ UNCHANGED <<batch, sender, connected, keepRunning, process, tried>>

Pushing == \E mails \in Seq(Mail) : PushingOf(mails)

LEMMA SendEmailPushes ==
  ASSUME TypeOK, SendEmail
  PROVE  Pushing
<1>1. offered + 1 \in 1..MaxMails /\ offered' = offered + 1
  BY EmailQueueAssumptions DEF TypeOK, SendEmail, Offer
<1>2. [id |-> offered + 1, named |-> TRUE] \in Mail
  BY <1>1 DEF Mail
<1>3. /\ <<[id |-> offered + 1, named |-> TRUE]>> \in Seq(Mail)
      /\ Len(<<[id |-> offered + 1, named |-> TRUE]>>) = 1
      /\ <<[id |-> offered + 1, named |-> TRUE]>>[1].id = offered + 1
  BY <1>2
<1>4. PushingOf(<<[id |-> offered + 1, named |-> TRUE]>>)
  BY <1>1, <1>3, EmailQueueAssumptions DEF PushingOf, SendEmail, Offer
<1>5. QED
  BY <1>3, <1>4 DEF Pushing

LEMMA SendInvitationEmailsPushes ==
  ASSUME TypeOK, NEW n \in 0..MaxBatch, SendInvitationEmails(n)
  PROVE  Pushing
<1> DEFINE mails == [i \in 1..n |-> [id |-> offered + i, named |-> i = 1]]
<1>1. n \in Nat /\ n <= MaxBatch /\ offered \in Nat /\ MaxMails \in Nat
  BY EmailQueueAssumptions DEF TypeOK
<1>2. offered + n <= MaxMails /\ offered' = offered + n
  BY DEF SendInvitationEmails, Offer
<1>3. \A i \in 1..n : [id |-> offered + i, named |-> i = 1] \in Mail
  <2>1. TAKE i \in 1..n
  <2>2. offered + i \in 1..MaxMails
    BY <1>1, <1>2
  <2>3. QED
    BY <2>2 DEF Mail
<1>4. /\ mails \in Seq(Mail) /\ Len(mails) = n
      /\ \A i \in 1..n : mails[i].id = offered + i
  BY <1>1, <1>3
<1>5. offered' \in 0..MaxMails
  BY <1>1, <1>2
<1>6. Push(mails)
  BY DEF SendInvitationEmails
<1>7. PushingOf(mails)
  BY <1>1, <1>2, <1>4, <1>5, <1>6 DEF PushingOf, SendInvitationEmails, Offer
<1>8. QED
  BY <1>4, <1>7 DEF Pushing
-----------------------------------------------------------------------------
LEMMA InitInv == Init => IInv
<1> SUFFICES ASSUME Init PROVE IInv
  OBVIOUS
<1>2. <<>> \in Seq(Mail) /\ Len(<<>>) = 0
  BY EmptySeq
<1>3. TypeOK
  <2>1. queue \in Seq(Mail) /\ batch \in Seq(Mail) /\ tried \in Seq(Mail)
    BY <1>2, Zenon DEF Init
  <2>2. offered \in 0..MaxMails
    BY EmailQueueAssumptions DEF Init
  <2>3. connected \in BOOLEAN /\ keepRunning \in BOOLEAN
    BY DEF Init
  <2>4. QED
    BY <2>1, <2>2, <2>3 DEF Init, TypeOK
<1>4. BacklogBounded
  BY <1>2, BacklogNat, EmailQueueAssumptions DEF Init, BacklogBounded
<1>5. BatchEmpty
  BY DEF Init, BatchEmpty
<1>6. QED
  BY <1>3, <1>4, <1>5 DEF IInv

LEMMA NextInv ==
  ASSUME IInv, [Next]_vars
  PROVE  IInv'
<1> USE DEF IInv
<1>1. CASE Pushing
  <2>1. PICK mails \in Seq(Mail) : PushingOf(mails)
    BY <1>1 DEF Pushing
  <2>2. queue' \in Seq(Mail) /\ Len(queue') <= Backlog
    BY <2>1, PushList DEF PushingOf
  <2>3. QED
    BY <2>1, <2>2 DEF PushingOf, TypeOK, BacklogBounded, BatchEmpty, Backlog
<1>2. CASE CheckRunning
  BY <1>2 DEF CheckRunning, TypeOK, BacklogBounded, BatchEmpty, Backlog
<1>3. CASE TakeQueue
  <2>1. <<>> \in Seq(Mail) /\ Len(<<>>) = 0
    BY EmptySeq
  <2>2. QED
    BY <1>3, <2>1, BacklogNat DEF TakeQueue, TypeOK, BacklogBounded, BatchEmpty, Backlog
<1>4. CASE SendNext
  <2>1. batch \in Seq(Mail) /\ batch # <<>> /\ tried \in Seq(Mail)
    BY <1>4 DEF SendNext, TypeOK
  <2>2. Head(batch) \in Mail /\ Tail(batch) \in Seq(Mail) /\ Len(Tail(batch)) = Len(batch) - 1
    BY <2>1, HeadTailProperties
  <2>3. Append(tried, Head(batch)) \in Seq(Mail)
    BY <2>1, <2>2, AppendProperties
  <2>4. Len(batch) - 1 <= Backlog
    BY <2>1, BacklogNat, LenProperties DEF BacklogBounded
  <2>5. QED
    BY <1>4, <2>2, <2>3, <2>4 DEF SendNext, TypeOK, BacklogBounded, BatchEmpty, Backlog
<1>5. CASE FailToConnect
  BY <1>5 DEF FailToConnect, TypeOK, BacklogBounded, BatchEmpty, Backlog
<1>6. CASE FinishBatch
  BY <1>6 DEF FinishBatch, TypeOK, BacklogBounded, BatchEmpty, Backlog
<1>7. CASE WakeUp
  BY <1>7 DEF WakeUp, TypeOK, BacklogBounded, BatchEmpty, Backlog
<1>8. CASE StopThread
  BY <1>8 DEF StopThread, TypeOK, BacklogBounded, BatchEmpty, Backlog
<1>9. CASE Exit
  BY <1>9 DEF Exit, TypeOK, BacklogBounded, BatchEmpty, Backlog
<1>10. CASE UNCHANGED vars
  BY <1>10 DEF vars, TypeOK, BacklogBounded, BatchEmpty, Backlog
<1>11. QED
  BY <1>1, <1>2, <1>3, <1>4, <1>5, <1>6, <1>7, <1>8, <1>9, <1>10,
     SendEmailPushes, SendInvitationEmailsPushes DEF Next, Sender

LEMMA Invariant == Spec => []IInv
<1>1. IInv /\ [Next]_vars => IInv'
  BY NextInv
<1>2. QED
  BY <1>1, InitInv, PTL DEF Spec

(***************************************************************************)
(* The queues hold mails, and the sender and the process are where the     *)
(* code can be (Email.cpp, thread_function).                               *)
(***************************************************************************)
THEOREM TypeCorrect == Spec => []TypeOK
<1>1. IInv => TypeOK
  BY DEF IInv
<1>2. QED
  BY <1>1, Invariant, PTL

(***************************************************************************)
(* Neither queue ever holds more than the limit less one and a whole list  *)
(* (Email.cpp, send_emails), whatever the limit and the lists are.         *)
(***************************************************************************)
THEOREM BacklogBoundedCorrect == Spec => []BacklogBounded
<1>1. IInv => BacklogBounded
  BY DEF IInv
<1>2. QED
  BY <1>1, Invariant, PTL
-----------------------------------------------------------------------------
(***************************************************************************)
(* At most once and in order.  The mails that were tried, those the sender *)
(* has taken and those that wait are, one behind the other, one sequence   *)
(* whose ids rise: it only grows at its end, by ids that are new.          *)
(***************************************************************************)
Rising(s) == \A i, j \in 1..Len(s) : i < j => s[i].id < s[j].id

AllMails == tried \o (batch \o queue)

InOrder ==
  /\ Rising(AllMails)
  /\ \A i \in 1..Len(AllMails) : AllMails[i].id <= offered

TriedInOrder == Rising(tried)

\* The first of what comes behind may as well end what goes before.
LEMMA HeadMoves ==
  ASSUME NEW S, NEW s \in Seq(S), NEW t \in Seq(S), t # <<>>
  PROVE  Append(s, Head(t)) \o Tail(t) = s \o t
<1>1. /\ Head(t) \in S /\ Tail(t) \in Seq(S) /\ Len(Tail(t)) = Len(t) - 1
      /\ \A i \in 1..Len(Tail(t)) : Tail(t)[i] = t[i + 1]
  BY HeadTailProperties
<1>2. /\ Append(s, Head(t)) \in Seq(S) /\ Len(Append(s, Head(t))) = Len(s) + 1
      /\ \A i \in 1..Len(s) : Append(s, Head(t))[i] = s[i]
      /\ Append(s, Head(t))[Len(s) + 1] = Head(t)
  BY <1>1, AppendProperties
<1>3. Len(s) \in Nat /\ Len(t) \in Nat \ {0} /\ Head(t) = t[1]
  BY LenProperties, EmptySeq
<1> DEFINE u == Append(s, Head(t))
           v == Tail(t)
<1>4. /\ u \in Seq(S) /\ Len(u) = Len(s) + 1 /\ u[Len(s) + 1] = t[1]
      /\ \A i \in 1..Len(s) : u[i] = s[i]
      /\ v \in Seq(S) /\ Len(v) = Len(t) - 1 /\ \A i \in 1..(Len(t) - 1) : v[i] = t[i + 1]
  BY <1>1, <1>2, <1>3
<1> HIDE DEF u, v
<1>5. /\ u \o v \in Seq(S) /\ Len(u \o v) = Len(u) + Len(v)
      /\ \A i \in 1..(Len(u) + Len(v)) : (u \o v)[i] = IF i <= Len(u) THEN u[i] ELSE v[i - Len(u)]
  BY <1>4, ConcatProperties
<1>6. /\ s \o t \in Seq(S) /\ Len(s \o t) = Len(s) + Len(t)
      /\ \A i \in 1..(Len(s) + Len(t)) : (s \o t)[i] = IF i <= Len(s) THEN s[i] ELSE t[i - Len(s)]
  BY ConcatProperties
<1>7. Len(u \o v) = Len(s \o t)
  BY <1>3, <1>4, <1>5, <1>6
<1>8. ASSUME NEW i \in 1..Len(s \o t)
      PROVE  (u \o v)[i] = (s \o t)[i]
  <2>1. i \in 1..(Len(s) + Len(t)) /\ i \in 1..(Len(u) + Len(v))
    BY <1>5, <1>6, <1>7
  <2>2. CASE i <= Len(s)
    BY <1>3, <1>4, <1>5, <1>6, <2>1, <2>2
  <2>3. CASE i = Len(s) + 1
    BY <1>3, <1>4, <1>5, <1>6, <2>1, <2>3
  <2>4. CASE i > Len(s) + 1
    <3>1. i - Len(u) \in 1..(Len(t) - 1) /\ i - Len(u) + 1 = i - Len(s)
      BY <1>3, <1>4, <2>1, <2>4
    <3>2. (u \o v)[i] = v[i - Len(u)] /\ (s \o t)[i] = t[i - Len(s)]
      BY <1>3, <1>4, <1>5, <1>6, <2>1, <2>4
    <3>3. QED
      BY <1>4, <3>1, <3>2
  <2>5. QED
    BY <1>3, <2>1, <2>2, <2>3, <2>4
<1>9. u \o v = s \o t
  BY <1>5, <1>6, <1>7, <1>8, SeqEqual
<1>10. QED
  BY <1>9 DEF u, v

LEMMA PushInOrder ==
  ASSUME IInv, InOrder, NEW mails \in Seq(Mail), PushingOf(mails)
  PROVE  InOrder'
<1>1. offered \in Nat /\ Len(mails) \in Nat
  BY EmailQueueAssumptions, LenProperties DEF IInv, TypeOK
<1>seqs. batch \in Seq(Mail) /\ queue \in Seq(Mail) /\ tried \in Seq(Mail)
  BY DEF IInv, TypeOK
<1>2. batch \o queue \in Seq(Mail) /\ AllMails \in Seq(Mail)
  BY <1>seqs, ConcatProperties DEF AllMails
<1>3. /\ batch' = batch /\ tried' = tried /\ offered' = offered + Len(mails)
      /\ \A i \in 1..Len(mails) : mails[i].id = offered + i
  BY DEF PushingOf
<1>4. ASSUME NEW i \in 1..Len(AllMails) PROVE AllMails[i].id \in Nat
  <2>1. AllMails[i] \in Mail
    BY <1>2, ElementOfSeq
  <2>2. QED
    BY <2>1, EmailQueueAssumptions DEF Mail
<1>5. CASE queue' = queue
  <2>1. AllMails' = AllMails
    BY <1>3, <1>5 DEF AllMails
  <2>2. \A i \in 1..Len(AllMails) : AllMails[i].id <= offered'
    <3>1. TAKE i \in 1..Len(AllMails)
    <3>2. AllMails[i].id <= offered /\ AllMails[i].id \in Nat
      BY <1>4 DEF InOrder
    <3>3. QED
      BY <1>1, <1>3, <3>2
  <2>3. QED
    BY <2>1, <2>2, Zenon DEF InOrder, Rising
<1>6. CASE queue' = queue \o mails
  <2>1. AllMails' = AllMails \o mails
    <3>1. AllMails' = tried \o (batch \o (queue \o mails))
      BY <1>3, <1>6 DEF AllMails
    <3>2. batch \o (queue \o mails) = (batch \o queue) \o mails
      BY <1>seqs, ConcatAssociative
    <3>3. tried \o ((batch \o queue) \o mails) = (tried \o (batch \o queue)) \o mails
      <4> DEFINE rest == batch \o queue
      <4>1. tried \in Seq(Mail) /\ rest \in Seq(Mail)
        BY <1>seqs, <1>2
      <4> HIDE DEF rest
      <4>2. tried \o (rest \o mails) = (tried \o rest) \o mails
        BY <4>1, ConcatAssociative
      <4>3. QED
        BY <4>2 DEF rest
    <3>4. QED
      BY <3>1, <3>2, <3>3 DEF AllMails
  <2> DEFINE n == Len(AllMails)
             all == AllMails \o mails
  <2>2. /\ n \in Nat /\ Len(all) = n + Len(mails)
        /\ \A i \in 1..(n + Len(mails)) : all[i] = IF i <= n THEN AllMails[i] ELSE mails[i - n]
    BY <1>2, ConcatProperties, LenProperties
  <2> HIDE DEF all
  <2>3. ASSUME NEW i \in 1..Len(all)
        PROVE  /\ i <= n => all[i] = AllMails[i] /\ i \in 1..n
               /\ i > n => all[i].id = offered + (i - n) /\ i - n \in 1..Len(mails)
    <3>1. i \in 1..(n + Len(mails)) /\ i \in Nat
      BY <1>1, <2>2
    <3>2. CASE i <= n
      BY <2>2, <3>1, <3>2
    <3>3. CASE i > n
      <4>1. i - n \in 1..Len(mails) /\ ~(i <= n)
        BY <1>1, <2>2, <3>1, <3>3
      <4>2. all[i] = mails[i - n] /\ mails[i - n].id = offered + (i - n)
        BY <1>3, <2>2, <3>1, <4>1
      <4>3. QED
        BY <4>1, <4>2
    <3>4. QED
      BY <2>2, <3>1, <3>2, <3>3
  <2>4. \A i \in 1..Len(all) : all[i].id <= offered + Len(mails) /\ all[i].id \in Nat
    <3>1. TAKE i \in 1..Len(all)
    <3>2. CASE i <= n
      <4>1. all[i].id <= offered /\ all[i].id \in Nat
        BY <1>4, <2>3, <3>2 DEF InOrder
      <4>2. QED
        BY <1>1, <4>1
    <3>3. CASE i > n
      BY <1>1, <2>2, <2>3, <3>3
    <3>4. QED
      BY <2>2, <3>2, <3>3
  <2>5. ASSUME NEW i \in 1..Len(all), NEW j \in 1..Len(all), i < j
        PROVE  all[i].id < all[j].id
    <3>1. CASE j <= n
      <4>1. i <= n
        BY <2>2, <2>5, <3>1
      <4>2. QED
        BY <2>3, <2>5, <3>1, <4>1 DEF InOrder, Rising
    <3>2. CASE i <= n /\ j > n
      <4>1. all[i].id <= offered /\ all[i].id \in Nat
        BY <1>4, <2>3, <3>2 DEF InOrder
      <4>2. all[j].id = offered + (j - n) /\ j - n >= 1
        BY <2>2, <2>3, <3>2
      <4>3. QED
        BY <1>1, <2>2, <4>1, <4>2
    <3>3. CASE i > n
      <4>1. j > n
        BY <2>2, <2>5, <3>3
      <4>2. all[i].id = offered + (i - n) /\ all[j].id = offered + (j - n)
        BY <2>3, <3>3, <4>1
      <4>3. QED
        BY <1>1, <2>2, <2>5, <4>2
    <3>4. QED
      BY <2>2, <3>1, <3>2, <3>3
  <2>6. QED
    BY <1>3, <2>1, <2>4, <2>5 DEF InOrder, Rising, all
<1>7. QED
  BY <1>5, <1>6, PushList DEF IInv, PushingOf

LEMMA NextInOrder ==
  ASSUME IInv, InOrder, [Next]_vars
  PROVE  InOrder'
<1>1. batch \in Seq(Mail) /\ queue \in Seq(Mail) /\ tried \in Seq(Mail)
  BY DEF IInv, TypeOK
<1>2. CASE Pushing
  BY <1>2, PushInOrder DEF Pushing
<1>3. ASSUME AllMails' = AllMails, offered' = offered
      PROVE  InOrder'
  BY <1>3 DEF InOrder, Rising
<1>4. CASE UNCHANGED <<queue, batch, tried, offered>>
  BY <1>3, <1>4 DEF AllMails
<1>5. CASE TakeQueue
  <2>1. batch = <<>> /\ batch' = queue /\ queue' = <<>> /\ tried' = tried /\ offered' = offered
    BY <1>5 DEF TakeQueue, IInv, BatchEmpty
  <2>2. batch' \o queue' = batch \o queue
    BY <1>1, <2>1, ConcatEmptySeq
  <2>3. QED
    BY <1>3, <2>1, <2>2 DEF AllMails
<1>6. CASE SendNext
  <2>1. /\ batch # <<>> /\ batch' = Tail(batch) /\ queue' = queue
        /\ tried' = Append(tried, Head(batch)) /\ offered' = offered
    BY <1>6 DEF SendNext
  <2>2. Head(batch \o queue) = Head(batch) /\ Tail(batch \o queue) = Tail(batch) \o queue
    BY <1>1, <2>1, HeadTailOfConcat
  <2>3. batch \o queue \in Seq(Mail) /\ batch \o queue # <<>>
    BY <1>1, <2>1, ConcatProperties, ConcatEqualIffEmpty
  <2>4. Append(tried, Head(batch \o queue)) \o Tail(batch \o queue) = tried \o (batch \o queue)
    BY <1>1, <2>3, HeadMoves
  <2>5. QED
    BY <1>3, <2>1, <2>2, <2>4 DEF AllMails
<1>7. \/ Pushing \/ TakeQueue \/ SendNext \/ UNCHANGED <<queue, batch, tried, offered>>
  BY SendEmailPushes, SendInvitationEmailsPushes
  DEF IInv, Next, Sender, CheckRunning, FailToConnect, FinishBatch, WakeUp, StopThread, Exit, vars
<1>8. QED
  BY <1>2, <1>4, <1>5, <1>6, <1>7

(***************************************************************************)
(* thread_function tries every mail at most once, and the mails in the     *)
(* order in which send_email and send_invitation_emails took them, however *)
(* the pushes fall between its steps and whatever the limit and the lists  *)
(* are: a stop or a failed connection may leave mails out, never repeat or *)
(* overtake one.                                                           *)
(***************************************************************************)
THEOREM TriedInOrderCorrect == Spec => []TriedInOrder
<1>1. Init => InOrder
  <2>1. SUFFICES ASSUME Init PROVE Len(AllMails) = 0
    BY DEF InOrder, Rising
  <2>2. QED
    BY <2>1, EmptySeq, ConcatEmptySeq DEF Init, AllMails
<1>2. IInv /\ InOrder /\ [Next]_vars => InOrder'
  BY NextInOrder
<1>3. IInv /\ InOrder => TriedInOrder
  <2>1. SUFFICES ASSUME IInv, InOrder PROVE Rising(tried)
    BY DEF TriedInOrder
  <2>2. tried \in Seq(Mail) /\ batch \o queue \in Seq(Mail)
    BY <2>1, ConcatProperties DEF IInv, TypeOK
  <2>3. /\ Len(AllMails) = Len(tried) + Len(batch \o queue)
        /\ \A i \in 1..(Len(tried) + Len(batch \o queue)) : i <= Len(tried) => AllMails[i] = tried[i]
    BY <2>2, ConcatProperties DEF AllMails
  <2>4. Len(tried) \in Nat /\ Len(batch \o queue) \in Nat
    BY <2>2, LenProperties
  <2>5. \A i \in 1..Len(tried) : i \in 1..Len(AllMails) /\ AllMails[i] = tried[i]
    BY <2>3, <2>4
  <2>6. QED
    BY <2>1, <2>5 DEF InOrder, Rising
<1>4. QED
  BY <1>1, <1>2, <1>3, Invariant, PTL DEF Spec
-----------------------------------------------------------------------------
LEMMA InitRefines == Init => Outside!Init
<1> SUFFICES ASSUME Init PROVE Outside!Init
  OBVIOUS
<1>2. batch \o queue = <<>>
  BY EmptySeq, ConcatEmptySeq DEF Init
<1>3. (process = "ended") = FALSE
  BY DEF Init
<1>4. QED
  BY <1>2, <1>3 DEF Init, Outside!Init

LEMMA PushRefines ==
  ASSUME IInv, IInv', NEW mails \in Seq(Mail), PushingOf(mails)
  PROVE  [Outside!Next]_Outside!outbox
<1>1. batch \in Seq(Mail) /\ queue \in Seq(Mail) /\ queue' \in Seq(Mail) /\ offered \in Nat
  BY EmailQueueAssumptions DEF IInv, TypeOK
<1>2. /\ batch' = batch /\ tried' = tried /\ process' = "serving" /\ process = "serving"
      /\ offered' = offered + Len(mails)
  BY DEF PushingOf
<1>3. queue' = queue \/ queue' = queue \o mails
  BY PushList DEF IInv, PushingOf
<1>4. CASE mails = <<>>
  <2>1. Len(mails) = 0 /\ queue' = queue
    BY <1>1, <1>3, <1>4, ConcatEmptySeq, EmptySeq
  <2>2. offered' = offered
    BY <1>1, <1>2, <2>1
  <2>3. QED
    BY <1>2, <2>1, <2>2 DEF Outside!outbox
<1>5. CASE mails # <<>>
  <2>1. Len(mails) \in Nat \ {0}
    BY <1>5, EmptySeq, LenProperties
  <2>2. offered' > offered /\ offered' - offered = Len(mails)
    BY <1>1, <1>2, <2>1
  <2>3. CASE queue' = queue
    <3>1. Outside!Accept
      BY <1>2, <2>2, <2>3 DEF Outside!Accept
    <3>2. QED
      BY <3>1 DEF Outside!Next
  <2>4. CASE queue' = queue \o mails
    <3> DEFINE waits == batch \o queue
               waits1 == batch' \o queue'
    <3>1. waits1 = waits \o mails
      <4>1. waits1 = batch \o (queue \o mails)
        BY <1>2, <2>4
      <4>2. batch \o (queue \o mails) = (batch \o queue) \o mails
        BY <1>1, ConcatAssociative
      <4>3. QED
        BY <4>1, <4>2
    <3>2. /\ waits \in Seq(Mail)
          /\ Len(waits) = Len(batch) + Len(queue)
          /\ Len(waits) \in Nat
      BY <1>1, ConcatProperties, LenProperties
    <3>3. /\ Len(waits1) = Len(waits) + Len(mails)
          /\ \A i \in 1..Len(mails) : waits1[Len(waits) + i] = mails[i]
      <4> HIDE DEF waits, waits1
      <4>1. /\ Len(waits \o mails) = Len(waits) + Len(mails)
            /\ \A i \in 1..(Len(waits) + Len(mails)) :
                 (waits \o mails)[i] = IF i <= Len(waits) THEN waits[i] ELSE mails[i - Len(waits)]
        BY <3>2, ConcatProperties
      <4>2. ASSUME NEW i \in 1..Len(mails)
            PROVE  /\ Len(waits) + i \in 1..(Len(waits) + Len(mails))
                   /\ ~(Len(waits) + i <= Len(waits))
                   /\ Len(waits) + i - Len(waits) = i
        BY <2>1, <3>2
      <4>3. QED
        BY <3>1, <4>1, <4>2
    <3>4. Len(waits1) <= 2 * Backlog
      <4>1. Len(waits1) = Len(batch) + Len(queue')
        BY <1>1, <1>2, ConcatProperties
      <4>2. Len(batch) <= Backlog /\ Len(queue') <= Backlog
        BY <1>2 DEF IInv, BacklogBounded, Backlog
      <4>3. Len(batch) \in Nat /\ Len(queue') \in Nat
        BY <1>1, LenProperties
      <4>4. QED
        BY <4>1, <4>2, <4>3, BacklogNat
    <3>5. SubSeq(waits1, 1, Len(waits)) = waits
      <4> HIDE DEF waits, waits1
      <4> QED
        BY <3>1, <3>2, SubSeqOfConcat
    <3>6. \A i \in 1..(offered' - offered) : waits1[Len(waits) + i].id = offered + i
      BY <2>2, <3>3 DEF PushingOf
    <3>7. Outside!Accept
      BY <1>2, <2>2, <3>3, <3>4, <3>5, <3>6 DEF Outside!Accept
    <3>8. QED
      BY <3>7 DEF Outside!Next
  <2>5. QED
    BY <1>3, <2>3, <2>4
<1>6. QED
  BY <1>4, <1>5

LEMMA NextRefines ==
  ASSUME IInv, IInv', [Next]_vars
  PROVE  [Outside!Next]_Outside!outbox
<1>1. batch \in Seq(Mail) /\ queue \in Seq(Mail)
  BY DEF IInv, TypeOK
<1>2. CASE Pushing
  BY <1>2, PushRefines DEF Pushing
<1>3. CASE CheckRunning \/ FinishBatch \/ WakeUp \/ StopThread
  BY <1>3 DEF CheckRunning, FinishBatch, WakeUp, StopThread, Outside!outbox
<1>4. CASE TakeQueue
  <2>1. batch = <<>> /\ batch' = queue /\ queue' = <<>>
    BY <1>4 DEF TakeQueue, IInv, BatchEmpty
  <2>2. batch' \o queue' = batch \o queue
    BY <1>1, <2>1, ConcatEmptySeq
  <2>3. QED
    BY <1>4, <2>2 DEF TakeQueue, Outside!outbox
<1>5. CASE SendNext /\ process # "ended"
  <2>1. batch # <<>> /\ batch' = Tail(batch) /\ queue' = queue
    BY <1>5 DEF SendNext
  <2>2. /\ Head(batch \o queue) = Head(batch)
        /\ Tail(batch \o queue) = Tail(batch) \o queue
    BY <1>1, <2>1, HeadTailOfConcat
  <2>3. batch \o queue # <<>>
    BY <1>1, <2>1, ConcatEqualIffEmpty
  <2>4. Outside!HandOver
    BY <1>5, <2>1, <2>2, <2>3 DEF SendNext, Outside!HandOver
  <2>5. QED
    BY <2>4 DEF Outside!Next
<1>6. CASE (FailToConnect \/ Exit) /\ process # "ended"
  <2>1. Outside!Close
    BY <1>6 DEF FailToConnect, Exit, Outside!Close
  <2>2. QED
    BY <2>1 DEF Outside!Next
<1>7. CASE UNCHANGED vars
  BY <1>7 DEF vars, Outside!outbox
<1>8. Exit => process # "ended"
  BY DEF Exit
<1>9. QED
  BY <1>2, <1>3, <1>4, <1>5, <1>6, <1>7, <1>8, SendEmailPushes, SendInvitationEmailsPushes
  DEF Next, Sender, IInv

(***************************************************************************)
(* The two queues and the thread implement the bounded outbox: mails are   *)
(* tried in the order in which they were accepted and none twice.          *)
(***************************************************************************)
THEOREM EmailQueueImplementsOutbox == Spec => ImplementsOutbox
<1>1. IInv /\ IInv' /\ [Next]_vars => [Outside!Next]_Outside!outbox
  BY NextRefines
<1>2. QED
  BY <1>1, InitRefines, Invariant, PTL DEF Spec, ImplementsOutbox, Outside!Spec
=============================================================================
