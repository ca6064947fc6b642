------------------------ MODULE NotificationsProofs ------------------------
(***************************************************************************)
(* Theorems of Notifications, for any number of workers, of requests under *)
(* way, of notifications and of faults.  The inductive invariant relates   *)
(* the three places that hold ids: a request asks from at most one past    *)
(* the end of the list, an answer reaches at least as far as the column    *)
(* that was read before it, and nothing is reported that was not shown.    *)
(***************************************************************************)
EXTENDS Notifications, SequenceTheorems, TLAPS

\* What is reported or recorded as seen was shown, and what was shown exists.
Reported ==
  /\ shown \subseteq 1..latest
  /\ marks \subseteq shown \cup {0}
  /\ lastSeen \in shown \cup {0}
  /\ 1..lastId \subseteq shown

\* The rows that a request asks for and gets continue the list.
PollOK(k) ==
  /\ polls[k].state # "none" => polls[k].from <= lastId + 1
  /\ polls[k].state = "half" => polls[k].seen <= latest
  /\ polls[k].state = "answered" =>
       /\ polls[k].seen <= polls[k].upto
       /\ polls[k].upto <= latest
       /\ polls[k].from <= polls[k].upto + 1

PollsOK == \A k \in Poll : PollOK(k)

\* A worker between its mail and its UPDATE accounts for the mail, sent or dropped, and for the flag.
Mailed ==
  /\ \A w \in Worker : pc[w] = "set_flag" => mails > 0 \/ dropped \/ overtaken
  /\ mails > 0 /\ ~ raced /\ faults = 0 =>
       emailSent \/ \E w \in Worker : pc[w] = "set_flag"
  /\ MailedOnce
  /\ SilenceExplained

\* Without overlap there is one request at most, and it asks from the end of the list.
OneRequest == ~ overlapped =>
  /\ \A j, k \in Poll : polls[j].state # "none" /\ polls[k].state # "none" => j = k
  /\ \A k \in Poll : polls[k].state # "none" => polls[k].from = From

Feed == TypeOK /\ Reported /\ SeenIsListed /\ PollsOK

IInv == Feed /\ Mailed /\ OneRequest /\ ListedOnce
-----------------------------------------------------------------------------
(***************************************************************************)
(* The rows of an answer, as a sequence.                                   *)
(***************************************************************************)
LEMMA OrderProperties ==
  ASSUME NEW m \in Nat \ {0}, NEW n \in 0..MaxId, m <= n + 1,
         NEW rows \in Orders(m, n)
  PROVE  /\ rows \in Seq(Id) /\ Len(rows) = n - m + 1
         /\ \A i \in 1..(n - m + 1) : rows[i] \in m..n
         /\ \A i, j \in 1..(n - m + 1) : rows[i] = rows[j] => i = j
         /\ \A id \in m..n : \E i \in 1..(n - m + 1) : rows[i] = id
  <1> DEFINE k == n - m + 1
             ids == m..n
  <1>1. k \in Nat /\ ids \subseteq Id  BY NotificationsAssumptions DEF Id
  <1>2. /\ rows \in [1..k -> ids]
        /\ \A id \in ids : \E i \in DOMAIN rows : \A j \in DOMAIN rows : rows[j] = id <=> j = i
    BY Zenon DEF Orders
  <1> SUFFICES /\ rows \in Seq(Id) /\ Len(rows) = k
               /\ \A i \in 1..k : rows[i] \in ids
               /\ \A i, j \in 1..k : rows[i] = rows[j] => i = j
               /\ \A id \in ids : \E i \in 1..k : rows[i] = id
    BY Zenon
  <1> HIDE DEF k, ids
  <1>3. DOMAIN rows = 1..k /\ \A i \in 1..k : rows[i] \in ids  BY <1>2
  <1>4. rows \in Seq(Id)
    <2>1. rows \in [1..k -> Id]  BY <1>1, <1>2
    <2> QED  BY <1>1, <2>1
  <1>5. Len(rows) = k  BY <1>1, <1>3, <1>4, LenProperties
  <1>6. \A id \in ids : \E i \in 1..k : \A j \in 1..k : rows[j] = id <=> j = i
    <2> TAKE id \in ids
    <2>1. PICK i \in DOMAIN rows : \A j \in DOMAIN rows : rows[j] = id <=> j = i  BY <1>2, Zenon
    <2>2. i \in 1..k /\ \A j \in 1..k : rows[j] = id <=> j = i
      <3>1. DOMAIN rows = 1..k  BY <1>3
      <3> QED  BY <2>1, <3>1
    <2> QED  BY <2>2, Zenon
  <1>7. \A i, j \in 1..k : rows[i] = rows[j] => i = j
    <2> SUFFICES ASSUME NEW i \in 1..k, NEW j \in 1..k, rows[i] = rows[j]  PROVE i = j
      OBVIOUS
    <2>1. rows[i] \in ids  BY <1>3
    <2>2. PICK l \in 1..k : \A x \in 1..k : rows[x] = rows[i] <=> x = l  BY <1>6, <2>1, Zenon
    <2>3. i = l  BY <2>2, Zenon
    <2>4. j = l  BY <2>2, Zenon
    <2> QED  BY <2>3, <2>4
  <1>8. \A id \in ids : \E i \in 1..k : rows[i] = id  BY <1>6, Zenon
  <1> QED  BY <1>1, <1>3, <1>4, <1>5, <1>7, <1>8

\* What a list that is 1 .. last becomes when the rows first .. upto are appended.
LEMMA AppendRows ==
  ASSUME TypeOK, NEW first \in Nat \ {0}, NEW upto \in 0..MaxId, first <= upto + 1,
         NEW rows \in Orders(first, upto), list' = list \o rows
  PROVE  /\ list' \in Seq(Id)
         /\ Listed' = Listed \cup first..upto
         /\ (Listed \cap first..upto = {}) /\ ListedOnce /\ ~ overlapped =>
              \A i, j \in DOMAIN list' : list'[i] = list'[j] => i = j
  <1>0. /\ rows \in Seq(Id) /\ Len(rows) = upto - first + 1
        /\ \A i \in 1..(upto - first + 1) : rows[i] \in first..upto
        /\ \A i, j \in 1..(upto - first + 1) : rows[i] = rows[j] => i = j
        /\ \A id \in first..upto : \E i \in 1..(upto - first + 1) : rows[i] = id
    <2>1. rows \in Orders(first, upto) /\ first \in Nat \ {0} /\ upto \in 0..MaxId
      OBVIOUS
    <2>2. first <= upto + 1  OBVIOUS
    <2> QED  BY ONLY <2>1, <2>2, OrderProperties
  <1> DEFINE n == upto - first + 1
             ids == first..upto
  <1>1. /\ rows \in Seq(Id) /\ Len(rows) = n
        /\ \A i \in 1..n : rows[i] \in ids
        /\ \A i, j \in 1..n : rows[i] = rows[j] => i = j
        /\ \A id \in ids : \E i \in 1..n : rows[i] = id
    BY <1>0, Zenon
  <1>2. list \in Seq(Id) /\ Len(list) \in Nat /\ DOMAIN list = 1..Len(list)
    BY LenProperties DEF TypeOK
  <1>3. n \in Nat  BY NotificationsAssumptions
  <1>4. /\ list' \in Seq(Id)
        /\ Len(list') = Len(list) + n
        /\ \A i \in 1..(Len(list) + n) :
             list'[i] = IF i <= Len(list) THEN list[i] ELSE rows[i - Len(list)]
    <2>1. /\ list \o rows \in Seq(Id)
          /\ Len(list \o rows) = Len(list) + Len(rows)
          /\ \A i \in 1..(Len(list) + Len(rows)) :
               (list \o rows)[i] = IF i <= Len(list) THEN list[i] ELSE rows[i - Len(list)]
      <3>1. rows \in Seq(Id) /\ list \in Seq(Id)  BY <1>1, <1>2
      <3> QED  BY <3>1, ConcatProperties
    <2>2. list' = list \o rows  OBVIOUS
    <2> QED  BY <1>1, <2>1, <2>2
  <1>5. DOMAIN list' = 1..(Len(list) + n)  BY <1>4, LenProperties
  <1> HIDE DEF n
  <1>6. \A i \in 1..Len(list) : i \in 1..(Len(list) + n) /\ list'[i] = list[i]
    BY <1>2, <1>3, <1>4
  <1>7. \A i \in 1..n : /\ Len(list) + i \in 1..(Len(list) + n)
                        /\ list'[Len(list) + i] = rows[i]
    <2> TAKE i \in 1..n
    <2>1. Len(list) + i \in 1..(Len(list) + n) /\ ~ (Len(list) + i <= Len(list))
      BY <1>2, <1>3
    <2>2. Len(list) + i - Len(list) = i  BY <1>2, <1>3
    <2> QED  BY <1>1, <1>4, <2>1, <2>2
  <1>8. \A i \in 1..(Len(list) + n) :
          \/ i \in 1..Len(list)
          \/ \E j \in 1..n : i = Len(list) + j
    <2> TAKE i \in 1..(Len(list) + n)
    <2>1. CASE i <= Len(list)  BY <1>2, <1>3, <2>1
    <2>2. CASE ~ (i <= Len(list))
      <3>1. i - Len(list) \in 1..n /\ i = Len(list) + (i - Len(list))  BY <1>2, <1>3, <2>2
      <3> QED  BY <3>1
    <2> QED  BY <2>1, <2>2
  <1>9. Listed' = Listed \cup first..upto
    <2>1. ASSUME NEW id \in Listed'  PROVE id \in Listed \cup first..upto
      <3>1. PICK i \in 1..(Len(list) + n) : id = list'[i]  BY <1>5, <2>1 DEF Listed
      <3>2. CASE i \in 1..Len(list)  BY <1>2, <1>6, <3>1, <3>2 DEF Listed
      <3>3. CASE \E j \in 1..n : i = Len(list) + j  BY <1>1, <1>7, <3>1, <3>3
      <3> QED  BY <1>8, <3>2, <3>3
    <2>2. ASSUME NEW id \in Listed  PROVE id \in Listed'
      <3>1. PICK i \in 1..Len(list) : id = list[i]  BY <1>2, <2>2 DEF Listed
      <3> QED  BY <1>5, <1>6, <3>1 DEF Listed
    <2>3. ASSUME NEW id \in first..upto  PROVE id \in Listed'
      <3>1. PICK i \in 1..n : rows[i] = id  BY <1>1, <2>3
      <3>2. Len(list) + i \in DOMAIN list' /\ list'[Len(list) + i] = id  BY <1>5, <1>7, <3>1
      <3> QED  BY <3>2 DEF Listed
    <2> QED  BY <2>1, <2>2, <2>3
  <1>10. ASSUME Listed \cap first..upto = {}, ListedOnce, ~ overlapped
         PROVE  \A i, j \in DOMAIN list' : list'[i] = list'[j] => i = j
    <2> SUFFICES ASSUME NEW i \in 1..(Len(list) + n), NEW j \in 1..(Len(list) + n),
                        list'[i] = list'[j]
                 PROVE  i = j
      BY <1>5
    <2>1. \A k \in 1..Len(list) : list'[k] \in Listed  BY <1>2, <1>6 DEF Listed
    <2>2. \A k \in 1..n : list'[Len(list) + k] \in first..upto  BY <1>1, <1>7
    <2>3. CASE i \in 1..Len(list) /\ j \in 1..Len(list)
      BY <1>2, <1>6, <1>10, <2>3 DEF ListedOnce
    <2>4. CASE (\E k \in 1..n : i = Len(list) + k) /\ (\E k \in 1..n : j = Len(list) + k)
      <3>1. PICK k \in 1..n : i = Len(list) + k  BY <2>4
      <3>2. PICK l \in 1..n : j = Len(list) + l  BY <2>4
      <3>3. rows[k] = rows[l]  BY <1>7, <3>1, <3>2
      <3>4. k = l  BY <1>1, <3>3
      <3> QED  BY <3>1, <3>2, <3>4
    <2>5. CASE i \in 1..Len(list) /\ \E k \in 1..n : j = Len(list) + k
      BY <1>10, <2>1, <2>2, <2>5
    <2>6. CASE j \in 1..Len(list) /\ \E k \in 1..n : i = Len(list) + k
      BY <1>10, <2>1, <2>2, <2>6
    <2> QED  BY <1>8, <2>3, <2>4, <2>5, <2>6
  <1> QED  BY <1>4, <1>9, <1>10
-----------------------------------------------------------------------------
(***************************************************************************)
(* The ids: types, what is reported, the list and the requests.            *)
(***************************************************************************)
LEMMA InitFeed == Init => Feed
  <1> SUFFICES ASSUME Init PROVE Feed  OBVIOUS
  <1>1. NoRequest \in Request  BY DEF NoRequest, Request
  <1>2. TypeOK
    <2>1. list \in Seq(Id)  BY EmptySeq DEF Init
    <2>2. polls \in [Poll -> Request]  BY <1>1 DEF Init
    <2>3. pc \in [Worker -> {"idle", "select_flag", "set_flag"}]  BY DEF Init
    <2>4. 0 \in 0..MaxId /\ 0 \in 0..MaxFaults  BY NotificationsAssumptions
    <2> QED  BY <2>1, <2>2, <2>3, <2>4 DEF Init, TypeOK
  <1>3. Reported  BY DEF Init, Reported
  <1>4. SeenIsListed  BY DEF Init, SeenIsListed, Listed
  <1>5. PollsOK  BY DEF Init, PollsOK, PollOK, NoRequest
  <1> QED  BY <1>2, <1>3, <1>4, <1>5 DEF Feed

\* A step that leaves the page and its requests alone.
LEMMA FeedOutsidePage ==
  ASSUME Feed, UNCHANGED <<page, polls>>, TypeOK', Reported', latest' >= latest
  PROVE  Feed'
  <1>1. SeenIsListed'  BY DEF Feed, SeenIsListed, Listed, page
  <1>2. PollsOK'
    <2> SUFFICES ASSUME NEW k \in Poll PROVE PollOK(k)'  BY DEF PollsOK
    <2>1. polls[k] \in Request /\ latest \in Nat /\ latest' \in Nat
      BY NotificationsAssumptions DEF Feed, TypeOK
    <2>2. PollOK(k)  BY DEF Feed, PollsOK
    <2> QED  BY <2>1, <2>2 DEF PollOK, page, Request
  <1> QED  BY <1>1, <1>2 DEF Feed

LEMMA CreateFeed ==
  ASSUME Feed, NEW w \in Worker, Create(w)
  PROVE  Feed'
  <1>1. TypeOK /\ Reported  BY DEF Feed
  <1>2. latest \in 0..MaxId /\ latest' \in 0..MaxId /\ latest' >= latest
    BY <1>1, NotificationsAssumptions
    DEF TypeOK, Create, Insert, SelectFlag, SetFlag, Interrupt, columns
  <1>3. UNCHANGED <<lastSeen, page, polls, marks, shown>>
    BY DEF Create, Insert, SelectFlag, SetFlag, Interrupt, columns
  <1>4. /\ pc' \in [Worker -> {"idle", "select_flag", "set_flag"}]
        /\ mails' \in Nat /\ faults' \in 0..MaxFaults
    BY <1>1, NotificationsAssumptions
    DEF TypeOK, Create, Insert, SelectFlag, SetFlag, Interrupt, columns, mailing
  <1>5. /\ emailSent' \in BOOLEAN /\ raced' \in BOOLEAN /\ dropped' \in BOOLEAN
        /\ overtaken' \in BOOLEAN /\ overlapped' \in BOOLEAN
    BY <1>1, Zenon
    DEF TypeOK, Create, Insert, SelectFlag, SetFlag, Interrupt, columns, mailing
  <1>6. TypeOK'  BY <1>1, <1>2, <1>3, <1>4, <1>5 DEF TypeOK, page
  <1>7. Reported'
    <2>1. 1..latest \subseteq 1..latest'  BY <1>2, NotificationsAssumptions
    <2> QED  BY <1>1, <1>3, <2>1 DEF Reported, page
  <1> QED  BY <1>2, <1>3, <1>6, <1>7, FeedOutsidePage

LEMMA MarkFeed ==
  ASSUME Feed, NEW n \in 0..MaxId, OtherPage(n) \/ ServeMark(n) \/ LoseMark(n)
  PROVE  Feed'
  <1>1. TypeOK /\ Reported  BY DEF Feed
  <1>2. latest \in Nat /\ latest' = latest
    <2>1. latest \in Nat  BY <1>1, NotificationsAssumptions DEF TypeOK
    <2>2. latest' = latest  BY Zenon DEF OtherPage, ServeMark, LoseMark, columns
    <2> QED  BY <2>1, <2>2
  <1>3. UNCHANGED <<page, polls, pc, overlapped>>
    BY DEF OtherPage, ServeMark, LoseMark
  <1>4. /\ emailSent' \in BOOLEAN /\ mails' \in Nat /\ raced' \in BOOLEAN
        /\ dropped' \in BOOLEAN /\ overtaken' \in BOOLEAN /\ faults' \in 0..MaxFaults
    <2>1. faults' \in {faults, faults + 1} /\ (faults' # faults => faults < MaxFaults)
      BY Zenon DEF OtherPage, ServeMark, LoseMark
    <2>2. faults' \in 0..MaxFaults  BY <1>1, <2>1, NotificationsAssumptions DEF TypeOK
    <2>3. mails' = mails \/ mails' = 0
      BY Zenon DEF OtherPage, ServeMark, LoseMark, mailing
    <2>4. /\ emailSent' \in BOOLEAN /\ raced' \in BOOLEAN
          /\ dropped' \in BOOLEAN /\ overtaken' \in BOOLEAN
      BY <1>1, Zenon DEF TypeOK, OtherPage, ServeMark, LoseMark, columns, mailing
    <2> QED  BY <1>1, <2>2, <2>3, <2>4 DEF TypeOK
  <1>5. CASE OtherPage(n)
    <2>1. /\ shown' = shown \cup 1..n /\ n \in 0..latest
          /\ marks' = marks \cup {n} /\ lastSeen' = lastSeen
      BY <1>5 DEF OtherPage, columns
    <2>2. 1..n \subseteq 1..latest /\ 1..n \subseteq Id /\ n \in 1..n \cup {0}
      BY <1>1, <1>2, <2>1, NotificationsAssumptions DEF TypeOK, Id
    <2>3. TypeOK'  BY <1>1, <1>2, <1>3, <1>4, <2>1, <2>2 DEF TypeOK, page
    <2>4. Reported'  BY <1>1, <1>2, <1>3, <2>1, <2>2 DEF Reported, page
    <2> QED  BY <1>2, <1>3, <2>3, <2>4, FeedOutsidePage
  <1>6. CASE ServeMark(n) \/ LoseMark(n)
    <2>1. /\ shown' = shown /\ marks' \subseteq marks /\ n \in marks
          /\ lastSeen' \in {lastSeen, n}
      BY <1>6 DEF ServeMark, LoseMark, columns
    <2>2. TypeOK'  BY <1>1, <1>2, <1>3, <1>4, <2>1 DEF TypeOK, page
    <2>3. Reported'  BY <1>1, <1>2, <1>3, <2>1 DEF Reported, page
    <2> QED  BY <1>2, <1>3, <2>2, <2>3, FeedOutsidePage
  <1> QED  BY <1>5, <1>6

LEMMA ClicksFeed ==
  ASSUME Feed, ClickBell \/ ClosePanel
  PROVE  Feed'
  <1>1. TypeOK /\ Reported /\ SeenIsListed /\ PollsOK  BY DEF Feed
  <1>2. lastId \in 0..MaxId /\ lastId \in 1..lastId \cup {0}
    BY <1>1, NotificationsAssumptions DEF TypeOK
  <1>3. TypeOK'
    BY <1>1, <1>2 DEF TypeOK, ClickBell, ClosePanel, columns, mailing
  <1>4. Reported'
    BY <1>1, <1>2 DEF Reported, ClickBell, ClosePanel, columns
  <1>5. SeenIsListed'
    BY <1>1, <1>2 DEF SeenIsListed, Listed, ClickBell, ClosePanel
  <1>6. PollsOK'
    BY <1>1 DEF PollsOK, PollOK, ClickBell, ClosePanel, columns
  <1> QED  BY <1>3, <1>4, <1>5, <1>6 DEF Feed

\* A request changes, and nothing else of the feed.
LEMMA RequestFeed ==
  ASSUME Feed, NEW k \in Poll, NEW request \in Request,
         polls' = [polls EXCEPT ![k] = request], PollOK(k)',
         UNCHANGED <<columns, pc, page, marks, mailing, shown>>,
         overlapped' \in BOOLEAN, faults' \in 0..MaxFaults
  PROVE  Feed'
  <1>1. TypeOK /\ Reported /\ SeenIsListed /\ PollsOK  BY DEF Feed
  <1>2. polls' \in [Poll -> Request]  BY <1>1 DEF TypeOK
  <1>3. \A j \in Poll : j # k => polls'[j] = polls[j]  BY <1>1 DEF TypeOK
  <1>4. TypeOK'  BY <1>1, <1>2 DEF TypeOK, columns, page, mailing
  <1>5. Reported'  BY <1>1 DEF Reported, columns, page
  <1>6. SeenIsListed'  BY <1>1 DEF SeenIsListed, Listed, page
  <1>7. PollsOK'
    <2> SUFFICES ASSUME NEW j \in Poll, j # k PROVE PollOK(j)'  BY DEF PollsOK
    <2> QED  BY <1>1, <1>3 DEF PollsOK, PollOK, columns, page
  <1> QED  BY <1>4, <1>5, <1>6, <1>7 DEF Feed

LEMMA PollFeed ==
  ASSUME Feed, NEW k \in Poll, Ask(k) \/ Answer(k) \/ DropRequest(k)
  PROVE  Feed'
  <1>1. TypeOK /\ Reported /\ SeenIsListed /\ PollsOK  BY DEF Feed
  <1>2. polls \in [Poll -> Request] /\ polls[k] \in Request  BY <1>1 DEF TypeOK
  <1>3. latest \in Nat /\ lastSeen \in Nat /\ lastId \in Nat
    BY <1>1, NotificationsAssumptions DEF TypeOK
  <1>4. lastId <= latest /\ lastSeen <= latest
    <2>1. lastId \in 1..lastId \cup {0}  BY <1>3
    <2> QED  BY <1>1, <1>3, <2>1 DEF Reported
  <1>5. overlapped' \in BOOLEAN /\ faults' \in 0..MaxFaults
    <2>1. faults' \in {faults, faults + 1} /\ (faults' # faults => faults < MaxFaults)
      BY Zenon DEF Ask, Answer, SelectLastSeen, SelectRows, DropRequest
    <2>2. faults' \in 0..MaxFaults  BY <1>1, <2>1, NotificationsAssumptions DEF TypeOK
    <2>3. overlapped' \in BOOLEAN
      BY <1>1, Zenon DEF TypeOK, Ask, Answer, SelectLastSeen, SelectRows, DropRequest
    <2> QED  BY <2>2, <2>3
  <1>6. UNCHANGED <<columns, pc, page, marks, mailing, shown>>
    BY DEF Ask, Answer, SelectLastSeen, SelectRows, DropRequest
  <1>7. UNCHANGED <<latest, lastSeen, lastId>>  BY <1>6 DEF columns, page
  <1>8. From \in Nat /\ From <= lastId + 1  BY <1>3 DEF From
  <1>9. CASE Ask(k)
    <2> DEFINE request == [NoRequest EXCEPT !.state = "asked", !.from = From]
    <2>1. NoRequest \in Request  BY DEF NoRequest, Request
    <2>2. request \in Request /\ request.state = "asked" /\ request.from = From
      <3> HIDE DEF From
      <3> QED  BY <1>8, <2>1 DEF Request
    <2>3. polls' = [polls EXCEPT ![k] = request]  BY <1>9 DEF Ask
    <2> HIDE DEF request
    <2>4. PollOK(k)'
      <3>1. polls'[k] = request  BY <1>2, <2>3
      <3> QED  BY <1>7, <1>8, <2>2, <3>1 DEF PollOK
    <2> QED  BY <1>5, <1>6, <2>2, <2>3, <2>4, RequestFeed
  <1>10. CASE SelectLastSeen(k)
    <2> DEFINE request == [polls[k] EXCEPT !.state = "half", !.seen = lastSeen]
    <2>1. request \in Request  BY <1>2, <1>3 DEF Request
    <2>2. polls' = [polls EXCEPT ![k] = request]  BY <1>2, <1>10 DEF SelectLastSeen
    <2>3. PollOK(k)'
      <3>1. polls'[k] = request  BY <1>2, <2>2
      <3>2. request.state = "half" /\ request.seen = lastSeen /\ request.from = polls[k].from
        BY <1>2 DEF Request
      <3>3. polls[k].from <= lastId + 1
        BY <1>1, <1>10 DEF PollsOK, PollOK, SelectLastSeen
      <3> HIDE DEF request
      <3> QED  BY <1>4, <1>7, <3>1, <3>2, <3>3 DEF PollOK
    <2> QED  BY <1>5, <1>6, <2>1, <2>2, <2>3, RequestFeed
  <1>11. CASE SelectRows(k)
    <2> DEFINE request == [polls[k] EXCEPT !.state = "answered", !.upto = latest]
    <2>1. request \in Request  BY <1>2, <1>3 DEF Request
    <2>2. polls' = [polls EXCEPT ![k] = request]  BY <1>2, <1>11 DEF SelectRows
    <2>3. PollOK(k)'
      <3>1. polls'[k] = request  BY <1>2, <2>2
      <3>2. /\ request.state = "answered" /\ request.upto = latest
            /\ request.seen = polls[k].seen /\ request.from = polls[k].from
        BY <1>2 DEF Request
      <3>3. polls[k].from <= lastId + 1 /\ polls[k].seen <= latest /\ polls[k].from \in Nat
        BY <1>1, <1>2, <1>11 DEF PollsOK, PollOK, SelectRows, Request
      <3>4. polls[k].from <= latest + 1  BY <1>3, <1>4, <3>3
      <3> HIDE DEF request
      <3> QED  BY <1>3, <1>7, <3>1, <3>2, <3>3, <3>4 DEF PollOK
    <2> QED  BY <1>5, <1>6, <2>1, <2>2, <2>3, RequestFeed
  <1>12. CASE polls' = [polls EXCEPT ![k] = NoRequest]
    <2>1. NoRequest \in Request  BY DEF NoRequest, Request
    <2>2. polls'[k] = NoRequest  BY <1>2, <1>12
    <2>3. PollOK(k)'  BY <2>2 DEF PollOK, NoRequest
    <2> QED  BY <1>5, <1>6, <1>12, <2>1, <2>3, RequestFeed
  <1>13. CASE polls[k].state = "half" /\ polls' = [polls EXCEPT ![k].state = "asked", ![k].seen = 0]
    <2> DEFINE request == [polls[k] EXCEPT !.state = "asked", !.seen = 0]
    <2>1. request \in Request  BY <1>2 DEF Request
    <2>2. polls' = [polls EXCEPT ![k] = request]  BY <1>2, <1>13
    <2>3. PollOK(k)'
      <3>1. polls'[k] = request  BY <1>2, <2>2
      <3>2. request.state = "asked" /\ request.from = polls[k].from  BY <1>2 DEF Request
      <3>3. polls[k].from <= lastId + 1  BY <1>1, <1>13 DEF PollsOK, PollOK
      <3> HIDE DEF request
      <3> QED  BY <1>7, <3>1, <3>2, <3>3 DEF PollOK
    <2> QED  BY <1>5, <1>6, <2>1, <2>2, <2>3, RequestFeed
  <1> QED  BY <1>9, <1>10, <1>11, <1>12, <1>13 DEF Answer, DropRequest

\* The rows that an answer holds begin at the end of the list or before it.
LEMMA AnswerContinues ==
  ASSUME Feed, NEW k \in Poll, Deliver(k)
  PROVE  \E first \in Nat \ {0}, upto \in 0..latest :
           /\ first <= lastId + 1 /\ first <= upto + 1
           /\ first = IF polls[k].from = 0 THEN 1 ELSE polls[k].from
           /\ upto = polls[k].upto
           /\ \E rows \in Orders(first, upto) : list' = list \o rows
           /\ lastId' = IF upto > lastId THEN upto ELSE lastId
           /\ shown' = shown \cup first..upto
           /\ polls' = [polls EXCEPT ![k] = NoRequest]
           /\ \/ seenId' = lastId' /\ marks' = marks \cup {lastId'}
              \/ seenId' \in {seenId, polls[k].seen} /\ marks' = marks
           /\ polls[k].seen <= upto
           /\ UNCHANGED <<columns, pc, mailing, overlapped, faults>>
  <1> DEFINE first == IF polls[k].from = 0 THEN 1 ELSE polls[k].from
             upto  == polls[k].upto
             last  == IF first <= upto /\ upto > lastId THEN upto ELSE lastId
  <1>1. TypeOK /\ PollsOK  BY DEF Feed
  <1>2. polls[k] \in Request /\ polls[k].state = "answered"
    BY <1>1 DEF TypeOK, Deliver, Receive
  <1>3. /\ polls[k].from \in Nat /\ polls[k].seen \in Nat /\ upto \in Nat
        /\ latest \in Nat /\ lastId \in Nat /\ MaxId \in Nat
    BY <1>1, <1>2, NotificationsAssumptions DEF TypeOK, Request
  <1>4. /\ polls[k].from <= lastId + 1 /\ polls[k].seen <= upto
        /\ upto <= latest /\ polls[k].from <= upto + 1
    BY <1>1, <1>2 DEF PollsOK, PollOK
  <1>5. /\ first \in Nat \ {0} /\ first <= lastId + 1 /\ first <= upto + 1
        /\ upto \in 0..latest
    BY <1>3, <1>4
  <1>6. last = IF upto > lastId THEN upto ELSE lastId
    BY <1>3, <1>5
  <1>7. /\ \E rows \in Orders(first, upto) : list' = list \o rows
        /\ lastId' = last
        /\ shown' = shown \cup first..upto
        /\ polls' = [polls EXCEPT ![k] = NoRequest]
        /\ UNCHANGED <<columns, pc, mailing, overlapped, faults>>
    BY Zenon DEF Deliver, Receive
  <1>8. \/ seenId' = last /\ marks' = marks \cup {last}
        \/ seenId' \in {seenId, polls[k].seen} /\ marks' = marks
    BY Zenon DEF Deliver, Receive
  <1> HIDE DEF first, upto, last
  <1>9. /\ first = IF polls[k].from = 0 THEN 1 ELSE polls[k].from
        /\ upto = polls[k].upto
    BY DEF first, upto
  <1>10. polls[k].seen <= upto  BY <1>4
  <1>11. lastId' = IF upto > lastId THEN upto ELSE lastId  BY <1>6, <1>7
  <1> QED  BY <1>5, <1>7, <1>8, <1>9, <1>10, <1>11

LEMMA DeliverFeed ==
  ASSUME Feed, NEW k \in Poll, Deliver(k)
  PROVE  Feed'
  <1>1. TypeOK /\ Reported /\ SeenIsListed /\ PollsOK  BY DEF Feed
  <1>2. PICK first \in Nat \ {0}, upto \in 0..latest :
           /\ first <= lastId + 1 /\ first <= upto + 1
           /\ \E rows \in Orders(first, upto) : list' = list \o rows
           /\ lastId' = IF upto > lastId THEN upto ELSE lastId
           /\ shown' = shown \cup first..upto
           /\ polls' = [polls EXCEPT ![k] = NoRequest]
           /\ \/ seenId' = lastId' /\ marks' = marks \cup {lastId'}
              \/ seenId' \in {seenId, polls[k].seen} /\ marks' = marks
           /\ polls[k].seen <= upto
           /\ UNCHANGED <<columns, pc, mailing, overlapped, faults>>
    BY AnswerContinues
  <1>3. latest \in 0..MaxId /\ lastId \in 0..MaxId /\ seenId \in 0..MaxId /\ upto \in 0..MaxId
    BY <1>1, NotificationsAssumptions DEF TypeOK
  <1>4. polls[k] \in Request /\ polls[k].seen \in Nat  BY <1>1 DEF TypeOK, Request
  <1>5. /\ lastId' \in 0..MaxId /\ lastId' >= lastId /\ lastId' >= upto
        /\ 1..lastId' = 1..lastId \cup first..upto
    BY <1>2, <1>3, NotificationsAssumptions
  <1>6. list' \in Seq(Id) /\ Listed' = Listed \cup first..upto
    BY <1>1, <1>2, <1>3, AppendRows
  <1>7. seenId' \in 0..MaxId /\ seenId' <= lastId'
    BY <1>1, <1>2, <1>3, <1>4, <1>5, NotificationsAssumptions DEF SeenIsListed
  <1>8. UNCHANGED <<latest, lastSeen, emailSent, mails, raced, dropped, overtaken>>
    BY <1>2 DEF columns, mailing
  <1>9. TypeOK'
    <2>1. first..upto \subseteq Id
      BY <1>2, <1>3, NotificationsAssumptions DEF Id
    <2>2. polls' \in [Poll -> Request]
      <3>1. NoRequest \in Request  BY DEF NoRequest, Request
      <3> QED  BY <1>1, <1>2, <3>1 DEF TypeOK
    <2>3. marks' \subseteq 0..MaxId  BY <1>1, <1>2, <1>5 DEF TypeOK
    <2>4. shown' \subseteq Id  BY <1>1, <1>2, <2>1 DEF TypeOK
    <2>5. pc' = pc /\ overlapped' = overlapped /\ faults' = faults  BY <1>2
    <2> QED  BY <1>1, <1>5, <1>6, <1>7, <1>8, <2>2, <2>3, <2>4, <2>5 DEF TypeOK
  <1>10. Reported'
    <2>1. first..upto \subseteq 1..latest  BY <1>2, <1>3, NotificationsAssumptions
    <2>2. 1..lastId' \subseteq shown'  BY <1>1, <1>2, <1>5 DEF Reported
    <2>3. lastId' \in 1..lastId' \cup {0}  BY <1>5, NotificationsAssumptions
    <2>4. lastId' \in shown' \cup {0}  BY <2>2, <2>3
    <2> QED  BY <1>1, <1>2, <1>8, <2>1, <2>2, <2>4 DEF Reported
  <1>11. SeenIsListed'  BY <1>1, <1>5, <1>6, <1>7 DEF SeenIsListed
  <1>12. PollsOK'
    <2> SUFFICES ASSUME NEW j \in Poll PROVE PollOK(j)'  BY DEF PollsOK
    <2>1. CASE j = k
      <3>1. polls'[j] = NoRequest  BY <1>1, <1>2, <2>1 DEF TypeOK
      <3> QED  BY <3>1 DEF PollOK, NoRequest
    <2>2. CASE j # k
      <3>1. polls'[j] = polls[j]  BY <1>1, <1>2, <2>2 DEF TypeOK
      <3>2. polls[j].from \in Nat  BY <1>1 DEF TypeOK, Request
      <3>3. PollOK(j)  BY <1>1 DEF PollsOK
      <3> QED  BY <1>3, <1>5, <1>8, <3>1, <3>2, <3>3 DEF PollOK
    <2> QED  BY <2>1, <2>2
  <1> QED  BY <1>9, <1>10, <1>11, <1>12 DEF Feed

LEMMA NextFeed ==
  ASSUME Feed, [Next]_vars
  PROVE  Feed'
  <1>1. CASE \E w \in Worker : Create(w)  BY <1>1, CreateFeed
  <1>2. CASE \E k \in Poll : Ask(k) \/ Answer(k) \/ DropRequest(k)  BY <1>2, PollFeed
  <1>3. CASE \E k \in Poll : Deliver(k)  BY <1>3, DeliverFeed
  <1>4. CASE ClickBell \/ ClosePanel  BY <1>4, ClicksFeed
  <1>5. CASE \E n \in 0..MaxId : OtherPage(n) \/ ServeMark(n) \/ LoseMark(n)
    BY <1>5, MarkFeed
  <1>6. CASE UNCHANGED vars
    BY <1>6 DEF vars, columns, page, mailing, Feed, TypeOK, Reported, SeenIsListed, Listed,
                PollsOK, PollOK
  <1> QED  BY <1>1, <1>2, <1>3, <1>4, <1>5, <1>6 DEF Next
-----------------------------------------------------------------------------
(***************************************************************************)
(* The mails: what the flag, the workers and the history say of each other.*)
(***************************************************************************)
LEMMA InitMailed == Init => Mailed
  BY DEF Init, Mailed, MailedOnce, SilenceExplained

\* A step that changes nothing that Mailed speaks of.
LEMMA MailedElsewhere ==
  ASSUME TypeOK, Mailed, UNCHANGED <<emailSent, pc, mails, raced, dropped, overtaken>>,
         faults' = faults \/ faults' = faults + 1
  PROVE  Mailed'
  <1>1. faults \in Nat /\ faults' \in Nat /\ (faults > 0 => faults' > 0)
    BY NotificationsAssumptions DEF TypeOK
  <1>2. faults' = 0 => faults = 0  BY <1>1
  <1> QED  BY <1>1, <1>2 DEF Mailed, MailedOnce, SilenceExplained

LEMMA CreateMailed ==
  ASSUME TypeOK, Mailed, NEW w \in Worker, Create(w)
  PROVE  Mailed'
  <1>1. mails \in Nat /\ faults \in Nat  BY NotificationsAssumptions DEF TypeOK
  <1>2. CASE Insert(w)
    <2>1. UNCHANGED <<emailSent, mails, raced, dropped, overtaken, faults>>
      BY <1>2 DEF Insert, mailing
    <2>2. \A v \in Worker : pc'[v] = "set_flag" <=> pc[v] = "set_flag"
      BY <1>2 DEF Insert, TypeOK
    <2> QED  BY <2>1, <2>2 DEF Mailed, MailedOnce, SilenceExplained
  <1>3. CASE SelectFlag(w) /\ emailSent
    <2>1. UNCHANGED <<emailSent, mails, dropped, overtaken, faults>> /\ (raced' <=> raced)
      BY <1>3 DEF SelectFlag, columns, mailing
    <2>2. \A v \in Worker : pc'[v] = "set_flag" => pc[v] = "set_flag"
      BY <1>3 DEF SelectFlag, TypeOK
    <2> QED  BY <1>3, <2>1, <2>2 DEF Mailed, MailedOnce, SilenceExplained
  <1>4. CASE SelectFlag(w) /\ ~ emailSent /\ mails' = mails + 1 /\ UNCHANGED dropped
    <2>1. UNCHANGED <<emailSent, dropped, overtaken, faults>> /\ mails' > 0
      BY <1>1, <1>4 DEF SelectFlag, columns
    <2>2. pc'[w] = "set_flag"  BY <1>4 DEF SelectFlag, TypeOK
    <2>3. raced' <=> raced \/ \E v \in Worker : pc[v] = "set_flag"
      BY <1>4 DEF SelectFlag
    <2>4. mails > 0 => raced' \/ faults > 0
      BY <1>1, <1>4, <2>3 DEF Mailed
    <2>5. MailedOnce'  BY <1>1, <1>4, <2>1, <2>4 DEF MailedOnce
    <2> QED  BY <1>4, <2>1, <2>2, <2>5 DEF Mailed, SilenceExplained
  <1>7. CASE SelectFlag(w) /\ ~ emailSent /\ dropped' /\ UNCHANGED mails
    <2>1. UNCHANGED <<emailSent, mails, overtaken, faults>>
      BY <1>7 DEF SelectFlag, columns
    <2>2. pc'[w] = "set_flag"  BY <1>7 DEF SelectFlag, TypeOK
    <2>3. raced' <=> raced \/ \E v \in Worker : pc[v] = "set_flag"
      BY <1>7 DEF SelectFlag
    <2>4. MailedOnce'  BY <2>1, <2>3 DEF Mailed, MailedOnce
    <2> QED  BY <1>7, <2>1, <2>2, <2>4 DEF Mailed, SilenceExplained
  <1>5. CASE SetFlag(w)
    <2>1. UNCHANGED <<mails, raced, dropped, overtaken, faults>> /\ emailSent'
      BY <1>5 DEF SetFlag, mailing
    <2>2. \A v \in Worker : pc'[v] = "set_flag" => pc[v] = "set_flag"
      BY <1>5 DEF SetFlag, TypeOK
    <2>3. mails > 0 \/ dropped \/ overtaken  BY <1>5 DEF SetFlag, Mailed
    <2> QED  BY <2>1, <2>2, <2>3 DEF Mailed, MailedOnce, SilenceExplained
  <1>6. CASE Interrupt(w)
    <2>1. UNCHANGED <<emailSent, mails, raced, dropped, overtaken>> /\ faults' > 0
      BY <1>1, <1>6 DEF Interrupt, mailing
    <2>2. \A v \in Worker : pc'[v] = "set_flag" => pc[v] = "set_flag"
      BY <1>6 DEF Interrupt, TypeOK
    <2> QED  BY <2>1, <2>2 DEF Mailed, MailedOnce, SilenceExplained
  <1> QED  BY <1>2, <1>3, <1>4, <1>5, <1>6, <1>7 DEF Create, SelectFlag

LEMMA NextMailed ==
  ASSUME TypeOK, Mailed, [Next]_vars
  PROVE  Mailed'
  <1>1. CASE \E w \in Worker : Create(w)  BY <1>1, CreateMailed
  <1>2. ASSUME NEW k \in Poll, Ask(k) \/ Answer(k) \/ DropRequest(k) \/ Deliver(k)
        PROVE  Mailed'
    <2>1. /\ UNCHANGED <<emailSent, pc, mails, raced, dropped, overtaken>>
          /\ faults' = faults \/ faults' = faults + 1
      BY <1>2, Zenon DEF Ask, Answer, SelectLastSeen, SelectRows, DropRequest, Deliver, Receive,
                  columns, mailing
    <2> QED  BY <2>1, MailedElsewhere
  <1>3. ASSUME NEW n \in 0..MaxId, ClickBell \/ ClosePanel \/ OtherPage(n) \/ LoseMark(n)
        PROVE  Mailed'
    <2>1. /\ UNCHANGED <<emailSent, pc, mails, raced, dropped, overtaken>>
          /\ faults' = faults \/ faults' = faults + 1
      BY <1>3, Zenon DEF ClickBell, ClosePanel, OtherPage, LoseMark, columns, mailing
    <2> QED  BY <2>1, MailedElsewhere
  <1>4. ASSUME NEW n \in 0..MaxId, ServeMark(n)
        PROVE  Mailed'
    <2>1. mails' = 0 /\ ~ emailSent' /\ pc' = pc
      BY <1>4 DEF ServeMark
    <2>2. overtaken' <=> \E w \in Worker : pc[w] = "set_flag"
      BY <1>4 DEF ServeMark
    <2> QED  BY <2>1, <2>2 DEF Mailed, MailedOnce, SilenceExplained
  <1>5. CASE UNCHANGED vars
    BY <1>5 DEF vars, columns, mailing, Mailed, MailedOnce, SilenceExplained
  <1>6. CASE ClickBell \/ ClosePanel
    <2>1. 0 \in 0..MaxId  BY NotificationsAssumptions
    <2> QED  BY <1>3, <1>6, <2>1
  <1> QED  BY <1>1, <1>2, <1>3, <1>4, <1>5, <1>6 DEF Next
-----------------------------------------------------------------------------
(***************************************************************************)
(* The list: as long as requests do not overlap, each continues it.        *)
(***************************************************************************)
LEMMA InitOneRequest == Init => OneRequest /\ ListedOnce
  BY DEF Init, OneRequest, ListedOnce, NoRequest

\* A step that leaves the page alone, and starts no request.
LEMMA NoNewRequest ==
  ASSUME OneRequest, ListedOnce, UNCHANGED <<overlapped, list, lastId>>,
         \A k \in Poll : polls'[k].state # "none" =>
           polls[k].state # "none" /\ polls'[k].from = polls[k].from
  PROVE  OneRequest' /\ ListedOnce'
  <1>1. From' = From  BY DEF From
  <1> HIDE DEF From
  <1> QED  BY <1>1 DEF OneRequest, ListedOnce

LEMMA PollOneRequest ==
  ASSUME TypeOK, OneRequest, ListedOnce, NEW k \in Poll,
         Ask(k) \/ Answer(k) \/ DropRequest(k)
  PROVE  OneRequest' /\ ListedOnce'
  <1>1. polls \in [Poll -> Request]  BY DEF TypeOK
  <1>2. polls[k] \in Request /\ DOMAIN polls[k] = {"state", "from", "seen", "upto"}
    BY <1>1 DEF Request
  <1>3. UNCHANGED <<list, lastId>>
    BY Zenon DEF Ask, Answer, SelectLastSeen, SelectRows, DropRequest, page
  <1>4. From' = From  BY <1>3 DEF From
  <1>5. CASE Ask(k)
    <2>1. polls'[k].from = From /\ polls'[k].state = "asked"
      <3> HIDE DEF From
      <3> QED  BY <1>1, <1>5 DEF Ask, NoRequest
    <2>2. \A j \in Poll : j # k => polls'[j] = polls[j]
      BY <1>1, <1>5 DEF Ask
    <2>3. ~ overlapped' => ~ overlapped /\ \A j \in Poll : polls[j].state = "none"
      BY <1>5 DEF Ask
    <2> HIDE DEF From
    <2>4. OneRequest'  BY <1>4, <2>1, <2>2, <2>3 DEF OneRequest
    <2>5. ListedOnce'  BY <1>3, <2>3 DEF ListedOnce
    <2> QED  BY <2>4, <2>5
  <1>6. CASE Answer(k) \/ DropRequest(k)
    <2>1. overlapped' = overlapped
      BY <1>6, Zenon DEF Answer, SelectLastSeen, SelectRows, DropRequest
    <2>2. \A j \in Poll : j # k => polls'[j] = polls[j]
      BY <1>1, <1>6 DEF Answer, SelectLastSeen, SelectRows, DropRequest
    <2>3. polls'[k].state # "none" =>
            polls[k].state # "none" /\ polls'[k].from = polls[k].from
      BY <1>1, <1>2, <1>6
      DEF Answer, SelectLastSeen, SelectRows, DropRequest, NoRequest
    <2> QED  BY <1>3, <2>1, <2>2, <2>3, NoNewRequest
  <1> QED  BY <1>5, <1>6

LEMMA DeliverOneRequest ==
  ASSUME Feed, OneRequest, ListedOnce, NEW k \in Poll, Deliver(k)
  PROVE  OneRequest' /\ ListedOnce'
  <1>1. TypeOK /\ SeenIsListed  BY DEF Feed
  <1>2. PICK first \in Nat \ {0}, upto \in 0..latest :
           /\ first <= lastId + 1 /\ first <= upto + 1
           /\ first = IF polls[k].from = 0 THEN 1 ELSE polls[k].from
           /\ \E rows \in Orders(first, upto) : list' = list \o rows
           /\ polls' = [polls EXCEPT ![k] = NoRequest]
           /\ overlapped' = overlapped
    BY AnswerContinues
  <1>3. upto \in 0..MaxId /\ lastId \in Nat
    BY <1>1, NotificationsAssumptions DEF TypeOK
  <1>4. polls[k].state # "none"  BY DEF Deliver, Receive
  <1>5. ~ overlapped => first = lastId + 1
    <2> SUFFICES ASSUME ~ overlapped PROVE first = lastId + 1  OBVIOUS
    <2>1. polls[k].from = From  BY <1>4 DEF OneRequest
    <2> QED  BY <1>2, <1>3, <2>1 DEF From
  <1>6. ~ overlapped => Listed \cap first..upto = {}
    BY <1>1, <1>3, <1>5 DEF SeenIsListed
  <1>7. ListedOnce'  BY <1>1, <1>2, <1>3, <1>6, AppendRows DEF ListedOnce
  <1>8. ~ overlapped => \A j \in Poll : polls'[j].state = "none"
    <2> SUFFICES ASSUME ~ overlapped, NEW j \in Poll PROVE polls'[j].state = "none"  OBVIOUS
    <2>1. CASE j = k  BY <1>1, <1>2, <2>1 DEF TypeOK, NoRequest
    <2>2. CASE j # k
      <3>1. polls'[j] = polls[j]  BY <1>1, <1>2, <2>2 DEF TypeOK
      <3> QED  BY <1>4, <2>2, <3>1 DEF OneRequest
    <2> QED  BY <2>1, <2>2
  <1>9. OneRequest'  BY <1>2, <1>8 DEF OneRequest
  <1> QED  BY <1>7, <1>9

LEMMA NextOneRequest ==
  ASSUME Feed, OneRequest, ListedOnce, [Next]_vars
  PROVE  OneRequest' /\ ListedOnce'
  <1>1. TypeOK  BY DEF Feed
  <1>2. ASSUME UNCHANGED <<overlapped, list, lastId, polls>>
        PROVE  OneRequest' /\ ListedOnce'
    BY <1>2, NoNewRequest
  <1>3. CASE \E w \in Worker : Create(w)
    BY <1>2, <1>3 DEF Create, Insert, SelectFlag, SetFlag, Interrupt, page
  <1>4. CASE \E k \in Poll : Ask(k) \/ Answer(k) \/ DropRequest(k)
    BY <1>1, <1>4, PollOneRequest
  <1>5. CASE \E k \in Poll : Deliver(k)  BY <1>5, DeliverOneRequest
  <1>6. CASE ClickBell \/ ClosePanel  BY <1>2, <1>6 DEF ClickBell, ClosePanel
  <1>7. CASE \E n \in 0..MaxId : OtherPage(n) \/ ServeMark(n) \/ LoseMark(n)
    BY <1>2, <1>7, Zenon DEF OtherPage, ServeMark, LoseMark, page
  <1>8. CASE UNCHANGED vars  BY <1>2, <1>8 DEF vars, page
  <1> QED  BY <1>3, <1>4, <1>5, <1>6, <1>7, <1>8 DEF Next
-----------------------------------------------------------------------------
LEMMA InitIInv == Init => IInv
  BY InitFeed, InitMailed, InitOneRequest DEF IInv

LEMMA NextIInv == IInv /\ [Next]_vars => IInv'
  <1>1. Feed => TypeOK  BY DEF Feed
  <1> QED  BY <1>1, NextFeed, NextMailed, NextOneRequest DEF IInv

THEOREM IInvCorrect == Spec => []IInv
  BY InitIInv, NextIInv, PTL DEF Spec

(***************************************************************************)
(* The types hold in every reachable state.                                *)
(***************************************************************************)
THEOREM TypeCorrect == Spec => []TypeOK
  <1>1. IInv => TypeOK  BY DEF IInv, Feed
  <1> QED  BY <1>1, IInvCorrect, PTL

(***************************************************************************)
(* Between two marks there is one mail, however many workers notify the    *)
(* user, unless one read the flag while another was about to set it, or a  *)
(* statement of create_notification failed.                                *)
(***************************************************************************)
THEOREM MailedOnceCorrect == Spec => []MailedOnce
  <1>1. IInv => MailedOnce  BY DEF IInv, Mailed
  <1> QED  BY <1>1, IInvCorrect, PTL

(***************************************************************************)
(* The flag is set only after a mail since the last mark, after one that   *)
(* was dropped at a full queue, or by a worker that this mark overtook.    *)
(***************************************************************************)
THEOREM SilenceExplainedCorrect == Spec => []SilenceExplained
  <1>1. IInv => SilenceExplained  BY DEF IInv, Mailed
  <1> QED  BY <1>1, IInvCorrect, PTL

(***************************************************************************)
(* A page lists nothing twice while its requests do not overlap.           *)
(***************************************************************************)
THEOREM ListedOnceCorrect == Spec => []ListedOnce
  <1>1. IInv => ListedOnce  BY DEF IInv
  <1> QED  BY <1>1, IInvCorrect, PTL

(***************************************************************************)
(* A page takes for seen only what it has listed, and lists everything up  *)
(* to its last notification, with any number of requests under way.        *)
(***************************************************************************)
THEOREM SeenIsListedCorrect == Spec => []SeenIsListed
  <1>1. IInv => SeenIsListed  BY DEF IInv, Feed
  <1> QED  BY <1>1, IInvCorrect, PTL
-----------------------------------------------------------------------------
(***************************************************************************)
(* Each step is one of the log's, or none: an INSERT creates, an answer or *)
(* another page shows, the UPDATE of the columns records as seen.          *)
(***************************************************************************)
LEMMA LogUnchanged ==
  ASSUME UNCHANGED <<latest, shown, lastSeen>>
  PROVE  [Log!Next]_Log!log
  BY DEF Log!log

LEMMA CreateRefines ==
  ASSUME NEW w \in Worker, Create(w)
  PROVE  [Log!Next]_Log!log
  <1>1. CASE latest' = latest + 1
    <2>1. UNCHANGED <<shown, lastSeen>>
      BY DEF Create, Insert, SelectFlag, SetFlag, Interrupt, columns
    <2> QED  BY <1>1, <2>1 DEF Log!Next, Log!Create
  <1>2. CASE latest' = latest
    <2>1. UNCHANGED <<shown, lastSeen>>
      BY DEF Create, Insert, SelectFlag, SetFlag, Interrupt, columns
    <2> QED  BY <1>2, <2>1, LogUnchanged
  <1> QED  BY <1>1, <1>2 DEF Create, Insert, SelectFlag, SetFlag, Interrupt, columns

LEMMA DeliverRefines ==
  ASSUME Feed, NEW k \in Poll, Deliver(k)
  PROVE  [Log!Next]_Log!log
  <1>1. TypeOK /\ Reported  BY DEF Feed
  <1>2. PICK first \in Nat \ {0}, upto \in 0..latest :
           /\ first <= lastId + 1
           /\ shown' = shown \cup first..upto
           /\ UNCHANGED columns
    BY AnswerContinues
  <1>3. UNCHANGED <<latest, lastSeen>>  BY <1>2 DEF columns
  <1>4. latest \in Nat /\ lastId \in Nat /\ upto \in Nat
    BY <1>1, NotificationsAssumptions DEF TypeOK
  <1>5. CASE upto = 0
    <2>1. first..upto = {}  BY <1>2, <1>5
    <2> QED  BY <1>2, <1>3, <2>1, LogUnchanged
  <1>6. CASE upto # 0
    <2>1. upto \in 1..latest  BY <1>4, <1>6
    <2>2. 1..upto \subseteq 1..lastId \cup first..upto /\ first..upto \subseteq 1..upto
      BY <1>2, <1>4
    <2>3. shown' = shown \cup 1..upto  BY <1>1, <1>2, <2>2 DEF Reported
    <2> QED  BY <1>3, <2>1, <2>3 DEF Log!Next, Log!Show
  <1> QED  BY <1>5, <1>6

LEMMA MarkRefines ==
  ASSUME Feed, NEW n \in 0..MaxId, OtherPage(n) \/ ServeMark(n) \/ LoseMark(n)
  PROVE  [Log!Next]_Log!log
  <1>1. TypeOK /\ Reported  BY DEF Feed
  <1>2. latest \in Nat  BY <1>1, NotificationsAssumptions DEF TypeOK
  <1>3. CASE OtherPage(n)
    <2>1. UNCHANGED <<latest, lastSeen>> /\ shown' = shown \cup 1..n /\ n \in 0..latest
      BY <1>3 DEF OtherPage, columns
    <2>2. CASE n = 0
      <3>1. 1..n = {}  BY <2>2
      <3> QED  BY <2>1, <3>1, LogUnchanged
    <2>3. CASE n # 0
      <3>1. n \in 1..latest  BY <1>2, <2>1, <2>3
      <3> QED  BY <2>1, <3>1 DEF Log!Next, Log!Show
    <2> QED  BY <2>2, <2>3
  <1>4. CASE ServeMark(n)
    <2>1. UNCHANGED <<latest, shown>> /\ lastSeen' = n /\ n \in marks
      BY <1>4 DEF ServeMark
    <2> QED  BY <1>1, <2>1 DEF Reported, Log!Next, Log!See
  <1>5. CASE LoseMark(n)
    BY <1>5, LogUnchanged DEF LoseMark, columns
  <1> QED  BY <1>3, <1>4, <1>5

(***************************************************************************)
(* The rows, the column and the pages, with lost, repeated and overtaking  *)
(* requests, implement the log of NewsLog.                                 *)
(***************************************************************************)
THEOREM NotificationsImplementsNewsLog == Spec => ImplementsNewsLog
  <1>1. Init => Log!Init  BY DEF Init, Log!Init
  <1>2. IInv /\ [Next]_vars => [Log!Next]_Log!log
    <2> SUFFICES ASSUME IInv, [Next]_vars PROVE [Log!Next]_Log!log  OBVIOUS
    <2>1. Feed  BY DEF IInv
    <2>2. CASE \E w \in Worker : Create(w)  BY <2>2, CreateRefines
    <2>3. CASE \E k \in Poll : Ask(k) \/ Answer(k) \/ DropRequest(k)
      BY <2>3, LogUnchanged
      DEF Ask, Answer, SelectLastSeen, SelectRows, DropRequest, columns
    <2>4. CASE \E k \in Poll : Deliver(k)  BY <2>1, <2>4, DeliverRefines
    <2>5. CASE ClickBell \/ ClosePanel  BY <2>5, LogUnchanged DEF ClickBell, ClosePanel, columns
    <2>6. CASE \E n \in 0..MaxId : OtherPage(n) \/ ServeMark(n) \/ LoseMark(n)
      BY <2>1, <2>6, MarkRefines
    <2>7. CASE UNCHANGED vars  BY <2>7, LogUnchanged DEF vars, columns
    <2> QED  BY <2>2, <2>3, <2>4, <2>5, <2>6, <2>7 DEF Next
  <1> QED  BY <1>1, <1>2, IInvCorrect, PTL DEF Spec, ImplementsNewsLog, Log!Spec
-----------------------------------------------------------------------------
(***************************************************************************)
(* What the log promises, and so the rows and pages: proved of any step of *)
(* the log, and carried over by the refinement.                            *)
(***************************************************************************)
\* There is no gap before what was shown, nor before what is recorded as seen.
NoGap ==
  /\ \A n \in shown : 1..n \subseteq shown
  /\ 1..lastSeen \subseteq shown

LEMMA LogStepNoGap ==
  ASSUME TypeOK, NoGap, [Log!Next]_Log!log
  PROVE  NoGap'
  <1>1. shown \subseteq Nat /\ latest \in Nat
    BY NotificationsAssumptions DEF TypeOK, Id
  <1>2. CASE Log!Create  BY <1>2 DEF Log!Create, NoGap
  <1>3. CASE Log!Show
    <2>1. PICK n \in 1..latest : shown' = shown \cup 1..n  BY <1>3 DEF Log!Show
    <2>2. lastSeen' = lastSeen  BY <1>3 DEF Log!Show
    <2>3. n \in Nat  BY <1>1, <2>1
    <2>4. \A m \in 1..n : 1..m \subseteq 1..n  BY <2>3
    <2> QED  BY <2>1, <2>2, <2>4 DEF NoGap
  <1>4. CASE Log!See
    <2>1. shown' = shown /\ lastSeen' \in shown \cup {0}  BY <1>4 DEF Log!See
    <2>2. 1..0 = {}  OBVIOUS
    <2> QED  BY <2>1, <2>2 DEF NoGap
  <1>5. CASE UNCHANGED Log!log  BY <1>5 DEF Log!log, NoGap
  <1> QED  BY <1>2, <1>3, <1>4, <1>5 DEF Log!Next

(***************************************************************************)
(* A notification is never skipped: before one that was shown, or that is  *)
(* recorded as seen, each earlier one was shown on some page, with answers *)
(* and reports lost, repeated or in any order.                             *)
(***************************************************************************)
THEOREM NothingSkipped == Spec => []NoGap
  <1>1. Init => NoGap
    <2>1. 1..0 = {}  OBVIOUS
    <2> QED  BY <2>1 DEF Init, NoGap
  <1>2. IInv /\ NoGap /\ [Log!Next]_Log!log => NoGap'
    BY LogStepNoGap DEF IInv, Feed
  <1>3. Spec => [][Log!Next]_Log!log
    BY NotificationsImplementsNewsLog, PTL DEF ImplementsNewsLog, Log!Spec
  <1> QED  BY <1>1, <1>2, <1>3, IInvCorrect, PTL DEF Spec
-----------------------------------------------------------------------------
\* The page forgets no notification, and none that it took for seen is new again.
PageOnward == lastId' >= lastId /\ seenId' >= seenId /\ Listed \subseteq Listed'

(***************************************************************************)
(* A page never goes back, although the column may: an answer that was     *)
(* overtaken changes neither the last notification nor what is seen.       *)
(***************************************************************************)
THEOREM PagesGoOn == Spec => [][PageOnward]_vars
  <1>1. IInv /\ [Next]_vars => [PageOnward]_vars
    <2> SUFFICES ASSUME IInv, Next PROVE PageOnward  OBVIOUS
    <2>1. Feed /\ TypeOK /\ SeenIsListed  BY DEF IInv, Feed
    <2>2. lastId \in 0..MaxId /\ seenId \in 0..MaxId /\ MaxId \in Nat /\ seenId <= lastId
      BY <2>1, NotificationsAssumptions DEF TypeOK, SeenIsListed
    <2>3. CASE UNCHANGED page  BY <2>2, <2>3 DEF page, PageOnward, Listed
    <2>4. CASE ClickBell \/ ClosePanel
      BY <2>2, <2>4 DEF ClickBell, ClosePanel, PageOnward, Listed
    <2>5. ASSUME NEW k \in Poll, Deliver(k)
          PROVE  PageOnward
      <3>1. PICK first \in Nat \ {0}, upto \in 0..latest :
               /\ first <= lastId + 1 /\ first <= upto + 1
               /\ \E rows \in Orders(first, upto) : list' = list \o rows
               /\ lastId' = IF upto > lastId THEN upto ELSE lastId
        BY <2>1, <2>5, AnswerContinues
      <3>2. upto \in 0..MaxId  BY <2>1, NotificationsAssumptions DEF TypeOK
      <3>3. lastId' >= lastId  BY <2>2, <3>1, <3>2
      <3>4. seenId' >= seenId
        <4>1. /\ polls[k] \in Request /\ polls[k].seen \in Nat
          BY <2>1 DEF TypeOK, Request
        <4>2. \/ seenId' = lastId'
              \/ seenId' = IF polls[k].seen > seenId THEN polls[k].seen ELSE seenId
          BY <2>5, Zenon DEF Deliver, Receive
        <4> QED  BY <2>2, <3>1, <3>2, <3>3, <4>1, <4>2
      <3>5. Listed' = Listed \cup first..upto  BY <2>1, <3>1, <3>2, AppendRows
      <3> QED  BY <3>3, <3>4, <3>5 DEF PageOnward
    <2>6. \/ UNCHANGED page \/ ClickBell \/ ClosePanel \/ \E k \in Poll : Deliver(k)
      BY Zenon DEF Next, Create, Insert, SelectFlag, SetFlag, Interrupt, Ask, Answer,
                   SelectLastSeen, SelectRows, DropRequest, OtherPage, ServeMark, LoseMark
    <2> QED  BY <2>3, <2>4, <2>5, <2>6
  <1> QED  BY <1>1, IInvCorrect, PTL DEF Spec
-----------------------------------------------------------------------------
\* A single worker creates the user's notifications, and no statement fails.
Alone == MaxFaults = 0 /\ \E w : Worker = {w}

(***************************************************************************)
(* Then there is one mail between two marks: the second one needs another  *)
(* worker between the flag's SELECT and its UPDATE, or a fault.            *)
(***************************************************************************)
THEOREM MailedOnceAlone == ASSUME Alone PROVE Spec => [](mails <= 1)
  <1>1. Init => ~ raced  BY DEF Init
  <1>2. ~ raced /\ [Next]_vars => ~ raced'
    <2> SUFFICES ASSUME ~ raced, [Next]_vars PROVE ~ raced'  OBVIOUS
    <2>1. CASE raced' = raced  BY <2>1
    <2>2. ASSUME NEW w \in Worker, SelectFlag(w) PROVE ~ raced'
      <3>1. \A v \in Worker : pc[v] # "set_flag"  BY <2>2 DEF SelectFlag, Alone
      <3> QED  BY <2>2, <3>1 DEF SelectFlag, mailing
    <2>3. CASE \E n \in 0..MaxId : ServeMark(n)  BY <2>3 DEF ServeMark
    <2>4. \/ raced' = raced \/ \E w \in Worker : SelectFlag(w)
          \/ \E n \in 0..MaxId : ServeMark(n)
      BY Zenon DEF Next, Create, Insert, SetFlag, Interrupt, Ask, Answer, SelectLastSeen,
                   SelectRows, DropRequest, Deliver, Receive, ClickBell, ClosePanel, OtherPage,
                   LoseMark, mailing, vars
    <2> QED  BY <2>1, <2>2, <2>3, <2>4
  <1>3. IInv /\ ~ raced => mails <= 1
    BY DEF IInv, Feed, TypeOK, Mailed, MailedOnce, Alone
  <1> QED  BY <1>1, <1>2, <1>3, IInvCorrect, PTL DEF Spec
=============================================================================
