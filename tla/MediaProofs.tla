---------------------------- MODULE MediaProofs ----------------------------
(***************************************************************************)
(* Theorems of Media, for any number of workers, users, events and ids,    *)
(* and any number of faults.  The inductive invariant says what each       *)
(* worker still knows of the row and the link that it has read or written: *)
(* a row never changes until it is gone for good, and a link changes under *)
(* a worker only when that is marked as a clash.                           *)
(* On it rest the refinement of Gallery, who changes which link, and what  *)
(* is left of the histories' excuses with one worker and no fault: none.   *)
(***************************************************************************)
EXTENDS Media, TLAPS

Statement == {"idle", "select", "select_organiser", "insert", "link", "put",
              "unlink", "delete_row", "delete_object"}

Linking == CoverOp \cup PictureOp

\* The row that place p shows.
RowOf(p) == [event |-> IF p \in Event THEN p ELSE None, cover |-> p \in Event]

\* The handlers that come to statement s.
OpsAt(s) ==
  CASE s = "select"           -> {"add_media", "delete_media"} \cup Linking
    [] s = "select_organiser" -> {"delete_media"}
    [] s \in {"insert", "put"} -> {"add_media", "add_cover", "new_picture"}
    [] s = "link"             -> {"add_cover", "new_picture"}
    [] s = "unlink"           -> {"delete_cover"} \cup PictureOp
    [] s \in {"delete_row", "delete_object"} -> {"delete_cover", "delete_media"} \cup PictureOp
    [] OTHER -> {"none"}

\* What a handler has in its variables at statement s.
Fits(s, j) == s # "idle" =>
  /\ j.op \in OpsAt(s)
  /\ j.op \in PictureOp => j.place \in Pictured
  /\ j.op \notin PictureOp /\ (j.op = "delete_media" => s # "select") => j.place \in Event
  /\ s \notin {"select", "insert"} \/ j.op = "delete_media" => j.id \in MediaId
  /\ s = "select" => ~ j.clash

\* What it knows of its row.
Knows(s, j, med, dr) ==
  /\ s \in {"select_organiser", "link", "put", "unlink", "delete_row", "delete_object"} =>
       j.id \in dr
  /\ s \in {"select_organiser", "unlink", "delete_row"} /\ med[j.id] # None =>
       med[j.id].event = IF j.place \in Event THEN j.place ELSE None
  /\ s = "link" /\ med[j.id] # None => med[j.id] = RowOf(j.place)
  /\ s = "delete_object" => med[j.id] = None
  /\ s \in {"unlink", "delete_row"} /\ j.place \in Event => Organiser[j.place] = j.user

\* What it knows of the link of its place, unless another worker has linked it since.
Sees(s, j, lk) ==
  /\ j.op \in Linking /\ ~ j.clash =>
       /\ s \in {"insert", "link", "delete_row", "delete_object"} => lk[j.place] = None
       /\ s = "unlink" => lk[j.place] \in {None, j.id}
  /\ s = "link" => \A q \in Place : lk[q] # j.id

Proper(s, j, med, dr, lk) == Fits(s, j) /\ Knows(s, j, med, dr) /\ Sees(s, j, lk)

WorkersProper == \A w \in Worker : Proper(pc[w], job[w], media, drawn, link)

\* No two workers are to link the same picture.
LinkersApart == \A v, w \in Worker :
  pc[v] = "link" /\ pc[w] = "link" /\ job[v].id = job[w].id => v = w

RowsIn == \A m \in MediaId : Exists(m) =>
  m \in drawn /\ (media[m].event # None => media[m].event \in events)

LinksIn == \A p \in Place : link[p] # None => link[p] \in drawn /\ Exists(link[p])

Basis == TypeOK /\ WorkersProper /\ LinkersApart /\ RowsIn /\ LinksIn /\ LinksHold

IInv == Basis /\ NoDeadRows /\ UsedOrExplained /\ NoLeaks
-----------------------------------------------------------------------------
(***************************************************************************)
(* The workers: one moves, the others at most learn of a clash.            *)
(***************************************************************************)
Clashed(j) == [j EXCEPT !.clash = TRUE]

Moves(w, s, j) ==
  /\ s \in Statement /\ j \in Job
  /\ pc' = [pc EXCEPT ![w] = s]
  /\ job' = [job EXCEPT ![w] = j]

LEMMA NoJobType == NoJob \in Job
  BY DEF NoJob, Job

LEMMA GoToMoves ==
  ASSUME TypeOK, NEW w \in Worker, NEW s \in Statement, GoTo(w, s)
  PROVE  Moves(w, s, job[w])
  BY DEF TypeOK, GoTo, Moves

LEMMA FinishMoves ==
  ASSUME TypeOK, NEW w \in Worker, Finish(w)
  PROVE  Moves(w, "idle", NoJob)
  BY NoJobType DEF Finish, Moves, Statement

LEMMA MovesLocal ==
  ASSUME TypeOK, NEW w \in Worker, NEW s, NEW j, Moves(w, s, j)
  PROVE  /\ pc' \in [Worker -> Statement] /\ job' \in [Worker -> Job]
         /\ pc'[w] = s /\ job'[w] = j
         /\ \A v \in Worker : v # w => pc'[v] = pc[v] /\ job'[v] = job[v]
  BY DEF TypeOK, Moves, Statement

LEMMA IdleProper ==
  ASSUME NEW med, NEW dr, NEW lk
  PROVE  Proper("idle", NoJob, med, dr, lk)
  BY DEF Proper, Fits, Knows, Sees, NoJob, Linking, CoverOp, PictureOp

\* Rows only vanish, and links are only cleared.
Wears ==
  /\ drawn \subseteq drawn'
  /\ \A m \in drawn \cap MediaId : media'[m] \in {None, media[m]}
  /\ \A p \in Place : link'[p] \in {None, link[p]}

LEMMA ProperWears ==
  ASSUME TypeOK, Wears, NEW s, NEW j \in Job, Proper(s, j, media, drawn, link),
         s \in Statement
  PROVE  Proper(s, j, media', drawn', link')
  <1>1. Fits(s, j)  BY DEF Proper
  <1>2. Knows(s, j, media', drawn')
    <2>1. Knows(s, j, media, drawn)  BY DEF Proper
    <2>2. CASE j.id \in drawn \cap MediaId
      <3>1. media'[j.id] = None \/ media'[j.id] = media[j.id]  BY <2>2 DEF Wears
      <3> QED  BY <2>1, <2>2, <3>1 DEF Knows, Wears
    <2>3. CASE s \in {"idle", "select", "insert"}  BY <2>3 DEF Knows
    <2>4. s \notin {"idle", "select", "insert"} => j.id \in drawn \cap MediaId
      BY <1>1, <2>1 DEF Knows, Fits, Statement
    <2> QED  BY <2>2, <2>3, <2>4
  <1>3. Sees(s, j, link')
    <2>1. Sees(s, j, link)  BY DEF Proper
    <2>2. s # "idle" /\ j.op \in Linking => j.place \in Place
      BY <1>1 DEF Fits, Linking, CoverOp, PictureOp, Place
    <2>3. j.place \in Place => link'[j.place] \in {None, link[j.place]}  BY DEF Wears
    <2>4. s = "link" => j.id # None
      BY <1>1, MediaAssumptions DEF Fits
    <2>5. s = "link" => \A q \in Place : link'[q] # j.id
      BY <2>1, <2>4 DEF Sees, Wears
    <2> QED  BY <2>1, <2>2, <2>3, <2>5 DEF Sees
  <1> QED  BY <1>1, <1>2, <1>3 DEF Proper

\* A worker moves properly while rows vanish and links are cleared.
LEMMA MovesProper ==
  ASSUME TypeOK, WorkersProper, LinkersApart, Wears,
         NEW w \in Worker, NEW s, NEW j, Moves(w, s, j),
         Proper(s, j, media', drawn', link'),
         s = "link" => \A v \in Worker : v # w /\ pc[v] = "link" => job[v].id # j.id
  PROVE  WorkersProper' /\ LinkersApart'
  <1>1. WorkersProper'
    <2> SUFFICES ASSUME NEW v \in Worker
                 PROVE  Proper(pc'[v], job'[v], media', drawn', link')
      BY DEF WorkersProper
    <2>1. CASE v = w  BY <2>1, MovesLocal
    <2>2. CASE v # w
      <3>1. pc'[v] = pc[v] /\ job'[v] = job[v]  BY <2>2, MovesLocal
      <3>2. Proper(pc[v], job[v], media, drawn, link)  BY DEF WorkersProper
      <3>3. job[v] \in Job /\ pc[v] \in Statement  BY DEF TypeOK, Statement
      <3> QED  BY <3>1, <3>2, <3>3, ProperWears
    <2> QED  BY <2>1, <2>2
  <1>2. LinkersApart'
    <2> SUFFICES ASSUME NEW u \in Worker, NEW v \in Worker,
                        pc'[u] = "link", pc'[v] = "link", job'[u].id = job'[v].id, u # v
                 PROVE  FALSE
      BY DEF LinkersApart
    <2>1. \A x \in Worker : x # w => pc'[x] = pc[x] /\ job'[x] = job[x]  BY MovesLocal
    <2>2. pc'[w] = s /\ job'[w] = j  BY MovesLocal
    <2>3. CASE u = w  BY <2>1, <2>2, <2>3
    <2>4. CASE v = w  BY <2>1, <2>2, <2>4
    <2>5. CASE u # w /\ v # w  BY <2>1, <2>5 DEF LinkersApart
    <2> QED  BY <2>3, <2>4, <2>5
  <1> QED  BY <1>1, <1>2
-----------------------------------------------------------------------------
(***************************************************************************)
(* Each step of a worker leads it to where it knows what it has to.        *)
(***************************************************************************)
Lands(w) == \E s, j :
  /\ Moves(w, s, j)
  /\ Proper(s, j, media', drawn', link')
  /\ s = "link" => \A v \in Worker : v # w /\ pc[v] = "link" => job[v].id # j.id

LEMMA FinishLands ==
  ASSUME TypeOK, NEW w \in Worker, Finish(w)
  PROVE  Lands(w)
  BY FinishMoves, IdleProper DEF Lands

\* Where no row and no link is known of, it is enough that the statement fits.
LEMMA SelectProper ==
  ASSUME NEW j, Fits("select", j), NEW med, NEW dr, NEW lk
  PROVE  Proper("select", j, med, dr, lk)
  BY DEF Proper, Knows, Sees

LEMMA ReceiveLands ==
  ASSUME TypeOK, NEW w \in Worker,
         ReceiveCover(w) \/ ReceiveDeleteMedia(w) \/ ReceivePicture(w)
  PROVE  Lands(w)
  <1>1. ASSUME NEW new \in Job, Receive(w, new), Fits("select", new)
        PROVE  Lands(w)
    <2>1. Moves(w, "select", new)  BY <1>1 DEF Receive, Moves, Statement
    <2>2. Proper("select", new, media', drawn', link')  BY <1>1, SelectProper
    <2> QED  BY <2>1, <2>2 DEF Lands
  <1>2. CASE ReceiveCover(w)
    <2>1. PICK op \in CoverOp \cup {"add_media"}, u \in User, e \in Event :
            Receive(w, [NoJob EXCEPT !.op = op, !.user = u, !.place = e])
      BY <1>2 DEF ReceiveCover
    <2> DEFINE new == [NoJob EXCEPT !.op = op, !.user = u, !.place = e]
    <2>2. new \in Job /\ new.op = op /\ new.place = e /\ ~ new.clash
      BY DEF Job, NoJob, Place, CoverOp
    <2> HIDE DEF new
    <2>3. Fits("select", new)
      BY <2>2 DEF Fits, OpsAt, CoverOp, PictureOp, Linking
    <2> QED  BY <1>1, <2>1, <2>2, <2>3 DEF new
  <1>3. CASE ReceiveDeleteMedia(w)
    <2>1. PICK u \in User, m \in MediaId :
            Receive(w, [NoJob EXCEPT !.op = "delete_media", !.user = u, !.id = m])
      BY <1>3 DEF ReceiveDeleteMedia
    <2> DEFINE new == [NoJob EXCEPT !.op = "delete_media", !.user = u, !.id = m]
    <2>2. new \in Job /\ new.op = "delete_media" /\ new.id = m /\ ~ new.clash
      BY DEF Job, NoJob
    <2> HIDE DEF new
    <2>3. Fits("select", new)  BY <2>2 DEF Fits, OpsAt, PictureOp
    <2> QED  BY <1>1, <2>1, <2>2, <2>3 DEF new
  <1>4. CASE ReceivePicture(w)
    <2>1. PICK op \in PictureOp \ {"remove_again"}, u \in Pictured :
            Receive(w, [NoJob EXCEPT !.op = op, !.user = u, !.place = u])
      BY <1>4 DEF ReceivePicture
    <2> DEFINE new == [NoJob EXCEPT !.op = op, !.user = u, !.place = u]
    <2>2. new \in Job /\ new.op = op /\ new.place = u /\ ~ new.clash
      BY MediaAssumptions DEF Job, NoJob, Place, PictureOp
    <2> HIDE DEF new
    <2>3. Fits("select", new)
      BY <2>2 DEF Fits, OpsAt, CoverOp, PictureOp, Linking
    <2> QED  BY <1>1, <2>1, <2>2, <2>3 DEF new
  <1> QED  BY <1>2, <1>3, <1>4

\* What follows the deletion of a profile picture.
LEMMA PictureGoneLands ==
  ASSUME TypeOK, NEW w \in Worker, PictureGone(w), job[w].op \in PictureOp,
         job[w].place \in Pictured, ~ job[w].clash => link'[job[w].place] = None
  PROVE  Lands(w)
  <1>1. job[w] \in Job  BY DEF TypeOK
  <1>2. CASE job[w].op = "new_picture"
    <2> DEFINE j == [job[w] EXCEPT !.id = None]
    <2>1. /\ j \in Job /\ j.op = "new_picture" /\ j.place = job[w].place
          /\ j.clash = job[w].clash
      BY <1>1, <1>2 DEF Job
    <2>2. Moves(w, "insert", j)
      BY <1>1, <1>2, <2>1 DEF PictureGone, Moves, Statement, TypeOK
    <2> HIDE DEF j
    <2>3. Fits("insert", j)  BY <2>1 DEF Fits, OpsAt, PictureOp
    <2>4. Knows("insert", j, media', drawn')  BY DEF Knows
    <2>5. Sees("insert", j, link')  BY <2>1 DEF Sees
    <2> QED  BY <2>2, <2>3, <2>4, <2>5 DEF Lands, Proper
  <1>3. CASE job[w].op = "remove_picture"
    <2> DEFINE j == [job[w] EXCEPT !.op = "remove_again", !.id = None, !.clash = FALSE]
    <2>1. /\ j \in Job /\ j.op = "remove_again" /\ j.place = job[w].place /\ ~ j.clash
      BY <1>1 DEF Job, PictureOp
    <2>2. Moves(w, "select", j)
      BY <1>1, <1>3, <2>1 DEF PictureGone, Moves, Statement, TypeOK
    <2> HIDE DEF j
    <2>3. Fits("select", j)  BY <2>1 DEF Fits, OpsAt, PictureOp, Linking
    <2>4. Proper("select", j, media', drawn', link')  BY <2>3, SelectProper
    <2> QED  BY <2>2, <2>4 DEF Lands
  <1>4. CASE job[w].op \notin {"new_picture", "remove_picture"}
    BY <1>4, FinishLands DEF PictureGone
  <1> QED  BY <1>2, <1>3, <1>4

LEMMA SelectAddingLands ==
  ASSUME Basis, NEW w \in Worker, SelectAdding(w)
  PROVE  Lands(w)
  <1>1. TypeOK /\ Proper(pc[w], job[w], media, drawn, link)
    BY DEF Basis, WorkersProper
  <1>2. CASE Finish(w)  BY <1>1, <1>2, FinishLands
  <1>3. CASE ~ Finish(w)
    <2>1. /\ GoTo(w, "insert") /\ job[w].op \in {"add_cover", "add_media"}
          /\ job[w].op = "add_cover" => link[job[w].place] = None
          /\ UNCHANGED <<media, drawn, link>>
      BY <1>3 DEF SelectAdding, tables
    <2>2. Moves(w, "insert", job[w])  BY <1>1, <2>1, GoToMoves DEF Statement
    <2>3. job[w].place \in Event
      BY <1>1, <2>1 DEF Proper, Fits, SelectAdding, PictureOp
    <2>4. Fits("insert", job[w])
      BY <2>1, <2>3 DEF Fits, OpsAt, PictureOp
    <2>5. Sees("insert", job[w], link)
      BY <2>1 DEF Sees, Linking, CoverOp, PictureOp
    <2> QED  BY <2>1, <2>2, <2>4, <2>5 DEF Lands, Proper, Knows
  <1> QED  BY <1>2, <1>3

LEMMA SelectLinkedLands ==
  ASSUME Basis, NEW w \in Worker, SelectLinked(w)
  PROVE  Lands(w)
  <1> DEFINE p      == job[w].place
             linked == link[p]
             j      == [job[w] EXCEPT !.id = linked]
  <1>1. TypeOK /\ Proper(pc[w], job[w], media, drawn, link) /\ LinksHold /\ LinksIn
    BY DEF Basis, WorkersProper
  <1>2. /\ pc[w] = "select" /\ job[w].op \in {"delete_cover"} \cup PictureOp
        /\ UNCHANGED <<media, drawn, link>> /\ job[w] \in Job
    BY <1>1 DEF SelectLinked, tables, TypeOK
  <1>3. /\ job[w].op \in PictureOp => p \in Pictured
        /\ job[w].op = "delete_cover" => p \in Event
        /\ ~ job[w].clash
    BY <1>1, <1>2 DEF Proper, Fits, PictureOp
  <1>4. p \in Place  BY <1>2, <1>3 DEF Place
  <1>5. CASE Finish(w)  BY <1>1, <1>5, FinishLands
  <1>6. CASE linked = None /\ PictureGone(w) /\ job[w].op \in PictureOp
    BY <1>1, <1>2, <1>3, <1>6, PictureGoneLands
  <1>7. CASE linked = None /\ PictureGone(w) /\ job[w].op = "delete_cover"
    <2>1. Finish(w)  BY <1>7 DEF PictureGone
    <2> QED  BY <1>5, <2>1
  <1>8. CASE /\ linked # None /\ pc' = [pc EXCEPT ![w] = "unlink"]
             /\ job' = [job EXCEPT ![w].id = linked]
             /\ job[w].op = "delete_cover" => IsOrganiser(w)
    <2>1. linked \in MediaId /\ media[linked] = RowOf(p)
      BY <1>1, <1>4, <1>8 DEF LinksHold, TypeOK, RowOf
    <2>2. linked \in drawn  BY <1>1, <1>4, <1>8 DEF LinksIn
    <2>3. media[linked].event = IF p \in Event THEN p ELSE None
      BY <2>1 DEF RowOf
    <2>4. job[w].op = "delete_cover" => Organiser[p] = job[w].user
      BY <1>8 DEF IsOrganiser
    <2>5. job[w].op \in PictureOp => p \notin Event
      BY <1>3, MediaAssumptions
    <2> HIDE DEF linked, p
    <2>6. /\ j \in Job /\ j.op = job[w].op /\ j.place = p /\ j.id = linked /\ j.user = job[w].user
      BY <1>2, <2>1 DEF Job, p
    <2>7. Moves(w, "unlink", j)
      BY <1>1, <1>2, <1>8, <2>6 DEF Moves, Statement, TypeOK
    <2> HIDE DEF j
    <2>8. Fits("unlink", j)
      BY <1>2, <1>3, <2>1, <2>6 DEF Fits, OpsAt, PictureOp
    <2>9. Knows("unlink", j, media, drawn)
      BY <1>2, <2>2, <2>3, <2>4, <2>5, <2>6 DEF Knows
    <2>10. Sees("unlink", j, link)
      BY <2>6 DEF Sees, linked
    <2> QED  BY <1>2, <2>7, <2>8, <2>9, <2>10 DEF Lands, Proper
  <1>9. \/ Finish(w)
        \/ linked = None /\ PictureGone(w)
        \/ /\ linked # None /\ pc' = [pc EXCEPT ![w] = "unlink"]
           /\ job' = [job EXCEPT ![w].id = linked]
           /\ job[w].op = "delete_cover" => IsOrganiser(w)
    BY Zenon DEF SelectLinked
  <1> QED  BY <1>2, <1>5, <1>6, <1>7, <1>8, <1>9

LEMMA SelectMediaLands ==
  ASSUME Basis, NEW w \in Worker, SelectMedia(w) \/ SelectOrganiser(w)
  PROVE  Lands(w)
  <1>1. TypeOK /\ Proper(pc[w], job[w], media, drawn, link) /\ RowsIn
    BY DEF Basis, WorkersProper
  <1>2. CASE Finish(w)  BY <1>1, <1>2, FinishLands
  <1>3. UNCHANGED <<media, drawn, link>> /\ job[w] \in Job
    BY <1>1 DEF SelectMedia, SelectOrganiser, tables, TypeOK
  <1>4. CASE SelectMedia(w) /\ ~ Finish(w)
    <2> DEFINE m == job[w].id
               e == media[m].event
               j == [job[w] EXCEPT !.place = e]
    <2>1. /\ job[w].op = "delete_media" /\ Exists(m) /\ e # None
          /\ pc' = [pc EXCEPT ![w] = "select_organiser"]
          /\ job' = [job EXCEPT ![w].place = e]
          /\ pc[w] = "select"
      BY <1>4 DEF SelectMedia
    <2>2. m \in MediaId  BY <1>1, <2>1 DEF Proper, Fits
    <2>3. m \in drawn /\ e \in events /\ e \in Event
      BY <1>1, <2>1, <2>2 DEF RowsIn, TypeOK
    <2> HIDE DEF e
    <2>4. /\ j \in Job /\ j.op = "delete_media" /\ j.id = m /\ j.place = e
      BY <1>3, <2>1, <2>3 DEF Job, Place
    <2>5. Moves(w, "select_organiser", j)
      BY <1>1, <1>3, <2>1, <2>4 DEF Moves, Statement, TypeOK
    <2> HIDE DEF j
    <2>6. Fits("select_organiser", j)
      BY <2>2, <2>3, <2>4 DEF Fits, OpsAt, PictureOp
    <2>7. Knows("select_organiser", j, media, drawn)
      BY <2>3, <2>4 DEF Knows, e
    <2>8. Sees("select_organiser", j, link)  BY DEF Sees
    <2> QED  BY <1>3, <2>5, <2>6, <2>7, <2>8 DEF Lands, Proper
  <1>5. CASE SelectOrganiser(w) /\ ~ Finish(w)
    <2>1. pc[w] = "select_organiser" /\ IsOrganiser(w) /\ GoTo(w, "delete_row")
      BY <1>5 DEF SelectOrganiser
    <2>2. job[w].op = "delete_media" /\ job[w].place \in Event /\ job[w].id \in MediaId
      BY <1>1, <2>1 DEF Proper, Fits, OpsAt, PictureOp
    <2>3. Moves(w, "delete_row", job[w])  BY <1>1, <2>1, GoToMoves DEF Statement
    <2>4. Fits("delete_row", job[w])  BY <2>2 DEF Fits, OpsAt, PictureOp
    <2>5. Knows("delete_row", job[w], media, drawn)
      BY <1>1, <2>1 DEF Proper, Knows, IsOrganiser
    <2>6. Sees("delete_row", job[w], link)
      BY <2>2 DEF Sees, Linking, CoverOp, PictureOp
    <2> QED  BY <1>3, <2>3, <2>4, <2>5, <2>6 DEF Lands, Proper
  <1> QED  BY <1>2, <1>4, <1>5

\* A picture gets its row; the id is new, so nobody else is to link it.
LEMMA InsertLands ==
  ASSUME Basis, NEW w \in Worker, Insert(w)
  PROVE  Lands(w)
  <1>1. /\ TypeOK /\ Proper(pc[w], job[w], media, drawn, link) /\ LinksIn
        /\ \A v \in Worker : Proper(pc[v], job[v], media, drawn, link)
    BY DEF Basis, WorkersProper
  <1>2. CASE Finish(w)  BY <1>1, <1>2, FinishLands
  <1>3. CASE ~ Finish(w)
    <2>1. PICK m \in MediaId \ drawn :
            /\ media' = [media EXCEPT ![m] = NewRow(w)]
            /\ drawn' = drawn \cup {m}
            /\ pc' = [pc EXCEPT ![w] = IF job[w].op = "add_media" THEN "put" ELSE "link"]
            /\ job' = [job EXCEPT ![w].id = m]
            /\ pc[w] = "insert" /\ link' = link
      BY <1>3 DEF Insert
    <2> DEFINE s == IF job[w].op = "add_media" THEN "put" ELSE "link"
               j == [job[w] EXCEPT !.id = m]
    <2>2. /\ job[w].op \in {"add_media", "add_cover", "new_picture"}
          /\ job[w].op = "new_picture" => job[w].place \in Pictured
          /\ job[w].op # "new_picture" => job[w].place \in Event
          /\ job[w] \in Job
      BY <1>1, <2>1 DEF Proper, Fits, OpsAt, PictureOp, TypeOK
    <2>3. /\ j \in Job /\ j.op = job[w].op /\ j.id = m /\ j.place = job[w].place
          /\ j.clash = job[w].clash
      BY <2>2 DEF Job
    <2>4. Moves(w, s, j)
      BY <1>1, <2>1, <2>3 DEF Moves, Statement, TypeOK
    <2>5. media'[m] = NewRow(w)  BY <1>1, <2>1 DEF TypeOK
    <2>6. s = "link" => NewRow(w) = RowOf(job[w].place)
      BY <2>2, MediaAssumptions DEF NewRow, RowOf
    <2>7. Sees(s, j, link)
      <3>1. s = "link" => \A q \in Place : link[q] # m
        BY <2>1, <1>1, MediaAssumptions DEF LinksIn
      <3>2. s = "link" => job[w].op \in Linking /\ j.op \in Linking
        BY <2>2, <2>3 DEF Linking, CoverOp, PictureOp
      <3>3. s = "link" /\ ~ j.clash => link[j.place] = None
        BY <1>1, <2>1, <2>3, <3>2 DEF Proper, Sees
      <3>4. s \in {"link", "put"}  OBVIOUS
      <3> HIDE DEF s, j
      <3> QED  BY <2>3, <3>1, <3>3, <3>4 DEF Sees
    <2>8. \A v \in Worker : v # w /\ pc[v] = "link" => job[v].id # m
      BY <1>1, <2>1 DEF Proper, Knows
    <2>9. s \in {"put", "link"} /\ (s = "link" => j.op # "add_media")
      BY <2>3
    <2> HIDE DEF s, j
    <2>10. Fits(s, j)
      BY <2>1, <2>2, <2>3, <2>9 DEF Fits, OpsAt, PictureOp
    <2>11. Knows(s, j, media', drawn')
      BY <2>1, <2>3, <2>5, <2>6, <2>9 DEF Knows
    <2> QED  BY <2>1, <2>3, <2>4, <2>7, <2>8, <2>10, <2>11 DEF Lands, Proper
  <1> QED  BY <1>2, <1>3

\* Statements that end the handler, or leave it where it is.
LEMMA PutLands ==
  ASSUME Basis, NEW w \in Worker, Put(w) \/ FailS3(w)
  PROVE  Lands(w)
  <1>1. TypeOK  BY DEF Basis
  <1>2. Finish(w)  BY DEF Put, FailS3
  <1> QED  BY <1>1, <1>2, FinishLands

LEMMA FailInsertLands ==
  ASSUME Basis, Wears, NEW w \in Worker, FailInsert(w)
  PROVE  Lands(w)
  <1>1. TypeOK /\ Proper(pc[w], job[w], media, drawn, link)  BY DEF Basis, WorkersProper
  <1>2. CASE Finish(w)  BY <1>1, <1>2, FinishLands
  <1>3. CASE UNCHANGED work
    <2>1. Moves(w, pc[w], job[w]) /\ job[w] \in Job /\ pc[w] \in Statement
      BY <1>1, <1>3 DEF work, Moves, TypeOK, Statement
    <2>2. Proper(pc[w], job[w], media', drawn', link')  BY <1>1, <2>1, ProperWears
    <2>3. pc[w] # "link"  BY DEF FailInsert
    <2> QED  BY <2>1, <2>2, <2>3 DEF Lands
  <1> QED  BY <1>2, <1>3 DEF FailInsert

LEMMA UnlinkLands ==
  ASSUME Basis, NEW w \in Worker, Unlink(w)
  PROVE  Lands(w)
  <1>1. TypeOK /\ Proper(pc[w], job[w], media, drawn, link)  BY DEF Basis, WorkersProper
  <1>2. /\ pc[w] = "unlink" /\ GoTo(w, "delete_row") /\ UNCHANGED <<media, drawn>>
        /\ link' = [link EXCEPT ![job[w].place] = None]
    BY DEF Unlink, Relink
  <1>3. /\ job[w].op \in {"delete_cover"} \cup PictureOp /\ job[w].id \in MediaId
        /\ job[w].op \in PictureOp => job[w].place \in Pictured
        /\ job[w].op = "delete_cover" => job[w].place \in Event
    BY <1>1, <1>2 DEF Proper, Fits, OpsAt, PictureOp
  <1>4. link'[job[w].place] = None
    BY <1>1, <1>2, <1>3 DEF TypeOK, Place
  <1>5. Moves(w, "delete_row", job[w])  BY <1>1, <1>2, GoToMoves DEF Statement
  <1>6. Fits("delete_row", job[w])  BY <1>3 DEF Fits, OpsAt, PictureOp
  <1>7. Knows("delete_row", job[w], media, drawn)
    BY <1>1, <1>2 DEF Proper, Knows
  <1>8. Sees("delete_row", job[w], link')  BY <1>4 DEF Sees
  <1> QED  BY <1>2, <1>5, <1>6, <1>7, <1>8 DEF Lands, Proper

LEMMA DeleteRowLands ==
  ASSUME Basis, Wears, NEW w \in Worker, DeleteRow(w)
  PROVE  Lands(w)
  <1>1. TypeOK /\ Proper(pc[w], job[w], media, drawn, link)  BY DEF Basis, WorkersProper
  <1>2. /\ pc[w] = "delete_row" /\ GoTo(w, "delete_object") /\ drawn' = drawn
        /\ media' = [m \in MediaId |-> IF m \in {job[w].id} THEN None ELSE media[m]]
    BY DEF DeleteRow, DeleteRows
  <1>3. Fits("delete_object", job[w]) /\ job[w].id \in MediaId
    BY <1>1, <1>2 DEF Proper, Fits, OpsAt, PictureOp
  <1>4. Moves(w, "delete_object", job[w])  BY <1>1, <1>2, GoToMoves DEF Statement
  <1>5. media'[job[w].id] = None  BY <1>2, <1>3
  <1>6. Knows("delete_object", job[w], media', drawn')
    BY <1>1, <1>2, <1>5 DEF Proper, Knows
  <1>7. Sees("delete_object", job[w], link')
    <2>1. job[w].op \in Linking => job[w].place \in Place
      BY <1>3 DEF Fits, OpsAt, Linking, CoverOp, PictureOp, Place
    <2>2. job[w].op \in Linking => link'[job[w].place] \in {None, link[job[w].place]}
      BY <2>1 DEF Wears
    <2> QED  BY <1>1, <1>2, <2>2 DEF Proper, Sees
  <1> QED  BY <1>3, <1>4, <1>6, <1>7 DEF Lands, Proper

LEMMA DeleteObjectLands ==
  ASSUME Basis, NEW w \in Worker, DeleteObject(w)
  PROVE  Lands(w)
  <1>1. TypeOK /\ Proper(pc[w], job[w], media, drawn, link)  BY DEF Basis, WorkersProper
  <1>2. pc[w] = "delete_object" /\ UNCHANGED link
    BY DEF DeleteObject, tables
  <1>3. CASE job[w].op \in PictureOp
    <2>1. PictureGone(w) /\ job[w].place \in Pictured
      BY <1>1, <1>2, <1>3 DEF DeleteObject, Proper, Fits
    <2>2. ~ job[w].clash => link[job[w].place] = None
      BY <1>1, <1>2, <1>3 DEF Proper, Sees, Linking
    <2> QED  BY <1>1, <1>2, <1>3, <2>1, <2>2, PictureGoneLands
  <1>4. CASE job[w].op \notin PictureOp
    BY <1>1, <1>4, FinishLands DEF DeleteObject
  <1> QED  BY <1>3, <1>4

LEMMA LoseConnectionLands ==
  ASSUME Basis, NEW w \in Worker, LoseConnection(w)
  PROVE  Lands(w)
  <1>1. TypeOK /\ Proper(pc[w], job[w], media, drawn, link)  BY DEF Basis, WorkersProper
  <1>2. CASE Finish(w)  BY <1>1, <1>2, FinishLands
  <1>3. CASE ~ Finish(w)
    <2> DEFINE op    == IF job[w].op = "remove_again" THEN "remove_picture" ELSE job[w].op
               id    == IF job[w].op = "delete_media" THEN job[w].id ELSE None
               place == IF job[w].op = "delete_media" THEN None ELSE job[w].place
               j     == [job[w] EXCEPT !.again = TRUE, !.clash = FALSE, !.op = op,
                                       !.id = id, !.place = place]
    <2>1. pc[w] # "idle" /\ job[w] \in Job
      BY <1>1, <1>3 DEF LoseConnection, TypeOK
    <2>2. /\ pc' = [pc EXCEPT ![w] = "select"]
          /\ job' = [job EXCEPT ![w] = j]
      BY <1>1, <1>3, <2>1 DEF LoseConnection, TypeOK, Job
    <2>3. /\ job[w].op \in {"add_media", "delete_media"} \cup Linking
          /\ job[w].op \in PictureOp => job[w].place \in Pictured
          /\ job[w].op \notin PictureOp \cup {"delete_media"} => job[w].place \in Event
          /\ job[w].op = "delete_media" => job[w].id \in MediaId
      BY <1>1, <2>1 DEF Proper, Fits, OpsAt, PictureOp, CoverOp, Linking, TypeOK
    <2>4. /\ op \in {"add_media", "delete_media"} \cup Linking
          /\ op \in PictureOp => place \in Pictured
          /\ op \notin PictureOp \cup {"delete_media"} => place \in Event
          /\ op = "delete_media" => id \in MediaId
          /\ id \in MediaId \cup {None} /\ place \in Place \cup {None}
      BY <2>3 DEF PictureOp, CoverOp, Linking, Place
    <2> HIDE DEF op, id, place
    <2>5. j \in Job /\ j.op = op /\ j.id = id /\ j.place = place /\ ~ j.clash
      BY <2>1, <2>4 DEF Job, Linking
    <2>6. Moves(w, "select", j)  BY <2>2, <2>5 DEF Moves, Statement
    <2> HIDE DEF j
    <2>7. Fits("select", j)  BY <2>4, <2>5 DEF Fits, OpsAt
    <2> QED  BY <2>6, <2>7, SelectProper DEF Lands
  <1> QED  BY <1>2, <1>3
-----------------------------------------------------------------------------
(***************************************************************************)
(* The tables: rows are added under new ids, vanish with their links, and  *)
(* places are unlinked or linked.                                          *)
(***************************************************************************)
Tables ==
  /\ events \subseteq Event
  /\ media \in [MediaId -> Row \cup {None}]
  /\ link \in [Place -> MediaId \cup {None}]
  /\ drawn \subseteq MediaId
  /\ RowsIn /\ LinksIn /\ LinksHold

LEMMA BasisTables == Basis => Tables
  BY DEF Basis, Tables, TypeOK

\* Worker w adds the row of picture m.
Adds(w, m) ==
  /\ m \in MediaId \ drawn
  /\ job[w].place \in events \cup Pictured
  /\ media' = [media EXCEPT ![m] = NewRow(w)]
  /\ drawn' = drawn \cup {m}
  /\ UNCHANGED <<events, link>>

LEMMA AddsTables ==
  ASSUME Tables, NEW w \in Worker, NEW m, Adds(w, m)
  PROVE  Tables' /\ Wears
  <1>1. NewRow(w) \in Row /\ (NewRow(w).event # None => NewRow(w).event \in events)
    <2>1. job[w].place \in Event => job[w].place \in events
      BY MediaAssumptions DEF Adds
    <2> QED  BY <2>1 DEF NewRow, Row
  <1>2. /\ m \in MediaId /\ m \notin drawn
        /\ media' \in [MediaId -> Row \cup {None}]
        /\ \A i \in MediaId : media'[i] = IF i = m THEN NewRow(w) ELSE media[i]
    BY <1>1 DEF Adds, Tables
  <1>3. drawn' \subseteq MediaId /\ drawn \subseteq drawn' /\ m \in drawn'
    BY <1>2 DEF Adds, Tables
  <1>4. UNCHANGED <<events, link>>  BY DEF Adds
  <1>5. RowsIn'  BY <1>1, <1>2, <1>3, <1>4 DEF RowsIn, Exists, Tables
  <1>6. LinksIn'  BY <1>2, <1>3, <1>4 DEF LinksIn, Exists, Tables
  <1>7. LinksHold'
    <2> SUFFICES ASSUME NEW p \in Place, link[p] # None
                 PROVE  media'[link[p]] = media[link[p]]
      BY <1>4 DEF LinksHold, Tables
    <2>1. link[p] \in MediaId /\ link[p] # m  BY <1>2 DEF Tables, LinksIn
    <2> QED  BY <1>2, <2>1
  <1>8. Wears  BY <1>2, <1>3, <1>4 DEF Wears
  <1> QED  BY <1>2, <1>3, <1>4, <1>5, <1>6, <1>7, <1>8 DEF Tables

LEMMA DeletesTables ==
  ASSUME Tables, NEW gone, None \notin gone, DeleteRows(gone), drawn' = drawn,
         events' \subseteq events,
         \A m \in MediaId : Exists(m) /\ media[m].event \in events \ events' => m \in gone
  PROVE  Tables' /\ Wears
  <1>1. \A m \in MediaId : media'[m] = IF m \in gone THEN None ELSE media[m]
    BY DEF DeleteRows
  <1>2. \A p \in Place : link'[p] = IF link[p] \in gone THEN None ELSE link[p]
    BY DEF DeleteRows
  <1>3. media' \in [MediaId -> Row \cup {None}] /\ link' \in [Place -> MediaId \cup {None}]
    BY DEF DeleteRows, Tables
  <1>4. RowsIn'  BY <1>1 DEF RowsIn, Exists, Tables
  <1>5. LinksIn'  BY <1>1, <1>2 DEF LinksIn, Exists, Tables
  <1>6. LinksHold'
    <2> SUFFICES ASSUME NEW p \in Place, link'[p] # None
                 PROVE  /\ media'[link'[p]] = RowOf(p)
                        /\ \A q \in Place : link'[q] = link'[p] => q = p
      BY DEF LinksHold, RowOf
    <2>1. link'[p] = link[p] /\ link[p] \notin gone /\ link[p] \in MediaId
      BY <1>2 DEF Tables
    <2>2. media'[link[p]] = media[link[p]]  BY <1>1, <2>1
    <2>3. /\ media[link[p]] = RowOf(p)
          /\ \A q \in Place : link[q] = link[p] => q = p
      BY <2>1 DEF Tables, LinksHold, RowOf
    <2>4. \A q \in Place : link'[q] = link[p] => link[q] = link[p]
      BY <1>2, <2>1
    <2> QED  BY <2>1, <2>2, <2>3, <2>4
  <1>7. Wears  BY <1>1, <1>2 DEF Wears
  <1> QED  BY <1>3, <1>4, <1>5, <1>6, <1>7 DEF Tables

LEMMA UnlinkTables ==
  ASSUME Tables, NEW p, link' = [link EXCEPT ![p] = None], UNCHANGED <<events, media, drawn>>
  PROVE  Tables' /\ Wears
  <1>1. \A q \in Place : link'[q] \in {None, link[q]}  BY DEF Tables
  <1>2. link' \in [Place -> MediaId \cup {None}]  BY DEF Tables
  <1>3. LinksIn' /\ RowsIn'  BY <1>1 DEF LinksIn, RowsIn, Exists, Tables
  <1>4. LinksHold'
    <2> SUFFICES ASSUME NEW q \in Place, link'[q] # None
                 PROVE  /\ media[link'[q]] = RowOf(q)
                        /\ \A r \in Place : link'[r] = link'[q] => r = q
      BY DEF LinksHold, RowOf
    <2>1. link'[q] = link[q]  BY <1>1
    <2>2. \A r \in Place : link'[r] = link'[q] => link[r] = link[q]  BY <1>1, <2>1
    <2> QED  BY <2>1, <2>2 DEF Tables, LinksHold, RowOf
  <1>5. Wears  BY <1>1 DEF Wears, Tables
  <1> QED  BY <1>2, <1>3, <1>4, <1>5 DEF Tables

LEMMA QuietTables ==
  ASSUME Tables, UNCHANGED <<events, media, link, drawn>>
  PROVE  Tables' /\ Wears
  BY DEF Tables, RowsIn, Exists, LinksIn, LinksHold, Wears

\* The UPDATE that links: the place is free for it, or the row would not be lost.
Linked(w) ==
  /\ pc[w] = "link"
  /\ job[w].place \in events \cup Pictured /\ Exists(job[w].id)
  /\ Relink(w, job[w].id)
  /\ pc' = [pc EXCEPT ![w] = "put"]
  /\ job' = [v \in Worker |->
       IF v # w /\ job[v].place = job[w].place /\ pc[v] \notin {"select", "put"}
       THEN [job[v] EXCEPT !.clash = TRUE] ELSE job[v]]
  /\ UNCHANGED <<events, media, bucket, drawn, faults>>

LEMMA LinkedTables ==
  ASSUME Basis, NEW w \in Worker, Linked(w)
  PROVE  Tables'
  <1> DEFINE p == job[w].place
             m == job[w].id
  <1>1. Tables /\ Proper("link", job[w], media, drawn, link)
    BY BasisTables DEF Basis, WorkersProper, Linked
  <1>2. m \in MediaId /\ m \in drawn /\ p \in Place /\ m # None
    BY <1>1, MediaAssumptions DEF Proper, Fits, Knows, OpsAt, PictureOp, Place
  <1>3. media[m] = RowOf(p) /\ \A q \in Place : link[q] # m
    BY <1>1 DEF Proper, Knows, Sees, Linked, Exists
  <1>4. UNCHANGED <<events, media, drawn>> /\ link' = [link EXCEPT ![p] = m]
    BY DEF Linked, Relink
  <1> HIDE DEF p, m
  <1>5. \A q \in Place : link'[q] = IF q = p THEN m ELSE link[q]
    BY <1>1, <1>2, <1>4 DEF Tables
  <1>6. link' \in [Place -> MediaId \cup {None}]  BY <1>1, <1>2, <1>4 DEF Tables
  <1>7. RowsIn'  BY <1>1, <1>2, <1>4 DEF RowsIn, Exists, Tables
  <1>8. LinksIn'
    <2>1. Exists(m)  BY DEF Linked, m
    <2> QED  BY <1>1, <1>2, <1>4, <1>5, <2>1 DEF LinksIn, Exists, Tables
  <1>9. LinksHold'
    <2> SUFFICES ASSUME NEW q \in Place, link'[q] # None
                 PROVE  /\ media[link'[q]] = RowOf(q)
                        /\ \A r \in Place : link'[r] = link'[q] => r = q
      BY <1>4 DEF LinksHold, RowOf
    <2>1. CASE q = p  BY <1>3, <1>5, <2>1
    <2>2. CASE q # p
      <3>1. link'[q] = link[q] /\ link[q] # m  BY <1>3, <1>5, <2>2
      <3>2. \A r \in Place : link'[r] = link[q] => r # p /\ link[r] = link[q]
        BY <1>5, <3>1
      <3> QED  BY <1>1, <3>1, <3>2 DEF Tables, LinksHold, RowOf
    <2> QED  BY <2>1, <2>2
  <1> QED  BY <1>1, <1>4, <1>6, <1>7, <1>8, <1>9 DEF Tables

LEMMA LinkedWorkers ==
  ASSUME Basis, NEW w \in Worker, Linked(w)
  PROVE  /\ WorkersProper' /\ LinkersApart'
         /\ pc' \in [Worker -> Statement] /\ job' \in [Worker -> Job]
  <1> DEFINE p == job[w].place
             m == job[w].id
  <1>1. TypeOK /\ LinkersApart /\ Tables
        /\ \A v \in Worker : Proper(pc[v], job[v], media, drawn, link)
    BY BasisTables DEF Basis, WorkersProper
  <1>2. /\ pc[w] = "link" /\ UNCHANGED <<media, drawn>>
        /\ link' = [link EXCEPT ![p] = m]
        /\ pc' = [pc EXCEPT ![w] = "put"]
    BY DEF Linked, Relink
  <1>3. \A v \in Worker : job'[v] =
          IF v # w /\ job[v].place = p /\ pc[v] \notin {"select", "put"}
          THEN [job[v] EXCEPT !.clash = TRUE] ELSE job[v]
    BY DEF Linked
  <1>4. \A v \in Worker : job[v] \in Job  BY <1>1 DEF TypeOK
  <1>5. p \in Place  BY <1>1, <1>2 DEF Proper, Fits, OpsAt, PictureOp, Place
  <1>6. \A q \in Place : link'[q] = IF q = p THEN m ELSE link[q]
    BY <1>2, <1>5 DEF Tables, TypeOK, Basis
  <1>7. \A v \in Worker :
          /\ job'[v] \in Job
          /\ job'[v].op = job[v].op /\ job'[v].place = job[v].place
          /\ job'[v].id = job[v].id /\ job'[v].user = job[v].user
          /\ ~ job'[v].clash => job'[v] = job[v]
          /\ pc[v] = "select" => job'[v] = job[v]
    <2> SUFFICES ASSUME NEW v \in Worker
                 PROVE  /\ job'[v] \in Job
                        /\ job'[v].op = job[v].op /\ job'[v].place = job[v].place
                        /\ job'[v].id = job[v].id /\ job'[v].user = job[v].user
                        /\ ~ job'[v].clash => job'[v] = job[v]
                        /\ pc[v] = "select" => job'[v] = job[v]
      OBVIOUS
    <2>1. CASE job'[v] = job[v]  BY <1>4, <2>1
    <2>2. CASE job'[v] = [job[v] EXCEPT !.clash = TRUE] /\ pc[v] # "select"
      BY <1>4, <2>2 DEF Job
    <2> QED  BY <1>3, <2>1, <2>2
  <1>8. job' \in [Worker -> Job]
    <2>1. job' = [v \in Worker |-> job'[v]]  BY DEF Linked
    <2> QED  BY <1>7, <2>1
  <1>9. pc' \in [Worker -> Statement] /\ pc'[w] = "put"
        /\ \A v \in Worker : v # w => pc'[v] = pc[v]
    BY <1>1, <1>2 DEF TypeOK, Statement
  <1>10. LinkersApart'
    <2>1. \A v \in Worker : pc'[v] = "link" => pc[v] = "link"  BY <1>9
    <2> QED  BY <1>1, <1>7, <2>1 DEF LinkersApart
  <1>11. WorkersProper'
    <2> SUFFICES ASSUME NEW v \in Worker
                 PROVE  Proper(pc'[v], job'[v], media', drawn', link')
      BY DEF WorkersProper
    <2>1. CASE v = w
      <3>1. job'[v] = job[v] /\ pc'[v] = "put"  BY <1>3, <1>9, <2>1
      <3>2. Proper("link", job[v], media, drawn, link)  BY <1>1, <1>2, <2>1
      <3>3. Fits("put", job[v])  BY <3>2 DEF Proper, Fits, OpsAt, PictureOp
      <3>4. Knows("put", job[v], media', drawn')  BY <1>2, <3>2 DEF Proper, Knows
      <3>5. Sees("put", job[v], link')  BY DEF Sees
      <3> QED  BY <3>1, <3>3, <3>4, <3>5 DEF Proper
    <2>2. CASE v # w
      <3>1. pc'[v] = pc[v] /\ Proper(pc[v], job[v], media, drawn, link)
        BY <1>1, <1>9, <2>2
      <3>2. Fits(pc[v], job'[v])
        BY <1>7, <3>1 DEF Proper, Fits
      <3>3. Knows(pc[v], job'[v], media', drawn')
        BY <1>2, <1>7, <3>1 DEF Proper, Knows
      <3>4. Sees(pc[v], job'[v], link')
        <4>1. pc[v] = "link" => \A q \in Place : link'[q] # job'[v].id
          <5>1. pc[v] = "link" => job[v].id # m  BY <1>1, <1>2, <2>2 DEF LinkersApart
          <5> QED  BY <1>6, <1>7, <3>1, <5>1 DEF Proper, Sees
        <4>2. ASSUME job'[v].op \in Linking, ~ job'[v].clash,
                     pc[v] \in {"insert", "link", "delete_row", "delete_object", "unlink"}
              PROVE  link'[job'[v].place] = link[job[v].place] /\ job'[v] = job[v]
          <5>1. job'[v] = job[v]  BY <1>7, <4>2
          <5>2. job[v].place # p
            <6>1. job[v].place = p => job'[v] = [job[v] EXCEPT !.clash = TRUE]
              BY <1>3, <2>2, <4>2
            <6>2. [job[v] EXCEPT !.clash = TRUE].clash  BY <1>4 DEF Job
            <6> QED  BY <4>2, <6>1, <6>2
          <5>3. job[v].place \in Place
            BY <3>1, <4>2, <5>1 DEF Proper, Fits, Linking, CoverOp, PictureOp, Place
          <5> QED  BY <1>6, <5>1, <5>2, <5>3
        <4> QED  BY <3>1, <4>1, <4>2 DEF Proper, Sees
      <3> QED  BY <3>1, <3>2, <3>3, <3>4 DEF Proper
    <2> QED  BY <2>1, <2>2
  <1> QED  BY <1>8, <1>9, <1>10, <1>11
-----------------------------------------------------------------------------
(***************************************************************************)
(* The basis is kept by every step.                                        *)
(***************************************************************************)
LEMMA IdAt ==
  ASSUME Basis, NEW w \in Worker, pc[w] \notin {"idle", "select", "insert"}
  PROVE  job[w].id \in MediaId /\ job[w].id \in drawn
  <1>1. TypeOK /\ Proper(pc[w], job[w], media, drawn, link)  BY DEF Basis, WorkersProper
  <1>2. pc[w] \in {"select_organiser", "link", "put", "unlink", "delete_row", "delete_object"}
    BY <1>1 DEF TypeOK
  <1> QED  BY <1>1, <1>2 DEF Proper, Fits, Knows

LEMMA InsertAdds ==
  ASSUME NEW w \in Worker, Insert(w) \/ FailInsert(w)
  PROVE  (\E m : Adds(w, m)) \/ UNCHANGED <<events, media, link, drawn>>
  <1>1. CASE Insert(w)
    <2>1. CASE job[w].place \in events \cup Pictured /\ drawn # MediaId
      <3>1. PICK m \in MediaId \ drawn :
              media' = [media EXCEPT ![m] = NewRow(w)] /\ drawn' = drawn \cup {m}
        BY <1>1, <2>1, Zenon DEF Insert
      <3>2. UNCHANGED <<events, link>>  BY <1>1 DEF Insert
      <3> QED  BY <2>1, <3>1, <3>2 DEF Adds
    <2>2. CASE ~ (job[w].place \in events \cup Pictured /\ drawn # MediaId)
      BY <1>1, <2>2 DEF Insert
    <2> QED  BY <2>1, <2>2
  <1>2. CASE FailInsert(w)
    <2>1. UNCHANGED <<events, link>> /\ job[w].place \in events \cup Pictured
      BY <1>2 DEF FailInsert
    <2>2. CASE UNCHANGED <<media, drawn>>  BY <2>1, <2>2
    <2>3. CASE \E m \in MediaId \ drawn :
                 media' = [media EXCEPT ![m] = NewRow(w)] /\ drawn' = drawn \cup {m}
      BY <2>1, <2>3 DEF Adds
    <2> QED  BY <1>2, <2>2, <2>3 DEF FailInsert
  <1> QED  BY <1>1, <1>2

\* The UPDATE of Link, or what it does when the event or the row is gone.
LEMMA LinkCases ==
  ASSUME Basis, NEW w \in Worker, Link(w)
  PROVE  \/ Linked(w)
         \/ /\ UNCHANGED <<events, media, link, drawn, strays, bucket>> /\ Lands(w)
            /\ job[w].place \notin events \cup Pictured \/ ~ Exists(job[w].id)
  <1>1. TypeOK /\ Proper(pc[w], job[w], media, drawn, link) /\ pc[w] = "link"
    BY DEF Basis, WorkersProper, Link
  <1>2. CASE job[w].place \notin events \cup Pictured
    <2>1. GoTo(w, "put") /\ UNCHANGED <<events, media, link, drawn, strays, bucket>>
      BY <1>2, Zenon DEF Link
    <2>2. Moves(w, "put", job[w])  BY <1>1, <2>1, GoToMoves DEF Statement
    <2>3. Fits("put", job[w])  BY <1>1 DEF Proper, Fits, OpsAt, PictureOp
    <2>4. Knows("put", job[w], media, drawn)  BY <1>1 DEF Proper, Knows
    <2>5. Sees("put", job[w], link)  BY DEF Sees
    <2>6. Lands(w)  BY <2>1, <2>2, <2>3, <2>4, <2>5 DEF Lands, Proper
    <2> QED  BY <1>2, <2>1, <2>6
  <1>3. CASE job[w].place \in events \cup Pictured /\ ~ Exists(job[w].id)
    <2>1. Finish(w) /\ UNCHANGED <<events, media, link, drawn, strays, bucket>>
      BY <1>3, Zenon DEF Link
    <2> QED  BY <1>1, <1>3, <2>1, FinishLands
  <1>4. CASE job[w].place \in events \cup Pictured /\ Exists(job[w].id)
    <2>1. /\ Relink(w, job[w].id)
          /\ pc' = [pc EXCEPT ![w] = "put"]
          /\ job' = [v \in Worker |->
               IF v # w /\ job[v].place = job[w].place /\ pc[v] \notin {"select", "put"}
               THEN [job[v] EXCEPT !.clash = TRUE] ELSE job[v]]
          /\ UNCHANGED <<events, media, bucket, drawn, faults>>
      BY <1>4 DEF Link
    <2> QED  BY <1>1, <1>4, <2>1 DEF Linked
  <1> QED  BY <1>2, <1>3, <1>4

\* What a step does to the tables.
LEMMA StepTables ==
  ASSUME Basis, NEW w \in Worker, Step(w)
  PROVE  \/ Linked(w)
         \/ /\ Tables' /\ Wears /\ Lands(w)
            /\ \/ UNCHANGED <<events, media, link, drawn>>
               \/ (\E m : Adds(w, m)) /\ (Insert(w) \/ FailInsert(w))
               \/ Unlink(w) \/ DeleteRow(w)
  <1>1. Tables /\ TypeOK  BY BasisTables DEF Basis
  <1>2. CASE Insert(w) \/ FailInsert(w)
    <2>1. Tables' /\ Wears  BY <1>1, <1>2, InsertAdds, AddsTables, QuietTables
    <2>2. Lands(w)  BY <1>2, <2>1, InsertLands, FailInsertLands
    <2> QED  BY <1>2, <2>1, <2>2, InsertAdds
  <1>3. CASE Link(w)
    <2>1. CASE UNCHANGED <<events, media, link, drawn>> /\ Lands(w)
      BY <1>1, <2>1, QuietTables
    <2> QED  BY <1>3, <2>1, LinkCases
  <1>4. CASE Unlink(w)
    <2>1. Tables' /\ Wears
      BY <1>1, <1>4, UnlinkTables DEF Unlink, Relink
    <2> QED  BY <1>4, <2>1, UnlinkLands
  <1>5. CASE DeleteRow(w)
    <2>1. job[w].id \in MediaId  BY <1>5, IdAt DEF DeleteRow
    <2>2. DeleteRows({job[w].id}) /\ drawn' = drawn /\ events' = events
      BY <1>5 DEF DeleteRow
    <2>3. None \notin {job[w].id}  BY <2>1, MediaAssumptions
    <2>4. Tables' /\ Wears  BY <1>1, <2>2, <2>3, DeletesTables
    <2> QED  BY <1>5, <2>4, DeleteRowLands
  <1>6. ASSUME UNCHANGED <<events, media, link, drawn>>, Lands(w)
        PROVE  /\ Tables' /\ Wears /\ Lands(w)
               /\ UNCHANGED <<events, media, link, drawn>>
    BY <1>1, <1>6, QuietTables
  <1>7. CASE ReceiveCover(w) \/ ReceiveDeleteMedia(w) \/ ReceivePicture(w)
    <2>1. UNCHANGED <<events, media, link, drawn>>
      BY <1>7 DEF ReceiveCover, ReceiveDeleteMedia, ReceivePicture, Receive, tables
    <2> QED  BY <1>1, <1>6, <1>7, <2>1, ReceiveLands
  <1>8. CASE SelectAdding(w) \/ SelectLinked(w) \/ SelectMedia(w) \/ SelectOrganiser(w)
    <2>1. UNCHANGED <<events, media, link, drawn>>
      BY <1>8, Zenon DEF SelectAdding, SelectLinked, SelectMedia, SelectOrganiser, tables
    <2> QED  BY <1>6, <1>8, <2>1, SelectAddingLands, SelectLinkedLands, SelectMediaLands
  <1>9. CASE Put(w) \/ FailS3(w) \/ DeleteObject(w) \/ LoseConnection(w)
    <2>1. UNCHANGED <<events, media, link, drawn>>
      BY <1>9, Zenon DEF Put, FailS3, DeleteObject, LoseConnection, tables
    <2> QED  BY <1>6, <1>9, <2>1, PutLands, DeleteObjectLands, LoseConnectionLands
  <1> QED  BY <1>2, <1>3, <1>4, <1>5, <1>7, <1>8, <1>9 DEF Step

\* The bucket and the history keep their types.
LEMMA StepRest ==
  ASSUME Basis, NEW w \in Worker, Step(w)
  PROVE  /\ stored' \subseteq MediaId /\ urls' \subseteq MediaId
         /\ strays' \subseteq MediaId /\ faults' \in 0..MaxFaults
  <1>1. TypeOK /\ Proper(pc[w], job[w], media, drawn, link)  BY DEF Basis, WorkersProper
  <1>2. pc[w] \notin {"idle", "select", "insert"} => job[w].id \in MediaId  BY IdAt
  <1>3. stored' \subseteq MediaId /\ urls' \subseteq MediaId
    <2>1. CASE Put(w) \/ FailS3(w) \/ DeleteObject(w)
      BY <1>1, <1>2, <2>1 DEF Put, FailS3, DeleteObject, TypeOK
    <2>2. \/ Put(w) \/ FailS3(w) \/ DeleteObject(w)
          \/ UNCHANGED <<stored, urls>>
      BY Zenon
      DEF Step, ReceiveCover, ReceiveDeleteMedia, ReceivePicture, Receive, SelectAdding,
          SelectLinked, SelectMedia, SelectOrganiser, Insert, FailInsert, Link, Unlink,
          DeleteRow, LoseConnection, bucket
    <2> QED  BY <1>1, <2>1, <2>2 DEF TypeOK
  <1>4. strays' \subseteq MediaId
    <2>1. CASE Put(w) \/ FailS3(w)
      BY <1>1, <1>2, <2>1 DEF Put, FailS3, TypeOK
    <2>2. CASE FailInsert(w)  BY <1>1, <2>2 DEF FailInsert, TypeOK
    <2>3. CASE Link(w) \/ Unlink(w)
      <3>1. job[w].place \in Place
        BY <1>1, <2>3 DEF Link, Unlink, Proper, Fits, OpsAt, PictureOp, Place
      <3>2. {link[job[w].place]} \ {None} \subseteq MediaId  BY <1>1, <3>1 DEF TypeOK
      <3>3. strays' = strays \/ strays' = strays \cup ({link[job[w].place]} \ {None})
        BY <2>3, Zenon DEF Link, Unlink, Relink
      <3> QED  BY <1>1, <3>2, <3>3 DEF TypeOK
    <2>4. CASE LoseConnection(w)
      <3>1. HalfDone(w) => job[w].id \in MediaId  BY <1>2 DEF HalfDone
      <3>2. strays' = IF HalfDone(w) THEN strays \cup {job[w].id} ELSE strays
        BY <2>4 DEF LoseConnection
      <3> QED  BY <1>1, <3>1, <3>2 DEF TypeOK
    <2>5. \/ Put(w) \/ FailS3(w) \/ FailInsert(w) \/ Link(w) \/ Unlink(w) \/ LoseConnection(w)
          \/ strays' = strays
      BY Zenon
      DEF Step, ReceiveCover, ReceiveDeleteMedia, ReceivePicture, Receive, SelectAdding,
          SelectLinked, SelectMedia, SelectOrganiser, Insert, DeleteRow, DeleteObject
    <2> QED  BY <1>1, <2>1, <2>2, <2>3, <2>4, <2>5 DEF TypeOK
  <1>5. faults' \in 0..MaxFaults
    <2>1. faults' = faults \/ (faults < MaxFaults /\ faults' = faults + 1)
      BY Zenon
      DEF Step, ReceiveCover, ReceiveDeleteMedia, ReceivePicture, Receive, SelectAdding,
          SelectLinked, SelectMedia, SelectOrganiser, Insert, FailInsert, Link, Put, Unlink,
          DeleteRow, DeleteObject, LoseConnection, FailS3
    <2> QED  BY <1>1, <2>1, MediaAssumptions DEF TypeOK
  <1> QED  BY <1>3, <1>4, <1>5

LEMMA StepBasis ==
  ASSUME Basis, NEW w \in Worker, Step(w)
  PROVE  Basis'
  <1>1. TypeOK /\ WorkersProper /\ LinkersApart  BY DEF Basis
  <1>2. /\ Tables' /\ WorkersProper' /\ LinkersApart'
        /\ pc' \in [Worker -> Statement] /\ job' \in [Worker -> Job]
    <2>1. CASE Linked(w)  BY <2>1, LinkedTables, LinkedWorkers
    <2>2. CASE Tables' /\ Wears /\ Lands(w)
      <3>1. PICK s, j :
              /\ Moves(w, s, j)
              /\ Proper(s, j, media', drawn', link')
              /\ s = "link" => \A v \in Worker : v # w /\ pc[v] = "link" => job[v].id # j.id
        BY <2>2 DEF Lands
      <3>2. pc' \in [Worker -> Statement] /\ job' \in [Worker -> Job]
        BY <1>1, <3>1, MovesLocal
      <3>3. WorkersProper' /\ LinkersApart'
        BY <1>1, <2>2, <3>1, MovesProper
      <3> QED  BY <2>2, <3>2, <3>3
    <2> QED  BY <2>1, <2>2, StepTables
  <1>3. TypeOK'  BY <1>2, StepRest DEF TypeOK, Tables, Statement
  <1> QED  BY <1>2, <1>3 DEF Basis, Tables

LEMMA InitBasis == Init => Basis
  <1> SUFFICES ASSUME Init PROVE Basis  OBVIOUS
  <1>1. TypeOK
    <2>1. 0 \in 0..MaxFaults  BY MediaAssumptions
    <2>2. job \in [Worker -> Job]  BY NoJobType DEF Init
    <2> QED  BY <2>1, <2>2 DEF Init, TypeOK
  <1>2. WorkersProper  BY IdleProper DEF Init, WorkersProper
  <1>3. LinkersApart /\ RowsIn /\ LinksIn /\ LinksHold
    BY DEF Init, LinkersApart, RowsIn, Exists, LinksIn, LinksHold
  <1> QED  BY <1>1, <1>2, <1>3 DEF Basis

LEMMA OutsideBasis ==
  ASSUME Basis, \/ \E m \in MediaId : Upload(m)
                \/ \E e \in Event : DeleteEvent(e)
                \/ UNCHANGED vars
  PROVE  Basis'
  <1>1. Tables /\ TypeOK /\ WorkersProper /\ LinkersApart  BY BasisTables DEF Basis
  <1>2. UNCHANGED <<pc, job, drawn, faults, urls>>
    BY Zenon DEF Upload, DeleteEvent, vars, tables, bucket, work
  <1>3. Tables' /\ Wears
    <2>1. CASE UNCHANGED <<events, media, link, drawn>>  BY <1>1, <2>1, QuietTables
    <2>2. ASSUME NEW e \in Event, DeleteEvent(e)
          PROVE  Tables' /\ Wears
      <3> DEFINE gone == {m \in MediaId : Exists(m) /\ media[m].event = e}
      <3>1. None \notin gone  BY MediaAssumptions
      <3>2. DeleteRows(gone) /\ drawn' = drawn /\ events' = events \ {e}
        BY <2>2 DEF DeleteEvent
      <3>3. \A m \in MediaId : Exists(m) /\ media[m].event \in events \ events' => m \in gone
        BY <3>2
      <3> HIDE DEF gone
      <3> QED  BY <1>1, <3>1, <3>2, <3>3, DeletesTables
    <2>3. (\E m \in MediaId : Upload(m)) \/ UNCHANGED vars => UNCHANGED <<events, media, link, drawn>>
      BY Zenon DEF Upload, vars, tables
    <2> QED  BY <2>1, <2>2, <2>3
  <1>4. stored' \subseteq MediaId /\ strays' \subseteq MediaId
    BY <1>1 DEF Upload, DeleteEvent, vars, bucket, TypeOK
  <1>5. TypeOK'  BY <1>1, <1>2, <1>3, <1>4 DEF TypeOK, Tables
  <1>6. WorkersProper'
    <2> SUFFICES ASSUME NEW v \in Worker
                 PROVE  Proper(pc[v], job[v], media', drawn', link')
      BY <1>2 DEF WorkersProper
    <2>1. Proper(pc[v], job[v], media, drawn, link) /\ job[v] \in Job /\ pc[v] \in Statement
      BY <1>1 DEF WorkersProper, TypeOK, Statement
    <2> QED  BY <1>1, <1>3, <2>1, ProperWears
  <1>7. LinkersApart'  BY <1>1, <1>2 DEF LinkersApart
  <1> QED  BY <1>3, <1>5, <1>6, <1>7 DEF Basis, Tables

LEMMA NextBasis ==
  ASSUME Basis, [Next]_vars
  PROVE  Basis'
  BY StepBasis, OutsideBasis DEF Next
-----------------------------------------------------------------------------
(***************************************************************************)
(* What a step of a worker leaves behind.                                  *)
(***************************************************************************)
LEMMA StepAlone ==
  ASSUME Basis, NEW w \in Worker, Step(w)
  PROVE  \A v \in Worker : v # w =>
           pc'[v] = pc[v] /\ job'[v].id = job[v].id /\ job'[v].op = job[v].op
  <1>1. TypeOK  BY DEF Basis
  <1>2. CASE Linked(w)
    <2>1. pc' = [pc EXCEPT ![w] = "put"]  BY <1>2 DEF Linked
    <2> SUFFICES ASSUME NEW v \in Worker, v # w
                 PROVE  /\ pc'[v] = pc[v]
                        /\ job'[v].id = job[v].id /\ job'[v].op = job[v].op
      OBVIOUS
    <2>2. pc'[v] = pc[v] /\ job[v] \in Job  BY <1>1, <2>1 DEF TypeOK
    <2>3. job'[v] \in {job[v], [job[v] EXCEPT !.clash = TRUE]}  BY <1>2 DEF Linked
    <2> QED  BY <2>2, <2>3 DEF Job
  <1>3. CASE Lands(w)
    <2>1. PICK s, j : Moves(w, s, j)  BY <1>3 DEF Lands
    <2> QED  BY <1>1, <2>1, MovesLocal
  <1> QED  BY <1>2, <1>3, StepTables

\* A worker has taken m from its place and deletes it next.
Unlinked(w, m) == At(w, m, {"delete_row"}) /\ job[w].op # "delete_media"

\* Picture m after the step of w: what no longer explains it is replaced.
Explains(w, m) ==
  /\ m \in strays => m \in strays'
  /\ media[m] = None /\ media'[m] # None =>
       \/ m \in strays'
       \/ At(w, m, {"link"})'
       \/ At(w, m, {"put"})' /\ ~ media'[m].cover /\ media'[m].event # None
  /\ media[m] # None /\ media'[m] = None => At(w, m, {"delete_object"})'
  /\ m \in stored \ stored' => media'[m] = None
  /\ m \in stored' \ stored => media'[m] # None \/ m \in strays'
  /\ At(w, m, {"link", "put"}) /\ media'[m] # None =>
       m \in stored' \cup strays' \/ At(w, m, {"link", "put"})'
  /\ At(w, m, {"delete_object"}) => m \notin stored' \/ m \in strays'
  /\ Unlinked(w, m) => media'[m] = None \/ m \in strays'
  /\ At(w, m, {"link"}) /\ media'[m] # None =>
       m \in strays' \/ \E p \in Place : link'[p] = m
  /\ \A p \in Place : link[p] = m /\ link'[p] # m /\ media'[m] # None =>
       m \in strays' \/ Unlinked(w, m)'

\* Where nothing but the worker changes, and it is not at the row or the object.
LEMMA QuietExplains ==
  ASSUME NEW w \in Worker, NEW m \in MediaId, UNCHANGED <<media, link, stored, strays>>,
         pc[w] \in {"idle", "select", "select_organiser", "insert"}
  PROVE  Explains(w, m)
  BY DEF Explains, At, Unlinked

LEMMA InsertExplains ==
  ASSUME Basis, NEW w \in Worker, NEW m \in MediaId, Insert(w) \/ FailInsert(w)
  PROVE  Explains(w, m)
  <1>1. TypeOK /\ RowsIn /\ Proper("insert", job[w], media, drawn, link) /\ pc[w] = "insert"
    BY DEF Basis, WorkersProper, Insert, FailInsert
  <1>2. UNCHANGED <<link, stored>> /\ strays \subseteq strays'
    BY DEF Insert, FailInsert, bucket
  <1>3. CASE UNCHANGED <<media, strays>>  BY <1>1, <1>2, <1>3, QuietExplains
  <1>4. ASSUME NEW i \in MediaId \ drawn, media' = [media EXCEPT ![i] = NewRow(w)],
               \/ i \in strays'
               \/ At(w, i, {"link"})'
               \/ At(w, i, {"put"})' /\ ~ NewRow(w).cover /\ NewRow(w).event # None
        PROVE  Explains(w, m)
    <2>1. media[i] = None  BY <1>1 DEF RowsIn, Exists
    <2>2. \A n \in MediaId : media'[n] = IF n = i THEN NewRow(w) ELSE media[n]
      BY <1>1, <1>4 DEF TypeOK
    <2> QED  BY <1>1, <1>2, <1>4, <2>1, <2>2 DEF Explains, At, Unlinked
  <1>5. CASE Insert(w) /\ job[w].place \in events \cup Pictured /\ drawn # MediaId
    <2>1. PICK i \in MediaId \ drawn :
            /\ media' = [media EXCEPT ![i] = NewRow(w)]
            /\ pc' = [pc EXCEPT ![w] = IF job[w].op = "add_media" THEN "put" ELSE "link"]
            /\ job' = [job EXCEPT ![w].id = i]
      BY <1>5, Zenon DEF Insert
    <2>2. job'[w].id = i /\ pc'[w] = IF job[w].op = "add_media" THEN "put" ELSE "link"
      BY <1>1, <2>1 DEF TypeOK, Job
    <2>3. job[w].op = "add_media" => ~ NewRow(w).cover /\ NewRow(w).event # None
      BY <1>1, MediaAssumptions DEF NewRow, Proper, Fits, PictureOp
    <2> QED  BY <1>4, <2>1, <2>2, <2>3 DEF At
  <1>6. CASE Insert(w) /\ ~ (job[w].place \in events \cup Pictured /\ drawn # MediaId)
    BY <1>3, <1>6 DEF Insert
  <1>7. CASE FailInsert(w)
    <2>1. CASE UNCHANGED <<media, strays>>  BY <1>3, <2>1
    <2>2. CASE \E i \in MediaId \ drawn :
                 media' = [media EXCEPT ![i] = NewRow(w)] /\ strays' = strays \cup {i}
      <3>1. PICK i \in MediaId \ drawn :
              media' = [media EXCEPT ![i] = NewRow(w)] /\ strays' = strays \cup {i}
        BY <2>2
      <3> QED  BY <1>4, <3>1
    <2> QED  BY <1>7, <2>1, <2>2, Zenon DEF FailInsert
  <1> QED  BY <1>5, <1>6, <1>7

LEMMA LinkedExplains ==
  ASSUME Basis, NEW w \in Worker, NEW m \in MediaId, Linked(w)
  PROVE  Explains(w, m)
  <1> DEFINE p == job[w].place
             i == job[w].id
  <1>1. TypeOK /\ Proper("link", job[w], media, drawn, link) /\ pc[w] = "link"
    BY DEF Basis, WorkersProper, Linked
  <1>2. UNCHANGED <<media, stored>> /\ pc'[w] = "put" /\ job'[w] = job[w]
    BY <1>1 DEF Linked, bucket, TypeOK
  <1>3. /\ link' = [link EXCEPT ![p] = i]
        /\ strays' = IF job[w].clash /\ link[p] # i
                     THEN strays \cup ({link[p]} \ {None}) ELSE strays
    BY DEF Linked, Relink
  <1>4. p \in Place /\ i \in MediaId /\ job[w].op \in Linking
    BY <1>1 DEF Proper, Fits, OpsAt, PictureOp, CoverOp, Linking, Place
  <1>5. ~ job[w].clash => link[p] = None
    BY <1>1, <1>4 DEF Proper, Sees
  <1> HIDE DEF p, i
  <1>6. \A q \in Place : link'[q] = IF q = p THEN i ELSE link[q]
    BY <1>1, <1>3, <1>4 DEF TypeOK
  <1>7. \A q \in Place : link[q] = m /\ link'[q] # m => m \in strays'
    <2> SUFFICES ASSUME link[p] = m, i # m  PROVE m \in strays'
      BY <1>6
    <2>1. m # None  BY MediaAssumptions
    <2> QED  BY <1>3, <1>5, <2>1
  <1>8. strays \subseteq strays'  BY <1>3
  <1>9. link'[p] = i  BY <1>4, <1>6
  <1> QED  BY <1>1, <1>2, <1>4, <1>7, <1>8, <1>9 DEF Explains, At, Unlinked, i

LEMMA LinkExplains ==
  ASSUME Basis, NEW w \in Worker, NEW m \in MediaId, Link(w)
  PROVE  Explains(w, m)
  <1>1. /\ TypeOK /\ RowsIn /\ Proper("link", job[w], media, drawn, link) /\ pc[w] = "link"
    BY DEF Basis, WorkersProper, Link
  <1>2. CASE Linked(w)  BY <1>2, LinkedExplains
  <1>3. CASE /\ UNCHANGED <<events, media, link, drawn, strays, bucket>>
             /\ job[w].place \notin events \cup Pictured \/ ~ Exists(job[w].id)
    <2>1. media[job[w].id] = None
      <3>1. CASE ~ Exists(job[w].id)  BY <3>1 DEF Exists
      <3>2. CASE job[w].place \notin events \cup Pictured
        <4>1. job[w].place \in Event /\ job[w].id \in MediaId /\ job[w].place # None
          BY <1>1, <3>2, MediaAssumptions DEF Proper, Fits, OpsAt, PictureOp
        <4>2. media[job[w].id] # None => media[job[w].id].event = job[w].place
          BY <1>1, <4>1 DEF Proper, Knows, RowOf
        <4> QED  BY <1>1, <3>2, <4>1, <4>2 DEF RowsIn, Exists
      <3> QED  BY <1>3, <3>1, <3>2
    <2>2. UNCHANGED <<media, link, stored, strays>>  BY <1>3 DEF bucket
    <2> QED  BY <1>1, <2>1, <2>2 DEF Explains, At, Unlinked
  <1> QED  BY <1>2, <1>3, LinkCases

LEMMA PutExplains ==
  ASSUME Basis, NEW w \in Worker, NEW m \in MediaId, Put(w)
  PROVE  Explains(w, m)
  <1>1. /\ pc[w] = "put" /\ UNCHANGED <<media, link>>
        /\ stored' = stored \cup {job[w].id}
        /\ strays' = IF Exists(job[w].id) THEN strays ELSE strays \cup {job[w].id}
    BY DEF Put, tables
  <1> QED  BY <1>1 DEF Explains, At, Unlinked, Exists

LEMMA UnlinkExplains ==
  ASSUME Basis, NEW w \in Worker, NEW m \in MediaId, Unlink(w)
  PROVE  Explains(w, m)
  <1> DEFINE p == job[w].place
             i == job[w].id
  <1>1. TypeOK /\ Proper("unlink", job[w], media, drawn, link) /\ pc[w] = "unlink"
    BY DEF Basis, WorkersProper, Unlink
  <1>2. UNCHANGED <<media, stored>> /\ pc'[w] = "delete_row" /\ job' = job
    BY <1>1 DEF Unlink, GoTo, bucket, TypeOK
  <1>3. /\ link' = [link EXCEPT ![p] = None]
        /\ strays' = IF job[w].clash /\ link[p] # i
                     THEN strays \cup ({link[p]} \ {None}) ELSE strays
    BY DEF Unlink, Relink
  <1>4. p \in Place /\ i \in MediaId /\ job[w].op \in Linking
    BY <1>1 DEF Proper, Fits, OpsAt, PictureOp, CoverOp, Linking, Place
  <1>5. ~ job[w].clash => link[p] \in {None, i}
    BY <1>1, <1>4 DEF Proper, Sees
  <1> HIDE DEF p, i
  <1>6. \A q \in Place : link'[q] = IF q = p THEN None ELSE link[q]
    BY <1>1, <1>3, <1>4 DEF TypeOK
  <1>7. \A q \in Place : link[q] = m /\ link'[q] # m =>
          m \in strays' \/ Unlinked(w, m)'
    <2> SUFFICES ASSUME link[p] = m, m # i  PROVE m \in strays'
      BY <1>2, <1>4, <1>6 DEF At, Unlinked, Linking, CoverOp, PictureOp, i
    <2>1. m # None  BY MediaAssumptions
    <2> QED  BY <1>3, <1>5, <2>1
  <1>8. strays \subseteq strays'  BY <1>3
  <1> QED  BY <1>1, <1>2, <1>7, <1>8 DEF Explains, At, Unlinked

LEMMA DeleteRowExplains ==
  ASSUME Basis, NEW w \in Worker, NEW m \in MediaId, DeleteRow(w)
  PROVE  Explains(w, m)
  <1>1. TypeOK  BY DEF Basis
  <1>2. /\ UNCHANGED <<stored, strays>> /\ pc[w] = "delete_row"
        /\ pc'[w] = "delete_object" /\ job' = job
    BY <1>1 DEF DeleteRow, GoTo, bucket, TypeOK
  <1>3. /\ \A n \in MediaId : media'[n] = IF n = job[w].id THEN None ELSE media[n]
        /\ \A p \in Place : link'[p] = IF link[p] = job[w].id THEN None ELSE link[p]
    BY DEF DeleteRow, DeleteRows
  <1> QED  BY <1>2, <1>3 DEF Explains, At, Unlinked

LEMMA DeleteObjectExplains ==
  ASSUME Basis, NEW w \in Worker, NEW m \in MediaId, DeleteObject(w)
  PROVE  Explains(w, m)
  <1>1. Proper("delete_object", job[w], media, drawn, link)
    BY DEF Basis, WorkersProper, DeleteObject
  <1>2. UNCHANGED <<media, link, strays>> /\ pc[w] = "delete_object"
        /\ stored' = stored \ {job[w].id}
    BY DEF DeleteObject, tables
  <1>3. media[job[w].id] = None  BY <1>1 DEF Proper, Knows
  <1> QED  BY <1>2, <1>3 DEF Explains, At, Unlinked

LEMMA LoseConnectionExplains ==
  ASSUME Basis, NEW w \in Worker, NEW m \in MediaId, LoseConnection(w)
  PROVE  Explains(w, m)
  <1>1. UNCHANGED <<media, link, stored>>  BY DEF LoseConnection, tables, bucket
  <1>2. strays \subseteq strays' /\ (HalfDone(w) /\ job[w].id = m => m \in strays')
    BY DEF LoseConnection
  <1>3. At(w, m, {"link", "put", "delete_object"}) \/ Unlinked(w, m) =>
          HalfDone(w) /\ job[w].id = m
    BY DEF At, Unlinked, HalfDone
  <1> QED  BY <1>1, <1>2, <1>3 DEF Explains, At

LEMMA FailS3Explains ==
  ASSUME Basis, NEW w \in Worker, NEW m \in MediaId, FailS3(w)
  PROVE  Explains(w, m)
  <1>1. Proper(pc[w], job[w], media, drawn, link)  BY DEF Basis, WorkersProper
  <1>2. /\ UNCHANGED <<media, link>> /\ strays \subseteq strays'
        /\ job[w].id = m => m \in strays'
    BY DEF FailS3, tables
  <1>3. m \in stored \ stored' => pc[w] = "delete_object" /\ job[w].id = m
    BY DEF FailS3
  <1>4. m \in stored' \ stored => job[w].id = m  BY DEF FailS3
  <1>5. m \in stored \ stored' => media[m] = None
    BY <1>1, <1>3 DEF Proper, Knows
  <1> QED  BY <1>2, <1>4, <1>5 DEF Explains, At, Unlinked

LEMMA StepExplains ==
  ASSUME Basis, NEW w \in Worker, NEW m \in MediaId, Step(w)
  PROVE  Explains(w, m)
  <1>1. CASE ReceiveCover(w) \/ ReceiveDeleteMedia(w) \/ ReceivePicture(w)
    <2>1. UNCHANGED <<media, link, stored, strays>> /\ pc[w] = "idle"
      BY <1>1 DEF ReceiveCover, ReceiveDeleteMedia, ReceivePicture, Receive, tables, bucket
    <2> QED  BY <2>1, QuietExplains
  <1>2. CASE SelectAdding(w) \/ SelectLinked(w) \/ SelectMedia(w) \/ SelectOrganiser(w)
    <2>1. UNCHANGED <<media, link, stored, strays>>
      BY <1>2, Zenon
      DEF SelectAdding, SelectLinked, SelectMedia, SelectOrganiser, tables, bucket
    <2>2. pc[w] \in {"select", "select_organiser"}
      BY <1>2, Zenon DEF SelectAdding, SelectLinked, SelectMedia, SelectOrganiser
    <2> QED  BY <2>1, <2>2, QuietExplains
  <1> QED
    BY <1>1, <1>2, InsertExplains, LinkExplains, PutExplains, UnlinkExplains,
       DeleteRowExplains, DeleteObjectExplains, LoseConnectionExplains, FailS3Explains
    DEF Step
-----------------------------------------------------------------------------
(***************************************************************************)
(* Every picture stays explained.                                          *)
(***************************************************************************)
Explained == NoDeadRows /\ UsedOrExplained /\ NoLeaks

\* A row that remains is not changed.
LEMMA RowsStay ==
  ASSUME Basis, NEW w \in Worker, Step(w), NEW m \in MediaId, media[m] # None,
         media'[m] # None
  PROVE  media'[m] = media[m]
  <1>1. m \in drawn  BY DEF Basis, RowsIn, Exists
  <1>2. CASE Linked(w)  BY <1>2 DEF Linked
  <1>3. CASE Wears  BY <1>1, <1>3 DEF Wears
  <1> QED  BY <1>2, <1>3, StepTables

LEMMA StepExplained ==
  ASSUME Basis, Explained, NEW w \in Worker, Step(w)
  PROVE  Explained'
  <1>1. \A m \in MediaId : Explains(w, m)  BY StepExplains
  <1>2. \A v \in Worker : \A m, steps : v # w /\ At(v, m, steps) => At(v, m, steps)'
    BY StepAlone DEF At
  <1>3. stored' \subseteq MediaId  BY StepRest
  <1>7. \A v \in Worker : \A m : v # w /\ Holds(v, m) => Holds(v, m)'
    BY StepAlone DEF Holds, At
  <1>8. \A m : /\ At(w, m, {"link"}) => Holds(w, m)
               /\ At(w, m, {"link"})' => Holds(w, m)'
    <2>1. Basis'  BY StepBasis
    <2>2. Proper(pc[w], job[w], media, drawn, link) /\ Proper(pc[w], job[w], media, drawn, link)'
      BY <2>1 DEF Basis, WorkersProper
    <2> QED  BY <2>2 DEF Proper, Fits, OpsAt, Holds, At, Linking, CoverOp, PictureOp
  <1>4. NoDeadRows'
    <2> SUFFICES ASSUME NEW m \in MediaId, media'[m] # None
                 PROVE  \/ m \in stored' \cup strays'
                        \/ \E v \in Worker : At(v, m, {"link", "put"})'
      BY DEF NoDeadRows, Exists
    <2>1. Explains(w, m)  BY <1>1
    <2>2. CASE media[m] = None  BY <2>1, <2>2 DEF Explains, At
    <2>3. CASE m \in stored \cup strays  BY <2>1, <2>3 DEF Explains
    <2>4. CASE \E v \in Worker : At(v, m, {"link", "put"})
      <3>1. PICK v \in Worker : At(v, m, {"link", "put"})  BY <2>4
      <3>2. CASE v # w  BY <1>2, <3>1, <3>2
      <3>3. CASE v = w  BY <2>1, <3>1, <3>3 DEF Explains
      <3> QED  BY <3>2, <3>3
    <2> QED  BY <2>2, <2>3, <2>4 DEF Explained, NoDeadRows, Exists
  <1>5. UsedOrExplained'
    <2> SUFFICES ASSUME NEW m \in MediaId, media'[m] # None,
                        media'[m].cover \/ media'[m].event = None
                 PROVE  \/ m \in strays' \/ \E p \in Place : link'[p] = m
                        \/ \E v \in Worker : Holds(v, m)'
      BY DEF UsedOrExplained, Holds, Exists
    <2>1. Explains(w, m)  BY <1>1
    <2>2. CASE media[m] = None
      <3>1. m \in strays' \/ At(w, m, {"link"})'  BY <2>1, <2>2 DEF Explains
      <3>2. At(w, m, {"link"})' => Holds(w, m)'  BY <1>8
      <3> QED  BY <3>1, <3>2
    <2>3. CASE media[m] # None
      <3>1. media[m].cover \/ media[m].event = None  BY <2>3, RowsStay
      <3>2. CASE m \in strays  BY <2>1, <3>2 DEF Explains
      <3>3. CASE \E p \in Place : link[p] = m
        <4>1. \/ m \in strays' \/ Unlinked(w, m)' \/ \E p \in Place : link'[p] = m
          BY <2>1, <2>3, <3>3 DEF Explains
        <4>2. Unlinked(w, m)' => Holds(w, m)'  BY DEF Unlinked, Holds, At
        <4> QED  BY <4>1, <4>2
      <3>4. CASE \E v \in Worker : Holds(v, m)
        <4>1. PICK v \in Worker : Holds(v, m)  BY <3>4
        <4>2. CASE v # w  BY <1>7, <4>1, <4>2
        <4>3. CASE v = w
          <5>1. At(w, m, {"link"}) \/ Unlinked(w, m)
            BY <4>1, <4>3 DEF Holds, At, Unlinked
          <5> QED  BY <2>1, <5>1 DEF Explains
        <4> QED  BY <4>2, <4>3
      <3> QED  BY <2>3, <3>1, <3>2, <3>3, <3>4 DEF Explained, UsedOrExplained, Holds, Exists
    <2> QED  BY <2>2, <2>3
  <1>6. NoLeaks'
    <2> SUFFICES ASSUME NEW m \in MediaId, m \in stored' \ strays'
                 PROVE  media'[m] # None \/ \E v \in Worker : At(v, m, {"delete_object"})'
      BY <1>3 DEF NoLeaks, Exists
    <2>1. Explains(w, m)  BY <1>1
    <2>2. CASE m \notin stored  BY <2>1, <2>2 DEF Explains
    <2>3. CASE media[m] # None  BY <2>1, <2>3 DEF Explains
    <2>4. CASE \E v \in Worker : At(v, m, {"delete_object"})
      <3>1. PICK v \in Worker : At(v, m, {"delete_object"})  BY <2>4
      <3>2. CASE v # w  BY <1>2, <3>1, <3>2
      <3>3. CASE v = w  BY <2>1, <3>1, <3>3 DEF Explains
      <3> QED  BY <3>2, <3>3
    <2>5. m \notin strays  BY <2>1 DEF Explains
    <2> QED  BY <2>2, <2>3, <2>4, <2>5 DEF Explained, NoLeaks, Exists
  <1> QED  BY <1>4, <1>5, <1>6 DEF Explained

LEMMA OutsideExplained ==
  ASSUME Basis, Explained, \/ \E m \in MediaId : Upload(m)
                           \/ \E e \in Event : DeleteEvent(e)
                           \/ UNCHANGED vars
  PROVE  Explained'
  <1>1. CASE UNCHANGED vars
    BY <1>1
    DEF vars, tables, bucket, work, Explained, NoDeadRows, UsedOrExplained, NoLeaks,
        Exists, At, Holds
  <1>2. ASSUME NEW i \in MediaId, Upload(i)
        PROVE  Explained'
    <2>1. /\ UNCHANGED <<media, link, pc, job>>
          /\ stored' = stored \cup {i} /\ strays' = strays \cup {i}
      BY <1>2 DEF Upload, tables, work
    <2>2. NoDeadRows'  BY <2>1 DEF Explained, NoDeadRows, Exists, At
    <2>3. UsedOrExplained'  BY <2>1 DEF Explained, UsedOrExplained, Exists, At, Holds
    <2>4. NoLeaks'  BY <2>1 DEF Explained, NoLeaks, Exists, At
    <2> QED  BY <2>2, <2>3, <2>4 DEF Explained
  <1>3. ASSUME NEW e \in Event, DeleteEvent(e)
        PROVE  Explained'
    <2> DEFINE gone == {m \in MediaId : Exists(m) /\ media[m].event = e}
    <2>1. UNCHANGED <<stored, pc, job>> /\ strays' = strays \cup gone
      BY <1>3 DEF DeleteEvent, bucket, work
    <2>2. /\ \A m \in MediaId : media'[m] = IF m \in gone THEN None ELSE media[m]
          /\ \A p \in Place : link'[p] = IF link[p] \in gone THEN None ELSE link[p]
      BY <1>3 DEF DeleteEvent, DeleteRows
    <2>3. stored \subseteq MediaId  BY DEF Basis, TypeOK
    <2> HIDE DEF gone
    <2>4. NoDeadRows'  BY <2>1, <2>2 DEF Explained, NoDeadRows, Exists, At
    <2>5. UsedOrExplained'
      <3> SUFFICES ASSUME NEW m \in MediaId, m \notin gone, media[m] # None,
                          media[m].cover \/ media[m].event = None
                   PROVE  \/ m \in strays' \/ \E p \in Place : link'[p] = m
                          \/ \E v \in Worker : Holds(v, m)'
        BY <2>2 DEF UsedOrExplained, Exists
      <3>1. \A p \in Place : link[p] = m => link'[p] = m  BY <2>2
      <3> QED  BY <2>1, <3>1 DEF Explained, UsedOrExplained, Exists, At, Holds
    <2>6. NoLeaks'  BY <2>1, <2>2, <2>3 DEF Explained, NoLeaks, Exists, At
    <2> QED  BY <2>4, <2>5, <2>6 DEF Explained
  <1> QED  BY <1>1, <1>2, <1>3

LEMMA InitExplained == Init => Explained
  BY DEF Init, Explained, NoDeadRows, UsedOrExplained, NoLeaks, Exists
-----------------------------------------------------------------------------
(***************************************************************************)
(* The gallery: every step is one of its changes, or changes nothing that  *)
(* is looked at.                                                           *)
(***************************************************************************)
Refines == [Looks!Next]_(Looks!gallery)

LEMMA LookedAt ==
  ASSUME UNCHANGED <<events, media, drawn, link>>, ToBeShown' = ToBeShown
  PROVE  Refines
  BY DEF Refines, Looks!gallery

\* Only the INSERT of a row makes a worker about to link.
LEMMA LinkFollowsInsert ==
  ASSUME TypeOK, NEW w \in Worker, Step(w), pc'[w] = "link"
  PROVE  Insert(w)
  <1>1. ASSUME NEW s \in Statement \ {"link"}, NEW j, Moves(w, s, j)
        PROVE  FALSE
    BY <1>1, MovesLocal
  <1>2. ~ Finish(w)  BY <1>1, FinishMoves DEF Statement
  <1>3. ASSUME NEW s \in Statement \ {"link"}, GoTo(w, s)
        PROVE  FALSE
    BY <1>1, <1>3, GoToMoves
  <1>4. ASSUME NEW s, s # "link", pc' = [pc EXCEPT ![w] = s]
        PROVE  FALSE
    BY <1>4 DEF TypeOK
  <1>5. ~ PictureGone(w)
    BY <1>2, <1>4 DEF PictureGone
  <1>6. ~ ReceiveCover(w) /\ ~ ReceiveDeleteMedia(w) /\ ~ ReceivePicture(w)
    <2>1. ASSUME NEW new, Receive(w, new) PROVE FALSE  BY <1>4, <2>1 DEF Receive
    <2> QED  BY <2>1 DEF ReceiveCover, ReceiveDeleteMedia, ReceivePicture
  <1>7. ~ SelectAdding(w) /\ ~ SelectOrganiser(w)
    BY <1>2, <1>3 DEF SelectAdding, SelectOrganiser, Statement
  <1>8. ~ SelectLinked(w)  BY <1>2, <1>4, <1>5 DEF SelectLinked
  <1>9. ~ SelectMedia(w)  BY <1>2, <1>4 DEF SelectMedia
  <1>10. ~ FailInsert(w)
    BY <1>2, <1>4 DEF FailInsert, work
  <1>11. ~ Link(w)
    <2>1. Link(w) => GoTo(w, "put") \/ Finish(w) \/ pc' = [pc EXCEPT ![w] = "put"]
      BY Zenon DEF Link
    <2> QED  BY <1>2, <1>3, <1>4, <2>1 DEF Statement
  <1>12. ~ Put(w) /\ ~ Unlink(w) /\ ~ DeleteRow(w)
    BY <1>2, <1>3 DEF Put, Unlink, DeleteRow, Statement
  <1>13. ~ DeleteObject(w) /\ ~ LoseConnection(w) /\ ~ FailS3(w)
    BY <1>2, <1>4, <1>5 DEF DeleteObject, LoseConnection, FailS3
  <1> QED
    BY <1>6, <1>7, <1>8, <1>9, <1>10, <1>11, <1>12, <1>13 DEF Step

\* What a step of w leaves to be shown: what the others are to link, and its own.
LEMMA ToBeShownAfter ==
  ASSUME Basis, NEW w \in Worker, Step(w), NEW m \in MediaId
  PROVE  m \in ToBeShown' <=>
           /\ media'[m] # None
           /\ \/ At(w, m, {"link"})'
              \/ \E v \in Worker : v # w /\ At(v, m, {"link"})
  <1>1. \A v \in Worker : v # w => (At(v, m, {"link"})' <=> At(v, m, {"link"}))
    BY StepAlone DEF At
  <1> QED  BY <1>1 DEF ToBeShown, Exists

LEMMA AddsRefines ==
  ASSUME Basis, NEW w \in Worker, Step(w), NEW m, Adds(w, m), Insert(w) \/ FailInsert(w)
  PROVE  Looks!Add(m)
  <1>1. TypeOK /\ RowsIn /\ \A v \in Worker : Proper(pc[v], job[v], media, drawn, link)
    BY DEF Basis, WorkersProper
  <1>2. /\ m \in MediaId /\ m \notin drawn /\ media[m] = None
        /\ pc[w] = "insert"
    BY <1>1 DEF Adds, RowsIn, Exists, Insert, FailInsert
  <1>3. /\ media' = [media EXCEPT ![m] = NewRow(w)] /\ drawn' = drawn \cup {m}
        /\ UNCHANGED <<events, link>>
    BY DEF Adds
  <1>4. NewRow(w).event \in events \cup {None} /\ NewRow(w).cover \in BOOLEAN
        /\ NewRow(w) = [event |-> NewRow(w).event, cover |-> NewRow(w).cover]
    <2>1. job[w].place \in Event => job[w].place \in events
      BY MediaAssumptions DEF Adds
    <2> QED  BY <2>1 DEF NewRow
  <1>5. \A v \in Worker : ~ At(v, m, {"link"})
    BY <1>1, <1>2 DEF At, Proper, Knows
  <1>6. At(w, m, {"link"})' \/ ~ \E i \in MediaId : At(w, i, {"link"})'
    <2>1. CASE pc'[w] = "link"
      <3>1. Insert(w)  BY <1>1, <2>1, LinkFollowsInsert
      <3>2. ~ Finish(w)  BY <1>1, <2>1, FinishMoves, MovesLocal
      <3>3. PICK i \in MediaId \ drawn :
              drawn' = drawn \cup {i} /\ job' = [job EXCEPT ![w].id = i]
        BY <3>1, <3>2 DEF Insert
      <3>4. i = m  BY <1>2, <1>3, <3>3
      <3>5. job'[w].id = m  BY <1>1, <3>3, <3>4 DEF TypeOK, Job
      <3> QED  BY <2>1, <3>5 DEF At
    <2>2. CASE pc'[w] # "link"  BY <2>2 DEF At
    <2> QED  BY <2>1, <2>2
  <1>7. ToBeShown' = ToBeShown \/ ToBeShown' = ToBeShown \cup {m}
    <2>1. \A i \in MediaId : i # m => media'[i] = media[i]  BY <1>1, <1>2, <1>3 DEF TypeOK
    <2>2. ~ \E i \in MediaId : At(w, i, {"link"})  BY <1>2 DEF At
    <2>3. ASSUME NEW i \in MediaId, i # m
          PROVE  i \in ToBeShown' <=> i \in ToBeShown
      <3>1. ~ At(w, i, {"link"})'  BY <1>6, <2>3 DEF At
      <3> QED  BY <2>1, <2>2, <2>3, <3>1, ToBeShownAfter DEF ToBeShown, Exists
    <2>4. ToBeShown \subseteq MediaId /\ ToBeShown' \subseteq MediaId  BY DEF ToBeShown
    <2>5. m \notin ToBeShown  BY <1>2 DEF ToBeShown, Exists
    <2>6. CASE m \in ToBeShown'
      <3>1. \A i : i \in ToBeShown' <=> i \in ToBeShown \cup {m}  BY <2>3, <2>4, <2>6
      <3> QED  BY <3>1
    <2>7. CASE m \notin ToBeShown'
      <3>1. \A i : i \in ToBeShown' <=> i \in ToBeShown  BY <2>3, <2>4, <2>5, <2>7
      <3> QED  BY <3>1
    <2> QED  BY <2>6, <2>7
  <1>8. \E e \in events \cup {None}, cover \in BOOLEAN :
          media' = [media EXCEPT ![m] = [event |-> e, cover |-> cover]]
    BY <1>3, <1>4
  <1> QED  BY <1>2, <1>3, <1>7, <1>8 DEF Looks!Add

LEMMA LinkedRefines ==
  ASSUME Basis, NEW w \in Worker, Step(w), Linked(w)
  PROVE  job[w].id \in MediaId /\ job[w].place \in Place /\ Looks!Show(job[w].id, job[w].place)
  <1> DEFINE m == job[w].id
             p == job[w].place
  <1>1. TypeOK /\ LinkersApart /\ Proper(pc[w], job[w], media, drawn, link) /\ pc[w] = "link"
    BY DEF Basis, WorkersProper, Linked
  <1>2. m \in MediaId /\ p \in Place
    BY <1>1 DEF Proper, Fits, OpsAt, PictureOp, Place
  <1>3. media[m] # None /\ media[m] = RowOf(p)
    BY <1>1 DEF Linked, Exists, Proper, Knows
  <1>4. At(w, m, {"link"}) /\ m \in ToBeShown
    BY <1>1, <1>2, <1>3 DEF At, ToBeShown, Exists
  <1>5. UNCHANGED <<events, media, drawn>> /\ link' = [link EXCEPT ![p] = m]
    BY DEF Linked, Relink
  <1>6. \A i \in MediaId : ~ At(w, i, {"link"})'
    BY <1>1 DEF Linked, At, TypeOK
  <1>7. ToBeShown' = ToBeShown \ {m}
    <2>1. \A v \in Worker : v # w => ~ At(v, m, {"link"})
      BY <1>1, <1>4 DEF LinkersApart, At
    <2>2. \A i \in MediaId : At(w, i, {"link"}) => i = m  BY DEF At
    <2>3. \A i \in MediaId : i \in ToBeShown' <=> i \in ToBeShown /\ i # m
      BY <1>5, <1>6, <2>1, <2>2, ToBeShownAfter DEF ToBeShown, Exists
    <2>4. ToBeShown \subseteq MediaId /\ ToBeShown' \subseteq MediaId  BY DEF ToBeShown
    <2> QED  BY <2>3, <2>4
  <1> QED  BY <1>2, <1>3, <1>4, <1>5, <1>7 DEF Looks!Show, Looks!Own, RowOf

\* Rows and links as they were: at most a picture is passed over.
LEMMA QuietRefines ==
  ASSUME Basis, NEW w \in Worker, Step(w), UNCHANGED <<events, media, link, drawn>>
  PROVE  Refines
  <1>1. TypeOK /\ LinkersApart  BY DEF Basis
  <1>2. pc'[w] # "link"
    <2> SUFFICES ASSUME pc'[w] = "link" PROVE FALSE  OBVIOUS
    <2>1. Insert(w) /\ ~ Finish(w)
      BY <1>1, LinkFollowsInsert, FinishMoves, MovesLocal
    <2>2. \E m \in MediaId \ drawn : drawn' = drawn \cup {m}  BY <2>1 DEF Insert
    <2> QED  BY <2>2
  <1>3. \A i \in MediaId : ~ At(w, i, {"link"})'  BY <1>2 DEF At
  <1>4. ToBeShown \subseteq MediaId /\ ToBeShown' \subseteq MediaId  BY DEF ToBeShown
  <1>5. CASE pc[w] = "link"
    <2> DEFINE m == job[w].id
    <2>1. m \in MediaId  BY <1>5, IdAt
    <2>2. \A v \in Worker : v # w => ~ At(v, m, {"link"})
      BY <1>1, <1>5 DEF LinkersApart, At
    <2>3. \A i \in MediaId : At(w, i, {"link"}) => i = m  BY DEF At
    <2>4. \A i \in MediaId : i \in ToBeShown' <=> i \in ToBeShown /\ i # m
      BY <1>3, <2>2, <2>3, ToBeShownAfter DEF ToBeShown, Exists
    <2>5. ToBeShown' = ToBeShown \ {m}  BY <1>4, <2>4
    <2>6. Looks!PassOver(m)  BY <2>5 DEF Looks!PassOver
    <2> QED  BY <2>1, <2>6 DEF Refines, Looks!Next
  <1>6. CASE pc[w] # "link"
    <2>1. \A i \in MediaId : i \in ToBeShown' <=> i \in ToBeShown
      BY <1>3, <1>6, ToBeShownAfter DEF ToBeShown, Exists, At
    <2> QED  BY <1>4, <2>1, LookedAt
  <1> QED  BY <1>5, <1>6

LEMMA StepRefines ==
  ASSUME Basis, NEW w \in Worker, Step(w)
  PROVE  Refines
  <1>1. TypeOK /\ Proper(pc[w], job[w], media, drawn, link)  BY DEF Basis, WorkersProper
  <1>2. CASE Linked(w)
    BY <1>2, LinkedRefines DEF Refines, Looks!Next, Looks!Place, Place
  <1>3. CASE UNCHANGED <<events, media, link, drawn>>  BY <1>3, QuietRefines
  <1>4. ASSUME NEW m, Adds(w, m), Insert(w) \/ FailInsert(w)
        PROVE  Refines
    BY <1>4, AddsRefines DEF Refines, Looks!Next, Adds
  <1>5. CASE Unlink(w)
    <2>1. /\ pc[w] = "unlink" /\ GoTo(w, "delete_row")
          /\ link' = [link EXCEPT ![job[w].place] = None]
          /\ UNCHANGED <<events, media, drawn>>
      BY <1>5 DEF Unlink, Relink
    <2>2. job[w].place \in Place
      BY <1>1, <2>1 DEF Proper, Fits, OpsAt, PictureOp, Place
    <2>3. pc'[w] = "delete_row"  BY <1>1, <2>1 DEF GoTo, TypeOK
    <2>4. \A i \in MediaId : i \in ToBeShown' <=> i \in ToBeShown
      BY <2>1, <2>3, ToBeShownAfter DEF ToBeShown, Exists, At
    <2>5. ToBeShown' = ToBeShown  BY <2>4 DEF ToBeShown
    <2>6. Looks!Hide(job[w].place)  BY <2>1, <2>5 DEF Looks!Hide
    <2> QED  BY <2>2, <2>6 DEF Refines, Looks!Next, Looks!Place, Place
  <1>6. CASE DeleteRow(w)
    <2> DEFINE m == job[w].id
    <2>1. pc[w] = "delete_row" /\ GoTo(w, "delete_object") /\ UNCHANGED <<events, drawn>>
      BY <1>6 DEF DeleteRow
    <2>2. m \in MediaId  BY <2>1, IdAt
    <2>3. /\ media' = [i \in MediaId |-> IF i \in {m} THEN None ELSE media[i]]
          /\ link' = [q \in Place |-> IF link[q] \in {m} THEN None ELSE link[q]]
      BY <1>6 DEF DeleteRow, DeleteRows
    <2>4. pc'[w] = "delete_object"  BY <1>1, <2>1 DEF GoTo, TypeOK
    <2>5. \A i \in MediaId : i \in ToBeShown' <=> i \in ToBeShown /\ i # m
      BY <2>1, <2>3, <2>4, ToBeShownAfter DEF ToBeShown, Exists, At
    <2>6. ToBeShown' = ToBeShown \ {m}  BY <2>5 DEF ToBeShown
    <2>7. Looks!Remove(m)
      BY <2>1, <2>3, <2>6 DEF Looks!Remove, Looks!TakeDown, Looks!Place, Place
    <2> QED  BY <2>2, <2>7 DEF Refines, Looks!Next
  <1> QED  BY <1>2, <1>3, <1>4, <1>5, <1>6, StepTables

LEMMA OutsideRefines ==
  ASSUME Basis, \/ \E m \in MediaId : Upload(m)
                \/ \E e \in Event : DeleteEvent(e)
                \/ UNCHANGED vars
  PROVE  Refines
  <1>1. UNCHANGED <<pc, job, drawn>>
    BY Zenon DEF Upload, DeleteEvent, vars, tables, bucket, work
  <1>2. CASE (\E m \in MediaId : Upload(m)) \/ UNCHANGED vars
    <2>1. UNCHANGED <<events, media, link>>
      BY <1>2, Zenon DEF Upload, vars, tables
    <2>2. ToBeShown' = ToBeShown  BY <1>1, <2>1 DEF ToBeShown, Exists, At
    <2> QED  BY <1>1, <2>1, <2>2, LookedAt
  <1>3. ASSUME NEW e \in Event, DeleteEvent(e)
        PROVE  Refines
    <2> DEFINE gone == {m \in MediaId : Exists(m) /\ media[m].event = e}
    <2>1. /\ e \in events /\ events' = events \ {e}
          /\ media' = [m \in MediaId |-> IF m \in gone THEN None ELSE media[m]]
          /\ link' = [p \in Place |-> IF link[p] \in gone THEN None ELSE link[p]]
      BY <1>3 DEF DeleteEvent, DeleteRows
    <2>2. gone = {m \in MediaId : media[m] # None /\ media[m].event = e}  BY DEF Exists
    <2> HIDE DEF gone
    <2>3. ToBeShown' = ToBeShown \ gone
      BY <1>1, <2>1 DEF ToBeShown, Exists, At
    <2>4. Looks!End(e)
      BY <1>1, <2>1, <2>2, <2>3 DEF Looks!End, Looks!TakeDown, Looks!Place, Place
    <2> QED  BY <2>1, <2>4 DEF Refines, Looks!Next
  <1> QED  BY <1>2, <1>3

LEMMA InitRefines == Init => Looks!Init
  BY DEF Init, Looks!Init, Looks!Place, Place, ToBeShown, Exists
-----------------------------------------------------------------------------
(***************************************************************************)
(* One worker and no fault: what the histories excuse does not happen.     *)
(***************************************************************************)

(***************************************************************************)
(* Every row has its object, and every cover and profile picture is shown, *)
(* but for the one at which the worker is: no handler leaves anything over *)
(* when it runs to its end alone, whatever uploads and ends of events come *)
(* between its statements.                                                 *)
(***************************************************************************)
RowsInUse == \A m \in MediaId : Exists(m) =>
  /\ m \in stored \/ \E w \in Worker : At(w, m, {"link", "put"})
  /\ media[m].cover \/ media[m].event = None =>
       \/ \E p \in Place : link[p] = m
       \/ \E w \in Worker : Holds(w, m)

Alone == MaxFaults = 0 /\ \E w : Worker = {w}

\* A stray has no row any more, and neither has an object that was deleted.
StraysGone ==
  /\ \A w \in Worker : ~ job[w].clash
  /\ strays \subseteq drawn /\ urls \subseteq drawn
  /\ \A m \in strays \cup (urls \ stored) : media[m] = None

LEMMA StepStraysGone ==
  ASSUME Alone, Basis, StraysGone, NEW w \in Worker, Step(w)
  PROVE  StraysGone'
  <1>1. /\ TypeOK /\ Proper(pc[w], job[w], media, drawn, link)
        /\ \A v \in Worker : v = w
    BY DEF Basis, WorkersProper, Alone
  <1>2. ~ FailInsert(w) /\ ~ LoseConnection(w) /\ ~ FailS3(w)
    <2>1. ~ (faults < MaxFaults)  BY <1>1 DEF TypeOK, Alone
    <2> QED  BY <2>1 DEF FailInsert, LoseConnection, FailS3
  <1>3. ~ job'[w].clash
    <2>1. job[w] \in Job /\ ~ job[w].clash /\ ~ NoJob.clash
      BY <1>1 DEF TypeOK, StraysGone, NoJob
    <2>2. Finish(w) => ~ job'[w].clash  BY <1>1, <2>1 DEF Finish, TypeOK
    <2>3. ASSUME NEW s, GoTo(w, s) PROVE ~ job'[w].clash  BY <2>1, <2>3 DEF GoTo
    <2>4. PictureGone(w) => ~ job'[w].clash
      BY <1>1, <2>1, <2>2 DEF PictureGone, TypeOK, Job
    <2>5. ASSUME NEW new, Receive(w, new), ~ new.clash
          PROVE  ~ job'[w].clash
      BY <1>1, <2>5 DEF Receive, TypeOK
    <2>6. ReceiveCover(w) \/ ReceiveDeleteMedia(w) \/ ReceivePicture(w) => ~ job'[w].clash
      <3>1. ASSUME NEW op, NEW u, NEW p, NEW i,
                   Receive(w, [NoJob EXCEPT !.op = op, !.user = u, !.place = p])
                   \/ Receive(w, [NoJob EXCEPT !.op = op, !.user = u, !.id = i])
            PROVE  ~ job'[w].clash
        <4>1. /\ ~ [NoJob EXCEPT !.op = op, !.user = u, !.place = p].clash
              /\ ~ [NoJob EXCEPT !.op = op, !.user = u, !.id = i].clash
          BY DEF NoJob
        <4> QED  BY <2>5, <3>1, <4>1, Zenon
      <3> QED  BY <3>1, Zenon DEF ReceiveCover, ReceiveDeleteMedia, ReceivePicture
    <2>7. SelectAdding(w) \/ SelectOrganiser(w) \/ Put(w) \/ Unlink(w) \/ DeleteRow(w)
            => ~ job'[w].clash
      BY <2>2, <2>3, Zenon DEF SelectAdding, SelectOrganiser, Put, Unlink, DeleteRow
    <2>8. SelectLinked(w) \/ SelectMedia(w) \/ DeleteObject(w) => ~ job'[w].clash
      BY <1>1, <2>1, <2>2, <2>4 DEF SelectLinked, SelectMedia, DeleteObject, TypeOK, Job
    <2>9. Insert(w) => ~ job'[w].clash
      BY <1>1, <2>1, <2>2 DEF Insert, TypeOK, Job
    <2>10. Link(w) => ~ job'[w].clash
      <3>1. Linked(w) => job'[w] = job[w]  BY <1>1 DEF Linked
      <3>2. Link(w) => Linked(w) \/ GoTo(w, "put") \/ Finish(w)
        BY Zenon DEF Link, Linked
      <3> QED  BY <2>1, <2>2, <2>3, <3>1, <3>2
    <2> QED  BY <1>2, <2>6, <2>7, <2>8, <2>9, <2>10 DEF Step
  <1>4. drawn \subseteq drawn' /\ \A m \in drawn \cap MediaId : media'[m] \in {None, media[m]}
    <2>1. Linked(w) => UNCHANGED <<media, drawn>>  BY DEF Linked
    <2> QED  BY <2>1, StepTables DEF Wears
  <1>5. strays \subseteq MediaId /\ urls \subseteq MediaId  BY <1>1 DEF TypeOK
  <1>6. CASE Put(w)
    <2>1. /\ UNCHANGED <<media, drawn>>
          /\ stored' = stored \cup {job[w].id} /\ urls' = urls \cup {job[w].id}
          /\ strays' = IF media[job[w].id] # None THEN strays ELSE strays \cup {job[w].id}
      BY <1>6 DEF Put, tables, Exists
    <2>2. job[w].id \in drawn  BY <1>6, IdAt DEF Put
    <2> QED  BY <1>1, <1>3, <2>1, <2>2 DEF StraysGone
  <1>7. CASE DeleteObject(w)
    <2>1. UNCHANGED <<media, drawn, urls, strays>> /\ stored' = stored \ {job[w].id}
      BY <1>7 DEF DeleteObject, tables
    <2>2. media[job[w].id] = None
      BY <1>1, <1>7 DEF DeleteObject, Proper, Knows
    <2> QED  BY <1>1, <1>3, <2>1, <2>2 DEF StraysGone
  <1>8. CASE UNCHANGED <<stored, urls, strays>>
    <2>1. \A m \in strays \cup (urls \ stored) : m \in drawn \cap MediaId
      BY <1>5 DEF StraysGone
    <2>2. \A m \in strays \cup (urls \ stored) : media'[m] = None
      BY <1>4, <2>1 DEF StraysGone
    <2> QED  BY <1>1, <1>3, <1>4, <1>8, <2>2 DEF StraysGone
  <1>9. Put(w) \/ DeleteObject(w) \/ UNCHANGED <<stored, urls, strays>>
    <2>1. Relink(w, job[w].id) \/ Relink(w, None) => strays' = strays
      BY DEF Relink, StraysGone
    <2>2. Link(w) \/ Unlink(w) => UNCHANGED <<stored, urls, strays>>
      BY <2>1, Zenon DEF Link, Unlink, bucket
    <2> QED
      BY <1>2, <2>2, Zenon
      DEF Step, ReceiveCover, ReceiveDeleteMedia, ReceivePicture, Receive, SelectAdding,
          SelectLinked, SelectMedia, SelectOrganiser, Insert, DeleteRow, bucket
  <1> QED  BY <1>6, <1>7, <1>8, <1>9

LEMMA OutsideStraysGone ==
  ASSUME Basis, StraysGone, \/ \E m \in MediaId : Upload(m)
                            \/ \E e \in Event : DeleteEvent(e)
                            \/ UNCHANGED vars
  PROVE  StraysGone'
  <1>1. TypeOK /\ RowsIn  BY DEF Basis
  <1>2. CASE \E m \in MediaId : Upload(m)
    BY <1>2 DEF Upload, tables, work, StraysGone
  <1>3. CASE UNCHANGED vars
    BY <1>3 DEF vars, tables, bucket, work, StraysGone
  <1>4. ASSUME NEW e \in Event, DeleteEvent(e)
        PROVE  StraysGone'
    <2> DEFINE gone == {m \in MediaId : Exists(m) /\ media[m].event = e}
    <2>1. /\ UNCHANGED <<stored, urls, drawn, job>> /\ strays' = strays \cup gone
          /\ \A m \in MediaId : media'[m] = IF m \in gone THEN None ELSE media[m]
      BY <1>4 DEF DeleteEvent, DeleteRows, bucket, work
    <2>2. gone \subseteq drawn /\ gone \subseteq MediaId  BY <1>1 DEF RowsIn
    <2>3. strays \subseteq MediaId /\ urls \subseteq MediaId  BY <1>1 DEF TypeOK
    <2> HIDE DEF gone
    <2>4. \A m \in strays' \cup (urls' \ stored') : media'[m] = None
      BY <2>1, <2>2, <2>3 DEF StraysGone
    <2> QED  BY <2>1, <2>2, <2>4 DEF StraysGone
  <1> QED  BY <1>2, <1>3, <1>4
-----------------------------------------------------------------------------
(***************************************************************************)
(* Whose place a handler works on, and what a deletion still finds shown.  *)
(***************************************************************************)
OwnerOf(p) == IF p \in Event THEN Organiser[p] ELSE p

OwnJob(s, j) ==
  /\ s # "idle" /\ j.op \in PictureOp => j.place = j.user
  /\ s \in {"insert", "link"} /\ j.op \notin PictureOp => Organiser[j.place] = j.user

\* The picture that it deletes is shown by its own place or by none, and will be.
DropsOwn(w) ==
  pc[w] \in {"unlink", "delete_row"} /\ job[w].op \in PictureOp =>
    /\ \A q \in Place : link[q] = job[w].id => q = job[w].place
    /\ \A v \in Worker : pc[v] = "link" => job[v].id # job[w].id

Owned == \A w \in Worker : OwnJob(pc[w], job[w]) /\ DropsOwn(w)

\* A step changes the variables of no other worker, but for the mark of a clash.
LEMMA OthersKeepJob ==
  ASSUME Basis, NEW w \in Worker, Step(w)
  PROVE  \A v \in Worker : v # w =>
           /\ pc'[v] = pc[v] /\ job'[v].op = job[v].op /\ job'[v].user = job[v].user
           /\ job'[v].place = job[v].place /\ job'[v].id = job[v].id
  <1>1. TypeOK  BY DEF Basis
  <1>2. CASE Linked(w)
    <2> SUFFICES ASSUME NEW v \in Worker, v # w
                 PROVE  /\ pc'[v] = pc[v] /\ job'[v].op = job[v].op
                        /\ job'[v].user = job[v].user
                        /\ job'[v].place = job[v].place /\ job'[v].id = job[v].id
      OBVIOUS
    <2>1. pc'[v] = pc[v] /\ job[v] \in Job  BY <1>1, <1>2 DEF TypeOK, Linked
    <2>2. job'[v] \in {job[v], [job[v] EXCEPT !.clash = TRUE]}  BY <1>2 DEF Linked
    <2> QED  BY <2>1, <2>2 DEF Job
  <1>3. CASE Lands(w)
    <2>1. PICK s, j : Moves(w, s, j)  BY <1>3 DEF Lands
    <2> QED  BY <1>1, <2>1, MovesLocal
  <1> QED  BY <1>2, <1>3, StepTables

LEMMA FinishOwn ==
  ASSUME TypeOK, NEW w \in Worker, Finish(w)
  PROVE  OwnJob(pc'[w], job'[w])
  BY FinishMoves, MovesLocal DEF OwnJob

LEMMA ReceiveOwn ==
  ASSUME TypeOK, NEW w \in Worker,
         ReceiveCover(w) \/ ReceiveDeleteMedia(w) \/ ReceivePicture(w)
  PROVE  OwnJob(pc'[w], job'[w])
  <1>1. ASSUME NEW new, Receive(w, new), new.op \in PictureOp => new.place = new.user
        PROVE  OwnJob(pc'[w], job'[w])
    <2>1. pc'[w] = "select" /\ job'[w] = new  BY <1>1 DEF Receive, TypeOK
    <2> QED  BY <1>1, <2>1 DEF OwnJob
  <1>2. CASE ReceiveCover(w)
    <2>1. PICK op \in CoverOp \cup {"add_media"}, u \in User, e \in Event :
            Receive(w, [NoJob EXCEPT !.op = op, !.user = u, !.place = e])
      BY <1>2 DEF ReceiveCover
    <2>2. op \notin PictureOp  BY DEF CoverOp, PictureOp
    <2> QED  BY <1>1, <2>1, <2>2 DEF NoJob
  <1>3. CASE ReceiveDeleteMedia(w)
    <2>1. PICK u \in User, m \in MediaId :
            Receive(w, [NoJob EXCEPT !.op = "delete_media", !.user = u, !.id = m])
      BY <1>3 DEF ReceiveDeleteMedia
    <2> QED  BY <1>1, <2>1 DEF NoJob, PictureOp
  <1>4. CASE ReceivePicture(w)
    <2>1. PICK op \in PictureOp \ {"remove_again"}, u \in Pictured :
            Receive(w, [NoJob EXCEPT !.op = op, !.user = u, !.place = u])
      BY <1>4 DEF ReceivePicture
    <2> QED  BY <1>1, <2>1 DEF NoJob
  <1> QED  BY <1>2, <1>3, <1>4

LEMMA PictureGoneOwn ==
  ASSUME TypeOK, NEW w \in Worker, PictureGone(w), job[w].op \in PictureOp,
         job[w].place = job[w].user
  PROVE  OwnJob(pc'[w], job'[w])
  <1>1. job[w] \in Job  BY DEF TypeOK
  <1>2. CASE job[w].op = "new_picture"
    <2>1. job'[w] = [job[w] EXCEPT !.id = None]  BY <1>2 DEF PictureGone, TypeOK
    <2>2. /\ job'[w].op = job[w].op /\ job'[w].place = job[w].place
          /\ job'[w].user = job[w].user
      BY <1>1, <2>1 DEF Job
    <2> QED  BY <2>2 DEF OwnJob
  <1>3. CASE job[w].op = "remove_picture"
    <2>1. job'[w] = [job[w] EXCEPT !.op = "remove_again", !.id = None, !.clash = FALSE]
      BY <1>3 DEF PictureGone, TypeOK
    <2>2. /\ job'[w].op = "remove_again" /\ job'[w].place = job[w].place
          /\ job'[w].user = job[w].user
      BY <1>1, <2>1 DEF Job
    <2> QED  BY <2>2 DEF OwnJob, PictureOp
  <1>4. CASE job[w].op \notin {"new_picture", "remove_picture"}
    BY <1>4, FinishOwn DEF PictureGone
  <1> QED  BY <1>2, <1>3, <1>4

LEMMA SelectOwn ==
  ASSUME Basis, NEW w \in Worker, OwnJob(pc[w], job[w]),
         SelectAdding(w) \/ SelectLinked(w) \/ SelectMedia(w) \/ SelectOrganiser(w)
  PROVE  OwnJob(pc'[w], job'[w])
  <1>1. TypeOK /\ job[w] \in Job /\ Fits(pc[w], job[w])
    BY DEF Basis, TypeOK, WorkersProper, Proper
  <1>2. CASE Finish(w)  BY <1>1, <1>2, FinishOwn
  <1>3. CASE SelectAdding(w) /\ ~ Finish(w)
    <2>1. /\ GoTo(w, "insert") /\ IsOrganiser(w)
          /\ job[w].op \in {"add_cover", "add_media"}
      BY <1>3 DEF SelectAdding
    <2>2. job'[w] = job[w]  BY <2>1 DEF GoTo
    <2> QED  BY <2>1, <2>2 DEF OwnJob, IsOrganiser, PictureOp
  <1>4. CASE SelectLinked(w) /\ ~ Finish(w)
    <2>1. CASE PictureGone(w)
      <3>1. job[w].op \in PictureOp
        BY <1>4, <2>1 DEF SelectLinked, PictureGone
      <3> QED  BY <1>1, <1>4, <2>1, <3>1, PictureGoneOwn DEF OwnJob, SelectLinked
    <2>2. CASE ~ PictureGone(w)
      <3>1. /\ pc' = [pc EXCEPT ![w] = "unlink"]
            /\ job' = [job EXCEPT ![w].id = link[job[w].place]] /\ pc[w] = "select"
        BY <1>4, <2>2, Zenon DEF SelectLinked
      <3>2. /\ pc'[w] = "unlink" /\ job'[w].op = job[w].op
            /\ job'[w].place = job[w].place /\ job'[w].user = job[w].user
        BY <1>1, <3>1 DEF TypeOK, Job
      <3> QED  BY <3>1, <3>2 DEF OwnJob
    <2> QED  BY <2>1, <2>2
  <1>5. CASE SelectMedia(w) /\ ~ Finish(w)
    <2>1. /\ job[w].op = "delete_media"
          /\ pc' = [pc EXCEPT ![w] = "select_organiser"]
          /\ job' = [job EXCEPT ![w].place = media[job[w].id].event]
      BY <1>5 DEF SelectMedia
    <2>2. pc'[w] = "select_organiser" /\ job'[w].op = "delete_media"
      BY <1>1, <2>1 DEF TypeOK, Job
    <2> QED  BY <2>2 DEF OwnJob, PictureOp
  <1>6. CASE SelectOrganiser(w) /\ ~ Finish(w)
    <2>1. pc[w] = "select_organiser" /\ GoTo(w, "delete_row")  BY <1>6 DEF SelectOrganiser
    <2>2. pc'[w] = "delete_row" /\ job'[w] = job[w]  BY <1>1, <2>1 DEF GoTo, TypeOK
    <2> QED  BY <2>1, <2>2 DEF OwnJob
  <1> QED  BY <1>2, <1>3, <1>4, <1>5, <1>6

LEMMA LoseConnectionOwn ==
  ASSUME Basis, NEW w \in Worker, OwnJob(pc[w], job[w]), LoseConnection(w)
  PROVE  OwnJob(pc'[w], job'[w])
  <1>1. TypeOK /\ job[w] \in Job  BY DEF Basis, TypeOK
  <1>2. CASE Finish(w)  BY <1>1, <1>2, FinishOwn
  <1>3. CASE ~ Finish(w)
    <2> DEFINE op    == IF job[w].op = "remove_again" THEN "remove_picture" ELSE job[w].op
               id    == IF job[w].op = "delete_media" THEN job[w].id ELSE None
               place == IF job[w].op = "delete_media" THEN None ELSE job[w].place
    <2>1. pc[w] # "idle" /\ pc'[w] = "select"  BY <1>1, <1>3 DEF LoseConnection, TypeOK
    <2>2. job'[w] = [job[w] EXCEPT !.again = TRUE, !.clash = FALSE, !.op = op,
                                   !.id = id, !.place = place]
      BY <1>1, <1>3 DEF LoseConnection, TypeOK, Job
    <2>3. /\ job'[w].op = op /\ job'[w].place = place /\ job'[w].user = job[w].user
      BY <1>1, <2>2 DEF Job
    <2>4. op \in PictureOp => job[w].op \in PictureOp /\ place = job[w].place
      BY DEF PictureOp
    <2> QED  BY <2>1, <2>3, <2>4 DEF OwnJob
  <1> QED  BY <1>2, <1>3

LEMMA StepOwn ==
  ASSUME Basis, NEW w \in Worker, OwnJob(pc[w], job[w]), Step(w)
  PROVE  OwnJob(pc'[w], job'[w])
  <1>1. TypeOK /\ job[w] \in Job /\ Fits(pc[w], job[w])
    BY DEF Basis, TypeOK, WorkersProper, Proper
  <1>2. CASE Finish(w)  BY <1>1, <1>2, FinishOwn
  <1>3. ASSUME pc'[w] \notin {"idle", "insert", "link"}, job'[w].op = job[w].op,
               job'[w].place = job[w].place, job'[w].user = job[w].user, pc[w] # "idle"
        PROVE  OwnJob(pc'[w], job'[w])
    BY <1>3 DEF OwnJob
  <1>4. CASE Insert(w) /\ ~ Finish(w)
    <2>1. PICK i \in MediaId : job' = [job EXCEPT ![w].id = i]  BY <1>4 DEF Insert
    <2>2. /\ job'[w].op = job[w].op /\ job'[w].place = job[w].place
          /\ job'[w].user = job[w].user
      BY <1>1, <2>1 DEF TypeOK, Job
    <2> QED  BY <1>4, <2>2 DEF OwnJob, Insert
  <1>5. CASE FailInsert(w) /\ ~ Finish(w)
    BY <1>5 DEF FailInsert, work
  <1>6. CASE Link(w)
    <2>1. CASE Linked(w)
      <3>1. pc'[w] = "put" /\ job'[w] = job[w] /\ pc[w] = "link"
        BY <1>1, <2>1 DEF Linked, TypeOK
      <3> QED  BY <1>3, <3>1
    <2>2. CASE GoTo(w, "put")
      BY <1>1, <1>3, <1>6, <2>2 DEF GoTo, TypeOK, Link
    <2>3. Linked(w) \/ GoTo(w, "put") \/ Finish(w)
      <3>1. CASE job[w].place \in events \cup Pictured /\ Exists(job[w].id)
        BY <1>6, <3>1, LinkCases DEF Link
      <3>2. CASE ~ (job[w].place \in events \cup Pictured /\ Exists(job[w].id))
        BY <1>6, <3>2, Zenon DEF Link
      <3> QED  BY <3>1, <3>2
    <2> QED  BY <1>2, <2>1, <2>2, <2>3
  <1>7. CASE Unlink(w) \/ DeleteRow(w)
    BY <1>1, <1>3, <1>7 DEF Unlink, DeleteRow, GoTo, TypeOK
  <1>8. CASE DeleteObject(w) /\ ~ Finish(w)
    BY <1>1, <1>8, PictureGoneOwn DEF DeleteObject, OwnJob
  <1>9. CASE Put(w) \/ FailS3(w)  BY <1>2, <1>9 DEF Put, FailS3
  <1> QED
    BY <1>1, <1>2, <1>4, <1>5, <1>6, <1>7, <1>8, <1>9, ReceiveOwn, SelectOwn,
       LoseConnectionOwn DEF Step

\* A place comes to show a picture by a Link of it, and whoever is about to link was so
\* before, or has drawn a new id.
LEMMA StepDrops ==
  ASSUME Basis, NEW w \in Worker, \A x \in Worker : DropsOwn(x), Step(w)
  PROVE  \A x \in Worker : DropsOwn(x)'
  <1>1. TypeOK /\ LinksHold /\ RowsIn /\ LinksIn
        /\ \A v \in Worker : Proper(pc[v], job[v], media, drawn, link)
    BY DEF Basis, WorkersProper
  <1>2. \A v \in Worker : v # w =>
          /\ pc'[v] = pc[v] /\ job'[v].op = job[v].op
          /\ job'[v].place = job[v].place /\ job'[v].id = job[v].id
    BY OthersKeepJob
  <1>3. \A v \in Worker : pc'[v] = "link" =>
          \/ pc[v] = "link" /\ job'[v].id = job[v].id
          \/ job'[v].id \notin drawn
    <2> SUFFICES ASSUME pc'[w] = "link"
                 PROVE  job'[w].id \notin drawn
      BY <1>2
    <2>1. Insert(w)  BY <1>1, LinkFollowsInsert
    <2>2. ~ Finish(w)  BY <1>1, FinishMoves, MovesLocal
    <2>3. PICK i \in MediaId \ drawn : job' = [job EXCEPT ![w].id = i]
      BY <2>1, <2>2 DEF Insert
    <2>4. job'[w].id = i  BY <1>1, <2>3 DEF TypeOK, Job
    <2> QED  BY <2>4
  <1>4. \A q \in Place : \/ link'[q] \in {None, link[q]}
                         \/ \E v \in Worker : pc[v] = "link" /\ link'[q] = job[v].id
    <2>1. CASE Linked(w)
      BY <1>1, <2>1 DEF Linked, Relink, TypeOK
    <2> QED  BY <2>1, StepTables DEF Wears
  <1>5. ASSUME NEW m, m \in drawn, NEW p,
               \A q \in Place : link[q] = m => q = p,
               \A v \in Worker : pc[v] = "link" => job[v].id # m
        PROVE  /\ \A q \in Place : link'[q] = m => q = p
               /\ \A v \in Worker : pc'[v] = "link" => job'[v].id # m
    <2>1. m # None  BY <1>1, <1>5, MediaAssumptions DEF TypeOK
    <2> QED  BY <1>3, <1>4, <1>5, <2>1
  <1> SUFFICES ASSUME NEW x \in Worker, pc'[x] \in {"unlink", "delete_row"},
                      job'[x].op \in PictureOp
               PROVE  /\ \A q \in Place : link'[q] = job'[x].id => q = job'[x].place
                      /\ \A v \in Worker : pc'[v] = "link" => job'[v].id # job'[x].id
    BY DEF DropsOwn
  <1>6. CASE /\ pc[x] \in {"unlink", "delete_row"} /\ job[x].op \in PictureOp
             /\ job'[x].id = job[x].id /\ job'[x].place = job[x].place
    <2> DEFINE m == job[x].id
               p == job[x].place
    <2>1. m \in drawn  BY <1>1, <1>6 DEF Proper, Knows
    <2>2. /\ \A q \in Place : link[q] = m => q = p
          /\ \A v \in Worker : pc[v] = "link" => job[v].id # m
      BY <1>6 DEF DropsOwn
    <2>3. job'[x].id = m /\ job'[x].place = p  BY <1>6
    <2> HIDE DEF m, p
    <2> QED  BY <1>5, <2>1, <2>2, <2>3
  <1>7. CASE x = w /\ SelectLinked(w)
    <2> DEFINE p == job[w].place
               m == link[p]
    <2>1. pc[w] = "select" /\ job[w] \in Job /\ p \in Place
      BY <1>1, <1>7 DEF SelectLinked, TypeOK, Proper, Fits, PictureOp, Place
    <2>2. ~ Finish(w)  BY <1>1, <1>7, FinishMoves, MovesLocal
    <2>3. ~ PictureGone(w)
      <3>1. PictureGone(w) => pc' = [pc EXCEPT ![w] = "insert"]
                              \/ pc' = [pc EXCEPT ![w] = "select"]
        BY <2>2 DEF PictureGone
      <3> QED  BY <1>1, <1>7, <3>1 DEF TypeOK
    <2>4. m # None /\ job' = [job EXCEPT ![w].id = m]
      BY <1>7, <2>2, <2>3 DEF SelectLinked
    <2>5. job'[w].id = m /\ job'[w].place = p
      BY <1>1, <2>1, <2>4 DEF TypeOK, Job
    <2>6. m \in drawn  BY <1>1, <2>1, <2>4 DEF LinksIn
    <2>7. \A q \in Place : link[q] = m => q = p  BY <1>1, <2>1, <2>4 DEF LinksHold
    <2>8. \A v \in Worker : pc[v] = "link" => job[v].id # m
      BY <1>1, <2>1 DEF Proper, Sees
    <2> HIDE DEF m, p
    <2> QED  BY <1>5, <1>7, <2>5, <2>6, <2>7, <2>8
  <1>8. x # w => /\ pc[x] \in {"unlink", "delete_row"} /\ job[x].op \in PictureOp
                 /\ job'[x].id = job[x].id /\ job'[x].place = job[x].place
    BY <1>2
  <1>9. CASE x = w /\ Unlink(w)
    BY <1>1, <1>6, <1>9 DEF Unlink, GoTo
  <1>10. x = w => SelectLinked(w) \/ Unlink(w)
    <2> SUFFICES ASSUME pc'[w] \in {"unlink", "delete_row"}, job'[w].op \in PictureOp
                 PROVE  SelectLinked(w) \/ Unlink(w)
      OBVIOUS
    <2>1. ASSUME NEW s, s \notin {"unlink", "delete_row"}, pc' = [pc EXCEPT ![w] = s]
          PROVE  FALSE
      BY <1>1, <2>1 DEF TypeOK
    <2>2. ~ Finish(w) /\ ~ PictureGone(w)
      <3>1. ~ Finish(w)  BY <2>1 DEF Finish
      <3> QED  BY <2>1, <3>1 DEF PictureGone
    <2>3. ~ ReceiveCover(w) /\ ~ ReceiveDeleteMedia(w) /\ ~ ReceivePicture(w)
      <3>1. ASSUME NEW new, Receive(w, new) PROVE FALSE  BY <2>1, <3>1 DEF Receive
      <3> QED  BY <3>1 DEF ReceiveCover, ReceiveDeleteMedia, ReceivePicture
    <2>4. ~ SelectAdding(w) /\ ~ SelectMedia(w)
      BY <2>1, <2>2 DEF SelectAdding, SelectMedia, GoTo
    <2>5. ~ SelectOrganiser(w)
      <3> SUFFICES ASSUME SelectOrganiser(w) PROVE FALSE  OBVIOUS
      <3>1. pc[w] = "select_organiser" /\ job' = job
        BY <2>2 DEF SelectOrganiser, GoTo
      <3> QED  BY <1>1, <3>1 DEF Proper, Fits, OpsAt, PictureOp
    <2>6. ~ Insert(w) /\ ~ FailInsert(w)
      BY <1>1, <2>1, <2>2 DEF Insert, FailInsert, work
    <2>7. ~ Link(w)
      <3>1. Link(w) => GoTo(w, "put") \/ Finish(w) \/ pc' = [pc EXCEPT ![w] = "put"]
        BY Zenon DEF Link
      <3> QED  BY <2>1, <2>2, <3>1 DEF GoTo
    <2>8. ~ Put(w) /\ ~ DeleteRow(w) /\ ~ DeleteObject(w) /\ ~ LoseConnection(w) /\ ~ FailS3(w)
      BY <2>1, <2>2 DEF Put, DeleteRow, DeleteObject, LoseConnection, FailS3, GoTo
    <2> QED  BY <2>3, <2>4, <2>5, <2>6, <2>7, <2>8 DEF Step
  <1> QED  BY <1>6, <1>7, <1>8, <1>9, <1>10

LEMMA NextOwned ==
  ASSUME Basis, Owned, [Next]_vars
  PROVE  Owned'
  <1>1. ASSUME NEW w \in Worker, Step(w) PROVE Owned'
    <2>1. \A x \in Worker : DropsOwn(x)'  BY <1>1, StepDrops DEF Owned
    <2>2. \A x \in Worker : OwnJob(pc'[x], job'[x])
      BY <1>1, StepOwn, OthersKeepJob DEF Owned, OwnJob
    <2> QED  BY <2>1, <2>2 DEF Owned
  <1>2. CASE \/ \E m \in MediaId : Upload(m)
             \/ \E e \in Event : DeleteEvent(e)
             \/ UNCHANGED vars
    <2>1. UNCHANGED <<pc, job>>
      BY <1>2, Zenon DEF Upload, DeleteEvent, vars, work
    <2>2. \A q \in Place : link'[q] \in {None, link[q]}
      BY <1>2 DEF Upload, DeleteEvent, DeleteRows, vars, tables
    <2>3. \A x \in Worker : pc[x] \in {"unlink", "delete_row"} => job[x].id # None
      BY MediaAssumptions DEF Basis, WorkersProper, Proper, Knows, TypeOK
    <2> QED  BY <2>1, <2>2, <2>3 DEF Owned, DropsOwn
  <1> QED  BY <1>1, <1>2 DEF Next

\* Whoever changes a link is its owner's handler.
LinkedByOwner == \A p \in Place : link'[p] # link[p] =>
  \/ p \in events \ events'
  \/ \E w \in Worker : /\ pc[w] \in {"link", "unlink", "delete_row"}
                       /\ job[w].user = OwnerOf(p)

LEMMA StepByOwner ==
  ASSUME Basis, Owned, [Next]_vars, NEW p \in Place, link'[p] # link[p]
  PROVE  \/ p \in events \ events'
         \/ \E w \in Worker : /\ pc[w] \in {"link", "unlink", "delete_row"}
                              /\ job[w].user = OwnerOf(p)
  <1>1. TypeOK /\ LinksHold /\ LinksIn  BY DEF Basis
  <1>2. ~ UNCHANGED vars /\ ~ \E m \in MediaId : Upload(m)
    BY Zenon DEF vars, tables, Upload
  <1>3. ASSUME NEW e \in Event, DeleteEvent(e)
        PROVE  p \in events \ events'
    <2>1. link[p] # None /\ media[link[p]].event = e
      BY <1>1, <1>3, MediaAssumptions DEF DeleteEvent, DeleteRows, Exists, TypeOK
    <2>2. media[link[p]] = RowOf(p)  BY <1>1, <2>1 DEF LinksHold, RowOf
    <2>3. e = p  BY <1>3, <2>1, <2>2, MediaAssumptions DEF RowOf
    <2> QED  BY <1>3, <2>3 DEF DeleteEvent
  <1>4. ASSUME NEW w \in Worker, Step(w)
        PROVE  pc[w] \in {"link", "unlink", "delete_row"} /\ job[w].user = OwnerOf(p)
    <2>1. /\ Proper(pc[w], job[w], media, drawn, link)
          /\ OwnJob(pc[w], job[w]) /\ DropsOwn(w)
      BY DEF Basis, WorkersProper, Owned
    <2>2. CASE Linked(w)
      <3>1. pc[w] = "link" /\ p = job[w].place
        BY <1>1, <2>2 DEF Linked, Relink, TypeOK
      <3> QED
        BY <2>1, <3>1, MediaAssumptions DEF Proper, Fits, OwnJob, OwnerOf, OpsAt, PictureOp
    <2>3. CASE Unlink(w)
      <3>1. pc[w] = "unlink" /\ p = job[w].place
        BY <1>1, <2>3 DEF Unlink, Relink, TypeOK
      <3> QED
        BY <2>1, <3>1, MediaAssumptions
        DEF Proper, Fits, Knows, OwnJob, OwnerOf, OpsAt, PictureOp
    <2>4. CASE DeleteRow(w)
      <3>1. pc[w] = "delete_row" /\ link[p] = job[w].id /\ link[p] # None
        BY <1>1, <2>4 DEF DeleteRow, DeleteRows, TypeOK
      <3>2. media[job[w].id] = RowOf(p) /\ media[job[w].id] # None
        BY <1>1, <3>1 DEF LinksHold, LinksIn, Exists, RowOf
      <3>3. CASE job[w].op \in PictureOp
        <4>1. p = job[w].place /\ job[w].place \in Pictured /\ job[w].place = job[w].user
          BY <2>1, <3>1, <3>3 DEF DropsOwn, OwnJob, Proper, Fits
        <4> QED  BY <3>1, <4>1, MediaAssumptions DEF OwnerOf
      <3>4. CASE job[w].op \notin PictureOp
        <4>1. job[w].place \in Event  BY <2>1, <3>1, <3>4 DEF Proper, Fits
        <4>2. RowOf(p).event = job[w].place /\ Organiser[job[w].place] = job[w].user
          BY <2>1, <3>1, <3>2, <4>1 DEF Proper, Knows
        <4>3. p = job[w].place  BY <4>1, <4>2, MediaAssumptions DEF RowOf
        <4> QED  BY <3>1, <4>1, <4>2, <4>3 DEF OwnerOf
      <3> QED  BY <3>3, <3>4
    <2>5. Linked(w) \/ Unlink(w) \/ DeleteRow(w)
      BY <1>4, StepTables DEF Adds
    <2> QED  BY <2>2, <2>3, <2>4, <2>5
  <1> QED  BY <1>2, <1>3, <1>4 DEF Next
-----------------------------------------------------------------------------
(***************************************************************************)
(* The theorems.                                                           *)
(***************************************************************************)

(***************************************************************************)
(* The invariant holds in the first state and is kept by every step of the *)
(* handlers, the browsers and delete_event, whatever connection is lost.   *)
(***************************************************************************)
THEOREM IInvCorrect == Spec => []IInv
  <1>1. Init => IInv  BY InitBasis, InitExplained DEF IInv, Explained
  <1>2. IInv /\ [Next]_vars => IInv'
    <2> SUFFICES ASSUME IInv, [Next]_vars PROVE IInv'  OBVIOUS
    <2>1. Basis /\ Explained  BY DEF IInv, Explained
    <2>2. Basis'  BY <2>1, NextBasis
    <2>3. Explained'  BY <2>1, StepExplained, OutsideExplained DEF Next
    <2> QED  BY <2>2, <2>3 DEF IInv, Explained
  <1> QED  BY <1>1, <1>2, PTL DEF Spec

(***************************************************************************)
(* The tables, the bucket and the workers' variables have their types.     *)
(***************************************************************************)
THEOREM TypeCorrect == Spec => []TypeOK
  BY IInvCorrect, PTL DEF IInv, Basis

(***************************************************************************)
(* A cover or profile picture that is linked is the row of its own place,  *)
(* and of no other, in every state between the statements of the handlers. *)
(***************************************************************************)
THEOREM LinksHoldCorrect == Spec => []LinksHold
  BY IInvCorrect, PTL DEF IInv, Basis

(***************************************************************************)
(* A row has its object in the bucket, unless it is still to be written or *)
(* a fault, an overlap or a late upload took it.                           *)
(***************************************************************************)
THEOREM NoDeadRowsCorrect == Spec => []NoDeadRows
  BY IInvCorrect, PTL DEF IInv

(***************************************************************************)
(* A row marked as cover or without an event is shown by a place, or what  *)
(* left it over is known.                                                  *)
(***************************************************************************)
THEOREM UsedOrExplainedCorrect == Spec => []UsedOrExplained
  BY IInvCorrect, PTL DEF IInv

(***************************************************************************)
(* No object stays in the bucket without a row, unless what left it there  *)
(* is known.                                                               *)
(***************************************************************************)
THEOREM NoLeaksCorrect == Spec => []NoLeaks
  BY IInvCorrect, PTL DEF IInv

(***************************************************************************)
(* Only a handler of its organiser removes a picture of an event that      *)
(* remains, however long ago the handler read the row and the organiser.   *)
(***************************************************************************)
THEOREM RemovedByOrganiserCorrect == Spec => RemovedByOrganiser
  <1> DEFINE ByOrganiser == \A m \in MediaId :
        Exists(m) /\ media[m].event \in events' /\ media'[m] = None =>
          \E w \in Worker : At(w, m, {"delete_row"}) /\ job[w].user = Organiser[media[m].event]
  <1>1. IInv /\ [Next]_vars => [ByOrganiser]_vars
    <2> SUFFICES ASSUME IInv, Next, NEW m \in MediaId,
                        media[m] # None, media[m].event \in events', media'[m] = None
                 PROVE  \E w \in Worker : /\ At(w, m, {"delete_row"})
                                         /\ job[w].user = Organiser[media[m].event]
      BY DEF Exists
    <2>1. Basis /\ TypeOK  BY DEF IInv, Basis
    <2>2. ~ \E i \in MediaId : Upload(i)  BY DEF Upload, tables
    <2>3. ~ \E e \in Event : DeleteEvent(e)
      <3> SUFFICES ASSUME NEW e \in Event, DeleteEvent(e) PROVE FALSE  OBVIOUS
      <3>1. events' = events \ {e} /\ media[m].event = e
        BY DEF DeleteEvent, DeleteRows, Exists
      <3> QED  BY <3>1
    <2>4. PICK w \in Worker : Step(w)  BY <2>2, <2>3 DEF Next
    <2>5. At(w, m, {"delete_object"})'  BY <2>1, <2>4, StepExplains DEF Explains
    <2>6. DeleteRow(w)
      <3>1. \/ DeleteRow(w) \/ UNCHANGED media \/ \E i : Adds(w, i)
        BY <2>1, <2>4, StepTables DEF Linked, Unlink
      <3>2. ~ \E i : Adds(w, i)
        <4> SUFFICES ASSUME NEW i, Adds(w, i) PROVE FALSE  OBVIOUS
        <4>1. m \in drawn  BY <2>1 DEF Basis, RowsIn, Exists
        <4>2. media'[m] = media[m]  BY <2>1, <4>1 DEF Adds, TypeOK
        <4> QED  BY <4>2
      <3> QED  BY <3>1, <3>2
    <2>7. /\ pc[w] = "delete_row" /\ job[w].id = m
      BY <2>6 DEF DeleteRow, DeleteRows
    <2>8. media[m].event = IF job[w].place \in Event THEN job[w].place ELSE None
      BY <2>1, <2>7 DEF Basis, WorkersProper, Proper, Knows
    <2>9. media[m].event # None /\ job[w].place \in Event
      <3>1. events' = events  BY <2>6 DEF DeleteRow
      <3> QED  BY <2>1, <2>8, <3>1, MediaAssumptions DEF TypeOK
    <2>10. job[w].user = Organiser[job[w].place]
      BY <2>1, <2>7, <2>9 DEF Basis, WorkersProper, Proper, Knows
    <2> QED  BY <2>7, <2>8, <2>9, <2>10 DEF At
  <1> QED  BY <1>1, IInvCorrect, PTL DEF Spec, RemovedByOrganiser

(***************************************************************************)
(* The handlers, statement by statement and with whatever fails, implement *)
(* the gallery: a place shows what was added for it, and no picture comes  *)
(* back to where it was shown, or from where it was removed.               *)
(***************************************************************************)
THEOREM MediaImplementsGallery == Spec => ImplementsGallery
  <1>1. IInv /\ [Next]_vars => [Looks!Next]_(Looks!gallery)
    BY StepRefines, OutsideRefines DEF IInv, Next, Refines
  <1> QED
    BY <1>1, InitRefines, IInvCorrect, PTL DEF Spec, ImplementsGallery, Looks!Spec

(***************************************************************************)
(* Rows without use and rows without an object come from overlapping       *)
(* requests and from faults alone: with one worker and no fault there are  *)
(* none but the one the worker is at.                                      *)
(***************************************************************************)
THEOREM RowsInUseAlone == ASSUME Alone PROVE Spec => []RowsInUse
  <1>1. Init => StraysGone  BY DEF Init, StraysGone, NoJob
  <1>2. StraysGone /\ IInv /\ [Next]_vars => StraysGone'
    BY StepStraysGone, OutsideStraysGone DEF IInv, Next
  <1>3. IInv /\ StraysGone => RowsInUse
    <2> SUFFICES ASSUME IInv, StraysGone, NEW m \in MediaId, Exists(m), m \notin strays
                 PROVE  /\ m \in stored \/ \E w \in Worker : At(w, m, {"link", "put"})
                        /\ media[m].cover \/ media[m].event = None =>
                             \/ \E p \in Place : link[p] = m
                             \/ \E w \in Worker : Holds(w, m)
      BY DEF RowsInUse, StraysGone, Exists
    <2> QED  BY DEF IInv, NoDeadRows, UsedOrExplained
  <1> QED  BY <1>1, <1>2, <1>3, IInvCorrect, PTL DEF Spec

(***************************************************************************)
(* The cover of an event is linked, replaced and cleared by requests of    *)
(* its organiser only, and the profile picture of a user by requests of    *)
(* that user, but for the end of the event: what a deletion removes by the *)
(* id that it read long ago is shown nowhere else, and never will be.      *)
(***************************************************************************)
THEOREM ShownByOwner == Spec => [][LinkedByOwner]_vars
  <1>1. Init => Owned  BY DEF Init, Owned, OwnJob, DropsOwn
  <1>2. IInv /\ Owned /\ [Next]_vars => Owned'  BY NextOwned DEF IInv
  <1>3. IInv /\ Owned /\ [Next]_vars => LinkedByOwner
    BY StepByOwner DEF IInv, LinkedByOwner
  <1> QED  BY <1>1, <1>2, <1>3, IInvCorrect, PTL DEF Spec
=============================================================================
