------------------------------- MODULE Media -------------------------------
(***************************************************************************)
(* Pictures: cover images and files of events, profile pictures of users   *)
(* (Backend/DB/Events.cpp, Backend/DB/Users.cpp).  Each is a row of Media, *)
(* an object in the S3 bucket (Backend/AWS.cpp) and, if it is a cover or a *)
(* profile picture, a link from its place: Events.cover_image_id or        *)
(* Users.profile_picture_id.  The handlers change the three in separate    *)
(* steps; workers interleave at each of them, and connections are lost.    *)
(***************************************************************************)
EXTENDS Integers, FiniteSets

CONSTANTS
  Worker,           \* threads of the server
  User,
  Pictured,         \* bound: the users who change their profile pictures
  Event,
  Organiser,        \* the organiser of each event
  MediaId,          \* bound: identifiers that can be drawn
  None,
  MaxFaults         \* bound: lost connections and failed requests to S3

ASSUME MediaAssumptions ==
  /\ None \notin User \cup Event \cup MediaId
  /\ User \cap Event = {}
  /\ Pictured \subseteq User
  /\ Organiser \in [Event -> User]
  /\ MaxFaults \in Nat

Place == Event \cup Pictured

Row == [event : Event \cup {None}, cover : BOOLEAN]

CoverOp   == {"add_cover", "delete_cover"}
PictureOp == {"new_picture", "remove_picture", "remove_again"}

\* What a worker does: the handler, the user and the place or picture it is for,
\* whether it is the second run, and (history) whether another worker has linked a
\* picture to the place since the first SELECT.
Job == [op : {"none", "add_media", "delete_media"} \cup CoverOp \cup PictureOp,
        user : User \cup {None}, place : Place \cup {None}, id : MediaId \cup {None},
        again : BOOLEAN, clash : BOOLEAN]

NoJob == [op |-> "none", user |-> None, place |-> None, id |-> None,
          again |-> FALSE, clash |-> FALSE]

VARIABLES
  events,         \* the events that exist
  media,          \* table Media: the row of each id, or None
  link,           \* cover_image_id of each event, profile_picture_id of each user
  stored,         \* the objects in the bucket
  urls,           \* history: ids whose presigned URL was returned to a browser
  drawn,          \* history: ids that were drawn
  pc,             \* the statement or request to S3 a worker executes next
  job,
  strays,         \* history: ids that a fault, an overlap or an event's end took
  faults          \* history: faults so far

tables == <<events, media, link>>
bucket == <<stored, urls>>
work   == <<pc, job>>
vars   == <<tables, bucket, drawn, work, strays, faults>>
-----------------------------------------------------------------------------
Init ==
  /\ events = Event
  /\ media = [m \in MediaId |-> None]
  /\ link = [p \in Place |-> None]
  /\ stored = {}
  /\ urls = {}
  /\ drawn = {}
  /\ pc = [w \in Worker |-> "idle"]
  /\ job = [w \in Worker |-> NoJob]
  /\ strays = {}
  /\ faults = 0

Exists(m) == media[m] # None

IsOrganiser(w) == job[w].place \in events /\ Organiser[job[w].place] = job[w].user

GoTo(w, s) == pc' = [pc EXCEPT ![w] = s] /\ UNCHANGED job

Finish(w) ==
  /\ pc' = [pc EXCEPT ![w] = "idle"]
  /\ job' = [job EXCEPT ![w] = NoJob]

\* The rows of media without those in gone, and the links the foreign keys clear.
DeleteRows(gone) ==
  /\ media' = [m \in MediaId |-> IF m \in gone THEN None ELSE media[m]]
  /\ link' = [p \in Place |-> IF link[p] \in gone THEN None ELSE link[p]]
-----------------------------------------------------------------------------
Receive(w, new) ==
  /\ pc[w] = "idle"
  /\ pc' = [pc EXCEPT ![w] = "select"]
  /\ job' = [job EXCEPT ![w] = new]
  /\ UNCHANGED <<tables, bucket, drawn, strays, faults>>

ReceiveCover(w) == \E op \in CoverOp \cup {"add_media"}, u \in User, e \in Event :
  Receive(w, [NoJob EXCEPT !.op = op, !.user = u, !.place = e])

ReceiveDeleteMedia(w) == \E u \in User, m \in MediaId :
  Receive(w, [NoJob EXCEPT !.op = "delete_media", !.user = u, !.id = m])

ReceivePicture(w) == \E op \in PictureOp \ {"remove_again"}, u \in Pictured :
  Receive(w, [NoJob EXCEPT !.op = op, !.user = u, !.place = u])
-----------------------------------------------------------------------------
(***************************************************************************)
(* The first SELECT of each handler, and what follows from it.             *)
(***************************************************************************)
\* What follows when delete_profile_picture returns: new_profile_picture goes on
\* with set_profile_picture, remove_profile_picture calls it a second time.
PictureGone(w) ==
  CASE job[w].op = "new_picture"    ->
         /\ pc' = [pc EXCEPT ![w] = "insert"]
         /\ job' = [job EXCEPT ![w].id = None]
    [] job[w].op = "remove_picture" ->
         /\ pc' = [pc EXCEPT ![w] = "select"]
         /\ job' = [job EXCEPT ![w].op = "remove_again", ![w].id = None, ![w].clash = FALSE]
    [] OTHER -> Finish(w)

\* Mutant: a second cover is admitted.
SelectAddingAlways(w) ==
  /\ pc[w] = "select"
  /\ job[w].op \in {"add_cover", "add_media"}
  /\ IF IsOrganiser(w) THEN GoTo(w, "insert") ELSE Finish(w)
  /\ UNCHANGED <<tables, bucket, drawn, strays, faults>>

SelectAdding(w) ==
  /\ pc[w] = "select"
  /\ job[w].op \in {"add_cover", "add_media"}
  /\ IF IsOrganiser(w) /\ (job[w].op = "add_cover" => link[job[w].place] = None)
     THEN GoTo(w, "insert") ELSE Finish(w)
  /\ UNCHANGED <<tables, bucket, drawn, strays, faults>>

SelectLinked(w) ==
  LET linked == link[job[w].place]
  IN /\ pc[w] = "select"
     /\ job[w].op \in {"delete_cover"} \cup PictureOp
     /\ CASE job[w].op = "delete_cover" /\ ~ IsOrganiser(w) -> Finish(w)
          [] linked = None -> PictureGone(w)
          [] OTHER -> /\ pc' = [pc EXCEPT ![w] = "unlink"]
                      /\ job' = [job EXCEPT ![w].id = linked]
     /\ UNCHANGED <<tables, bucket, drawn, strays, faults>>

\* delete_media: a profile picture belongs to event NULL, which is not found.
SelectMedia(w) ==
  /\ pc[w] = "select"
  /\ job[w].op = "delete_media"
  /\ IF Exists(job[w].id) /\ media[job[w].id].event # None
     THEN /\ pc' = [pc EXCEPT ![w] = "select_organiser"]
          /\ job' = [job EXCEPT ![w].place = media[job[w].id].event]
     ELSE Finish(w)
  /\ UNCHANGED <<tables, bucket, drawn, strays, faults>>

\* Mutant: anybody may delete.
SelectOrganiserAny(w) ==
  /\ pc[w] = "select_organiser"
  /\ IF job[w].place \in events THEN GoTo(w, "delete_row") ELSE Finish(w)
  /\ UNCHANGED <<tables, bucket, drawn, strays, faults>>

SelectOrganiser(w) ==
  /\ pc[w] = "select_organiser"
  /\ IF IsOrganiser(w) THEN GoTo(w, "delete_row") ELSE Finish(w)
  /\ UNCHANGED <<tables, bucket, drawn, strays, faults>>
-----------------------------------------------------------------------------
(***************************************************************************)
(* try_add_media, the link, and put_s3_object.                             *)
(***************************************************************************)
\* Mutant: the id of the user is taken for that of an event.
NewRowOfPlace(w) == [event |-> job[w].place, cover |-> job[w].op = "add_cover"]

NewRow(w) == [event |-> IF job[w].place \in Event THEN job[w].place ELSE None,
              cover |-> job[w].op = "add_cover"]

\* Drawn ids do not repeat; bound: when they run out, the INSERT fails.  The foreign
\* key refuses rows of an event that is gone.
Insert(w) ==
  /\ pc[w] = "insert"
  /\ IF job[w].place \in events \cup Pictured /\ drawn # MediaId
     THEN \E m \in MediaId \ drawn :
            /\ media' = [media EXCEPT ![m] = NewRow(w)]
            /\ drawn' = drawn \cup {m}
            /\ pc' = [pc EXCEPT ![w] = IF job[w].op = "add_media" THEN "put" ELSE "link"]
            /\ job' = [job EXCEPT ![w].id = m]
     ELSE Finish(w) /\ UNCHANGED <<media, drawn>>
  /\ UNCHANGED <<events, link, bucket, strays, faults>>

\* Every exception is caught, that of a lost connection too.  Another id is drawn
\* and tried, up to three; a connection that stays lost fails them all.  The INSERT
\* may have been executed all the same.
FailInsert(w) ==
  /\ pc[w] = "insert"
  /\ job[w].place \in events \cup Pictured
  /\ faults < MaxFaults
  /\ faults' = faults + 1
  /\ UNCHANGED work \/ Finish(w)
  /\ \/ UNCHANGED <<media, drawn, strays>>
     \/ \E m \in MediaId \ drawn :
          /\ media' = [media EXCEPT ![m] = NewRow(w)]
          /\ drawn' = drawn \cup {m}
          /\ strays' = strays \cup {m}
  /\ UNCHANGED <<events, link, bucket>>

\* The place is linked to picture m, or to none; what was linked is overwritten.
\* If that was linked after the worker looked, it is left without use.
Relink(w, m) ==
  LET p == job[w].place
  IN /\ link' = [link EXCEPT ![p] = m]
     /\ strays' = IF job[w].clash /\ link[p] # job[w].id
                  THEN strays \cup ({link[p]} \ {None}) ELSE strays

\* The UPDATE throws if the row has been deleted; it changes nothing if the event has.
Link(w) ==
  LET p == job[w].place
      m == job[w].id
  IN /\ pc[w] = "link"
     /\ CASE p \notin events \cup Pictured ->
               GoTo(w, "put") /\ UNCHANGED <<link, strays>>
          [] p \in events \cup Pictured /\ ~ Exists(m) ->
               Finish(w) /\ UNCHANGED <<link, strays>>
          [] OTHER ->
               /\ Relink(w, m)
               /\ pc' = [pc EXCEPT ![w] = "put"]
               /\ job' = [v \in Worker |->
                    IF v # w /\ job[v].place = p /\ pc[v] \notin {"select", "put"}
                    THEN [job[v] EXCEPT !.clash = TRUE] ELSE job[v]]
     /\ UNCHANGED <<events, media, bucket, drawn, faults>>

\* An empty object is written, and its URL returned for the browser to upload to.
Put(w) ==
  LET m == job[w].id
  IN /\ pc[w] = "put"
     /\ stored' = stored \cup {m}
     /\ urls' = urls \cup {m}
     /\ strays' = IF Exists(m) THEN strays ELSE strays \cup {m}
     /\ Finish(w)
     /\ UNCHANGED <<tables, drawn, faults>>
-----------------------------------------------------------------------------
(***************************************************************************)
(* The link, the row and the object are deleted in this order.             *)
(***************************************************************************)
Unlink(w) ==
  /\ pc[w] = "unlink"
  /\ Relink(w, None)
  /\ GoTo(w, "delete_row")
  /\ UNCHANGED <<events, media, bucket, drawn, faults>>

\* Mutant: the row is left to a clean-up that does not exist.
DeleteRowLater(w) ==
  /\ pc[w] = "delete_row"
  /\ GoTo(w, "delete_object")
  /\ UNCHANGED <<tables, bucket, drawn, strays, faults>>

\* Mutant: no foreign key clears the links, as the TODO of delete_media has it.
DeleteRowDangling(w) ==
  /\ pc[w] = "delete_row"
  /\ media' = [media EXCEPT ![job[w].id] = None]
  /\ GoTo(w, "delete_object")
  /\ UNCHANGED <<events, link, bucket, drawn, strays, faults>>

DeleteRow(w) ==
  /\ pc[w] = "delete_row"
  /\ DeleteRows({job[w].id})
  /\ GoTo(w, "delete_object")
  /\ UNCHANGED <<events, bucket, drawn, strays, faults>>

\* Mutant: the object is kept, as delete_event keeps those of its event.
DeleteObjectNot(w) ==
  /\ pc[w] = "delete_object"
  /\ IF job[w].op \in PictureOp THEN PictureGone(w) ELSE Finish(w)
  /\ UNCHANGED <<tables, bucket, drawn, strays, faults>>

DeleteObject(w) ==
  /\ pc[w] = "delete_object"
  /\ stored' = stored \ {job[w].id}
  /\ IF job[w].op \in PictureOp THEN PictureGone(w) ELSE Finish(w)
  /\ UNCHANGED <<tables, urls, drawn, strays, faults>>
-----------------------------------------------------------------------------
(***************************************************************************)
(* Faults.  A connection is lost at a statement, or with the answer to the *)
(* one before: the handler runs again from its start, once.  A request to  *)
(* S3 fails, executed or not: the client gets an error.                    *)
(***************************************************************************)
\* What has changed by now is not found by the second run: the row, the link or,
\* for the object, the row that is gone.
HalfDone(w) ==
  \/ pc[w] \in {"link", "put", "delete_object"}
  \/ pc[w] = "delete_row" /\ job[w].op # "delete_media"

LoseConnection(w) ==
  /\ pc[w] \in {"select", "select_organiser", "link", "unlink", "delete_row", "delete_object"}
     \/ (pc[w] = "put" /\ job[w].op # "add_media")
  /\ faults < MaxFaults
  /\ faults' = faults + 1
  /\ strays' = IF HalfDone(w) THEN strays \cup {job[w].id} ELSE strays
  /\ IF job[w].again
     THEN Finish(w)
     ELSE /\ pc' = [pc EXCEPT ![w] = "select"]
          /\ job' = [job EXCEPT ![w].again = TRUE, ![w].clash = FALSE,
                       ![w].op = IF @ = "remove_again" THEN "remove_picture" ELSE @,
                       ![w].id = IF job[w].op = "delete_media" THEN @ ELSE None,
                       ![w].place = IF job[w].op = "delete_media" THEN None ELSE @]
  /\ UNCHANGED <<tables, bucket, drawn>>

\* Mutant: after a failed request the link is made again.
FailS3Relinks(w) ==
  /\ pc[w] = "put"
  /\ job[w].op # "add_media"
  /\ faults < MaxFaults
  /\ faults' = faults + 1
  /\ strays' = strays \cup {job[w].id}
  /\ GoTo(w, "link")
  /\ UNCHANGED <<tables, bucket, drawn>>

FailS3(w) ==
  /\ pc[w] \in {"put", "delete_object"}
  /\ faults < MaxFaults
  /\ faults' = faults + 1
  /\ strays' = strays \cup {job[w].id}
  /\ \/ UNCHANGED stored
     \/ pc[w] = "put" /\ stored' = stored \cup {job[w].id}
     \/ pc[w] = "delete_object" /\ stored' = stored \ {job[w].id}
  /\ Finish(w)
  /\ UNCHANGED <<tables, urls, drawn>>
-----------------------------------------------------------------------------
(***************************************************************************)
(* What happens beside the handlers: the browser's upload, which renews an *)
(* object that was deleted meanwhile (it may be as late as it likes: that  *)
(* the URL expires after five minutes is left out), and delete_event,      *)
(* which leaves the objects of its event in the bucket.                    *)
(***************************************************************************)
Upload(m) ==
  /\ m \in urls \ stored
  /\ stored' = stored \cup {m}
  /\ strays' = strays \cup {m}
  /\ UNCHANGED <<tables, urls, drawn, work, faults>>

DeleteEvent(e) ==
  LET gone == {m \in MediaId : Exists(m) /\ media[m].event = e}
  IN /\ e \in events
     /\ events' = events \ {e}
     /\ DeleteRows(gone)
     /\ strays' = strays \cup gone
     /\ UNCHANGED <<bucket, drawn, work, faults>>

Step(w) ==
  \/ ReceiveCover(w) \/ ReceiveDeleteMedia(w) \/ ReceivePicture(w)
  \/ SelectAdding(w) \/ SelectLinked(w) \/ SelectMedia(w) \/ SelectOrganiser(w)
  \/ Insert(w) \/ FailInsert(w) \/ Link(w) \/ Put(w)
  \/ Unlink(w) \/ DeleteRow(w) \/ DeleteObject(w)
  \/ LoseConnection(w) \/ FailS3(w)

Next ==
  \/ \E w \in Worker : Step(w)
  \/ \E m \in MediaId : Upload(m)
  \/ \E e \in Event : DeleteEvent(e)

Spec == Init /\ [][Next]_vars
-----------------------------------------------------------------------------
TypeOK ==
  /\ events \subseteq Event
  /\ media \in [MediaId -> Row \cup {None}]
  /\ link \in [Place -> MediaId \cup {None}]
  /\ stored \subseteq MediaId
  /\ urls \subseteq MediaId
  /\ drawn \subseteq MediaId
  /\ pc \in [Worker -> {"idle", "select", "select_organiser", "insert", "link", "put",
                        "unlink", "delete_row", "delete_object"}]
  /\ job \in [Worker -> Job]
  /\ strays \subseteq MediaId
  /\ faults \in 0..MaxFaults

At(w, m, steps) == job[w].id = m /\ pc[w] \in steps

\* The worker is to link m, or has unlinked it and deletes it next.
Holds(w, m) == At(w, m, {"link", "delete_row"}) /\ job[w].op # "delete_media"

(***************************************************************************)
(* A cover or a profile picture that a page is told of is a row of its     *)
(* event, marked as cover, or of no event, and no other place shows it:    *)
(* whatever deletes the row between the statements of add_cover_image,     *)
(* set_profile_picture and the deletions also takes the link.              *)
(***************************************************************************)
LinksHold == \A p \in Place : link[p] # None =>
  /\ media[link[p]] = [event |-> IF p \in Event THEN p ELSE None, cover |-> p \in Event]
  /\ \A q \in Place : link[q] = link[p] => q = p

(***************************************************************************)
(* A row has its object, unless a worker is still to write it or a fault   *)
(* or an overlap took it: the deletions remove the row before the object.  *)
(***************************************************************************)
NoDeadRows == \A m \in MediaId : Exists(m) =>
  m \in stored \cup strays \/ \E w \in Worker : At(w, m, {"link", "put"})

(***************************************************************************)
(* "If is_cover_image then id == event->cover_image_id", and a row without *)
(* an event is somebody's profile picture (event organisation site.sql):   *)
(* so it is, unless a worker is about to link it or has just unlinked it,  *)
(* or one that overlapped with another on the same place, or a fault, left *)
(* it over.                                                                *)
(***************************************************************************)
UsedOrExplained == \A m \in MediaId :
  Exists(m) /\ (media[m].cover \/ media[m].event = None) =>
    \/ m \in strays \/ \E p \in Place : link[p] = m
    \/ \E w \in Worker : Holds(w, m)

(***************************************************************************)
(* An object without a row is about to be deleted, unless a fault, a late  *)
(* upload, a worker that wrote it late or the end of its event explains    *)
(* it: nothing in the program ever finds such an object again.             *)
(***************************************************************************)
NoLeaks == \A m \in stored \ strays :
  Exists(m) \/ \E w \in Worker : At(w, m, {"delete_object"})

(***************************************************************************)
(* A row of an event that remains is removed by a handler of its organiser *)
(* only: delete_media reads the event and the organiser in two statements, *)
(* delete_cover_image uses the id that it read before the first UPDATE.    *)
(***************************************************************************)
RemovedByOrganiser == [][\A m \in MediaId :
  Exists(m) /\ media[m].event \in events' /\ media'[m] = None =>
    \E w \in Worker : At(w, m, {"delete_row"}) /\ job[w].user = Organiser[media[m].event]]_vars

(***************************************************************************)
(* The tables are the gallery: of a row that is to be linked by a worker,  *)
(* it is known that no place has shown it.                                 *)
(***************************************************************************)
ToBeShown == {m \in MediaId : Exists(m) /\ \E w \in Worker : At(w, m, {"link"})}

Looks == INSTANCE Gallery WITH
  Person <- Pictured, Picture <- MediaId,
  pictures <- media, used <- drawn, fresh <- ToBeShown, shown <- link
ImplementsGallery == Looks!Spec
=============================================================================
