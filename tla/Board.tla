-------------------------------- MODULE Board --------------------------------
(***************************************************************************)
(* What the discussion under the events promises to its readers, with      *)
(* every request taking effect in one step: threads are opened under fresh *)
(* ids in increasing order, which is what paging with "id <= start ORDER   *)
(* BY id DESC" relies on; a reply joins a thread that is open, and no      *)
(* thread holds more than Limit of them; a closed thread takes all its     *)
(* replies with it and is never opened again.                              *)
(***************************************************************************)
EXTENDS Integers, FiniteSets

CONSTANT Limit

VARIABLES
  threads,        \* ids of the comments on display
  posts,          \* replies on display, as pairs <<comment id, reply id>>
  lastThread,     \* the largest comment id issued
  lastPost        \* the largest reply id issued

board == <<threads, posts, lastThread, lastPost>>

PostsIn(c) == {p \in posts : p[1] = c}

Init ==
  /\ threads = {}
  /\ posts = {}
  /\ lastThread = 0
  /\ lastPost = 0

OpenThread ==
  /\ lastThread' = lastThread + 1
  /\ threads' = threads \cup {lastThread'}
  /\ UNCHANGED <<posts, lastPost>>

AddPost(c) ==
  /\ Cardinality(PostsIn(c)) < Limit
  /\ lastPost' = lastPost + 1
  /\ posts' = posts \cup {<<c, lastPost'>>}
  /\ UNCHANGED <<threads, lastThread>>

RemovePost(p) ==
  /\ posts' = posts \ {p}
  /\ UNCHANGED <<threads, lastThread, lastPost>>

\* One thread, or all the threads of an event.
CloseThreads(gone) ==
  /\ threads' = threads \ gone
  /\ posts' = {p \in posts : p[1] \notin gone}
  /\ UNCHANGED <<lastThread, lastPost>>

Next ==
  \/ OpenThread
  \/ \E c \in threads : AddPost(c)
  \/ \E p \in posts : RemovePost(p)
  \/ \E gone \in SUBSET threads : CloseThreads(gone)

Spec == Init /\ [][Next]_board
=============================================================================
