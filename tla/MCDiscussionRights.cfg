\* The rights side: an organiser and a guest who comes and goes, one comment,
\* two replies, no fault.
CONSTANTS
  owner = owner
  None = None
  User = {owner, guest}
  Event = {party}
  Worker = {w1, w2}
  Organiser <- MCOrganiser
  Visitor = {guest}
  Promotable = {guest}
  MaxReplies = 2
  MaxCommentId = 1
  MaxReplyId = 2
  MaxFaults = 0
SPECIFICATION Spec
SYMMETRY WorkerSymmetry
INVARIANTS
  AuthorsWereAdmitted
PROPERTIES
  RemovedByRight
