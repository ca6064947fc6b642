\* The counting side: two workers, one user, one comment, up to four replies,
\* a limit of one reply, one fault.  No symmetry: CountConverges is a liveness property.
CONSTANTS
  owner = owner
  None = None
  User = {owner}
  Event = {party}
  Worker = {w1, w2}
  Organiser <- MCOrganiser
  Visitor = {}
  Promotable = {}
  MaxReplies = 1
  MaxCommentId = 1
  MaxReplyId = 4
  MaxFaults = 1
SPECIFICATION FairSpec
INVARIANTS
  TypeOK
  RepliesBelong
  CountSettled
  RepliesBounded
PROPERTIES
  ImplementsBoard
  CountConverges
