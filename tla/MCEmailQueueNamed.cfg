\* Violated: only the first mail of a list of invitations carries the event's name.
CONSTANTS
  Limit = 2
  MaxBatch = 2
  MaxMails = 4
SPECIFICATION Spec
CHECK_DEADLOCK FALSE
INVARIANTS
  InvitationsNamed
