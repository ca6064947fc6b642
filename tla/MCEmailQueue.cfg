\* A limit of two, lists of up to two, seven mails.  The process may end: no deadlock check.
CONSTANTS
  Limit = 2
  MaxBatch = 2
  MaxMails = 7
SPECIFICATION FairSpec
CHECK_DEADLOCK FALSE
INVARIANTS
  TypeOK
  BacklogBounded
PROPERTIES
  ImplementsOutbox
  AcceptedTried
