\* Two workers, a page with two requests under way, two notifications.
CONSTANTS
  Worker = {w1, w2}
  Poll = {p1, p2}
  MaxId = 2
  MaxMarks = 1
  MaxFaults = 1
SPECIFICATION Spec
SYMMETRY Symmetry
INVARIANTS
  TypeOK
  MailedOnce
  SilenceExplained
  ListedOnce
  SeenIsListed
PROPERTIES
  ImplementsNewsLog
