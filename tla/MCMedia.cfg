\* Two workers, an organiser and a guest, one event, three pictures, one fault.
CONSTANTS
  ann = ann
  None = None
  Worker = {w1, w2}
  User = {ann, bob}
  Pictured = {ann}
  Event = {party}
  Organiser <- MCOrganiser
  MediaId = {m1, m2, m3}
  MaxFaults = 1
SPECIFICATION Spec
SYMMETRY Symmetry
INVARIANTS
  TypeOK
  LinksHold
  NoDeadRows
  UsedOrExplained
  NoLeaks
PROPERTIES
  RemovedByOrganiser
  ImplementsGallery
