\* The guest-list side: every operation on one event, two workers, no fault.
CONSTANTS
  owner = owner
  guest = guest
  None = None
  User = {owner, guest}
  Guest = {guest}
  Event = {party}
  Worker = {w1, w2}
  Organiser <- MCOrganiser
  Moderator = {guest}
  Offered = {"create_event", "edit_event", "delete_event",
             "register_attendance", "unregister_attendance"}
  Submitted <- MCForms
  MaxFaults = 0
SPECIFICATION Spec
SYMMETRY WorkerSymmetry
INVARIANTS
  AttendeesEntitled
  ListsBelong
  ChangeTold
PROPERTIES
  ImplementsEventRows
