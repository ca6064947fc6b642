\* Violated: delete_event asks for the attendees after they are deleted.
CONSTANTS
  owner = owner
  guest = guest
  None = None
  User = {owner, guest}
  Guest = {guest}
  Event = {party}
  Worker = {w1}
  Organiser <- MCOrganiser
  Moderator = {}
  Offered = {"create_event", "edit_event", "delete_event",
             "register_attendance", "unregister_attendance"}
  Submitted <- MCForms
  MaxFaults = 0
SPECIFICATION Spec
INVARIANTS
  DeletionTold
