\* Violated: a guest added while publishing a private event is mailed and not listed.
CONSTANTS
  owner = owner
  guest = guest
  None = None
  User = {owner, guest}
  Guest = {guest}
  Event = {party}
  Worker = {w1}
  Organiser <- MCOrganiser
  Moderator = {}
  Offered = {"create_event", "edit_event"}
  Submitted <- LastInvitation
  MaxFaults = 0
SPECIFICATION Spec
PROPERTIES
  MailOpens
