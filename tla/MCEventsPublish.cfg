\* The publishing side: two workers create, edit and publish up to two events, one fault.
\* No symmetry: PublicationTold is a liveness property.
CONSTANTS
  owner = owner
  guest = guest
  None = None
  User = {owner, guest}
  Guest = {guest}
  Event = {party, fair}
  Worker = {w1, w2}
  Organiser <- MCOrganiser
  Moderator = {}
  Offered = {"create_event", "edit_event"}
  Submitted <- PublishForms
  MaxFaults = 1
SPECIFICATION FairSpec
INVARIANTS
  TypeOK
  ToldOnce
  PromisesKept
  SuccessMeansMailed
  NothingLeaks
PROPERTIES
  PublicationTold
