\* Two events, two addresses.
CONSTANTS
  Event = {party, fair}
  Email = {bob, eve}
  None = None
SPECIFICATION Spec
PROPERTIES
  GuestsByChoice
