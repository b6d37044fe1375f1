SPECIFICATION Spec
CONSTANTS
  NoText = NoText
INVARIANTS
  Paged
  Registered
  OnTime
  Mirrors
  Relays
  Guests
CHECK_DEADLOCK FALSE
