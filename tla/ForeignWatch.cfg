SPECIFICATION FSpec
CONSTANTS
  Sends = {a, b}
  Relayed = {}
  NoSend = NoSend
  Foreign = Foreign
  MaxQueued = 1
  MaxLog = 2
INVARIANTS
  OwnNotReported
PROPERTIES
  ReportedOnce
  ForeignNoticed
CHECK_DEADLOCK FALSE
