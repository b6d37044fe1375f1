SPECIFICATION Spec
CONSTANTS
  a = a
  b = b
  c = c
  Sends <- MCSends
  Relayed <- MCRelayed
  NoSend = NoSend
  MaxQueued = 1
INVARIANTS
  TypeOK
  OwnReply
  SingleTurn
  NoStranded
PROPERTIES
  OnDoneOnce
  SerialSpec
  SendsSettle
CHECK_DEADLOCK FALSE
