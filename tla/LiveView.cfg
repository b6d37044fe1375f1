SPECIFICATION Spec
CONSTANTS
  Cap = 2
  MaxTurns = 3
  MaxDeltas = 2
  MaxParts = 2
  MaxQueue = 1
  MaxDrops = 1
INVARIANTS
  ShowsState
  MirrorsPreview
CHECK_DEADLOCK FALSE
