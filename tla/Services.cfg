SPECIFICATION Spec
CONSTANTS
  MaxLines = 2
  MaxDeltas = 1
  Fires = {f1, f2}
  NoTimer = NoTimer
  NoTurn = NoTurn
  MaxResumes = 1
  MaxWait = 1
  MaxNow = 2
  MaxQueued = 1
  MaxLate = 1
  Pubs = {p, q}
  Subs = {s, t}
  Cap = 1
  MaxSeed = 1
  MaxSent = 2
INVARIANTS
  Forwarding
  Bounded
  Delivers
PROPERTIES
  TurnCloses
  ResumesAfterReset
  WaitEnds
  NeverStalls
CHECK_DEADLOCK FALSE
