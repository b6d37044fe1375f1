SPECIFICATION FairSpec
CONSTANTS
  s1 = s1
  s2 = s2
  c1 = c1
  c2 = c2
  Sessions = {s1, s2}
  Calls = {c1, c2}
  Jobs <- MCJobs
  Owns = {o1}
  NoProc = NoProc
  MaxLive = 1
  Frames = 1
  MaxUpsets = 1
INVARIANTS
  InPlace
PROPERTIES
  Settles
CHECK_DEADLOCK FALSE
