SPECIFICATION FairSpec
CONSTANTS
  s1 = s1
  s2 = s2
  c1 = c1
  c2 = c2
  Sessions = {s1, s2}
  Calls = {c1, c2}
  PiJobs <- MCJobs
  Procs = {p1, p2}
  NoProc = NoProc
  Extension = Extension
  Max = 1
  Cap = 1
  MaxUpsets = 1
INVARIANTS
  InPlace
PROPERTIES
  CallsEnd
CHECK_DEADLOCK FALSE
