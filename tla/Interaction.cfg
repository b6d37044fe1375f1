SPECIFICATION Spec
CONSTANTS
  t = t
  NoTool = NoTool
  p = p
  q = q
  Requests = {p, q}
  Keys = {t}
  NoKey = NoTool
  Asks <- MCAsks
  Users = {u}
  Setters = {x}
  Watchers = {w}
  NoRequest = NoRequest
INVARIANTS
  OneQuestion
  AllowIsGranted
PROPERTY AnswersArrive
CHECK_DEADLOCK FALSE
