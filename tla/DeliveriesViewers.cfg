SPECIFICATION Spec
CONSTANTS
  Cases <- MCCases
  MaxQueued = 1
  MaxNotes = 1
  Reach = 4
  Tabs = {1, 2}
  MaxRecent = 2
  MaxLines = 3
  MaxWindows = 2
  MaxUpsets = 2
  Checkers = {1, 2}
  Releases <- MCReleases
  MaxRuns = 2
  MaxChecks = 2
  MaxLookupFails = 1
  Ushers = {1, 2}
  Sessions = {1, 2}
  MaxBegun = 3
  MaxDrops = 1
  Endpoints = {1, 2}
  MaxEvents = 2
  MaxPushFails = 1
  MaxActs = 4
  AutoAfter = 1
  MaxNow = 3
  MaxMetaActs = 3
  MaxMetaFails = 1
  Names = {"default", "a", "b"}
  DefaultName = "default"
  Unset = Unset
  MaxSettingsActs = 4
  MaxSettingsFails = 2
INVARIANT PushedUnlessViewed
CHECK_DEADLOCK FALSE
