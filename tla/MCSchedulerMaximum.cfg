CONSTANTS
  Instance = {"movies", "shows"}
  NameRank <- ByName
  Item = {1, 2}
  Profiles <- LimitProfiles
  None = None
  Libraries <- LimitLibraries
  MaxLimit = 2
  MaxBatch = 2
  CooldownRetention = 3
  PruneInterval = 4
  Environment = {}
  HourLen = 2
  DayLen = 4
  MaxClock = 4
  MaxLost = 0
SPECIFICATION Spec
INVARIANT HourlyMaximum
