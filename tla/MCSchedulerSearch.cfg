CONSTANTS
  Instance = {"movies", "shows"}
  NameRank <- ByName
  Item = {1, 2, 3}
  Profiles <- SearchProfiles
  None = None
  Libraries <- SearchLibraries
  MaxLimit = 2
  MaxBatch = 2
  CooldownRetention = 2
  PruneInterval = 0
  Environment = {"arrError", "databaseError", "replyLost", "settings", "create", "delete", "crash"}
  HourLen = 2
  DayLen = 8
  MaxClock = 6
  MaxLost = 2
SPECIFICATION SearchSpec
INVARIANTS TypeOK Accounting HourlyCap CooldownRespected PacedWhileKept
PROPERTIES KeepsPace OnlyInWindow
