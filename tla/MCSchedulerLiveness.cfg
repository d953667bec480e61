CONSTANTS
  Instance = {"movies", "shows"}
  NameRank <- ByName
  Item = {1}
  Profiles <- LiveProfiles
  None = None
  Libraries <- LiveLibraries
  MaxLimit = 2
  MaxBatch = 2
  CooldownRetention = 3
  PruneInterval = 0
  Environment = {"replyLost", "delete", "databaseError", "shutdown"}
  HourLen = 2
  DayLen = 2
  MaxClock = 2
  MaxLost = 1
SPECIFICATION LiveSpec
PROPERTIES StaleScheduleRemoved ShutdownCompletes InstanceServed
