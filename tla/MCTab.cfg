CONSTANTS
  Instance = {"movies"}
  Kinds <- MCKinds
  Filters <- MCFilters
  NoFilter <- AllEntries
  LinkedFilter <- Upgrades
  Null = Null
  PerPage = 1
  Retention = 1
  Zones <- MCZones
  MaxClock = 4
  MaxRequests = 2
  MaxFailures = 3
SPECIFICATION MCSpec
INVARIANT OneTimer
PROPERTIES PagingSkipsNothing  ShowsTheQuestion WarningFollowsServer
CHECK_DEADLOCK FALSE
