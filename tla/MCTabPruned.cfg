CONSTANTS
  Instance = {"movies"}
  Kinds <- MCKinds
  Filters <- MCFilters
  NoFilter <- AllEntries
  LinkedFilter <- Upgrades
  Null = Null
  PerPage = 1
  Retention = 3
  Zones <- EastZones
  MaxClock = 5
  MaxRequests = 2
  MaxFailures = 3
SPECIFICATION Spec
PROPERTY PruneKeepsRecent
