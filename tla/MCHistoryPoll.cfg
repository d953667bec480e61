CONSTANTS
  Instance = {1, 2}
  Item = {0, 5}
  ImportTypes = 2
  PageSize = 1
  Lookback = 1
  Reliable = {2}
  Environment = {"create", "delete", "manualDeletion", "databaseError", "arrError",
                 "shutdown", "crash"}
  MaxClock = 2
SPECIFICATION MCSpec
INVARIANTS TypeOK ListedOnce ImportsAccountedFor UpgradeOfItem
PROPERTY EventsPolled
