CONSTANTS
  Instance = {1}
  Item = {5}
  ImportTypes = 1
  PageSize = 50
  Lookback = 50
  Reliable = {}
  Environment = {}
  MaxClock = 3
SPECIFICATION Spec
INVARIANT UpgradesListed
