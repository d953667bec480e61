CONSTANTS
  Instance = {"movies"}
  Key = {"batch_size", "search_limit"}
  Value = {0, 1, 2}
  Blank = Blank
  Malformed = Malformed
  NoRow = NoRow
  Defaults <- MCDefaults
  MaxCooldownPeriod = 4
  MaxSearchInterval = 4
  Client = {c1, c2}
  Nobody = Nobody
  SetRequests <- MCSetRequests
  RemoveRequests <- MCRemoveRequests
  Id = {"movies", "shows"}
  AppTypes = {"sonarr", "whisparr"}
SPECIFICATION MCSpec
INVARIANTS TypeOK StoredSettings ResolvedWasInForce UpgradeLosesNothing
PROPERTIES ImplementsSettings RequestsAnswered
