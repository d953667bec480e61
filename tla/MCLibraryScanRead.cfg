SPECIFICATION MCSpec
CONSTANTS
  Item = {1, 2}
  ProfileId = {1, 2}
  QualityId = {1, 2, 9}
  Quality = {1, 2}
  AppType = {"sonarr", "radarr", "lidarr"}
  Contents <- MCContents
  FirstContents <- MCFirstContents
  MaxChanges = 2
INVARIANTS TypeOK ListedWasNeeded NeededIsListed ListedOnce
