\* No call is lost and no run is killed.
SPECIFICATION MCSpec
CONSTANTS
  Runs = {1, 2}
  Files <- Migrations
  CollectionSpecs <- OneItem
  PayloadIndexes = {}
  Constraints <- OneItem
  Docs <- OneItem
  Broken = {}
  Datasets <- OneItem
  Nothing = Nothing
  MaxLosses = 0
  MaxKills = 0
INVARIANTS
  RerunSafe
CHECK_DEADLOCK FALSE
