\* One calculation, agent, job or script a behaviour, each with its own small
\* instance.
SPECIFICATION MCSpec
CONSTANTS
  c1 = c1  c2 = c2  fileA = fileA  fileB = fileB  k1 = k1  k2 = k2
  d1 = d1  d2 = d2  g1 = g1  g2 = g2  s1 = s1  s2 = s2  s3 = s3  w1 = w1  w2 = w2
  None = None  NoField = NoField  NoRow = NoRow
  Clients = {c1, c2}
  MaxSteps = 2  MaxCalls = 4  MaxErrors = 1
  Sources = {fileA, fileB}  Contents <- Versions  Commands = {k1, k2}  Collections = {"sop"}
  UpsertSize = 1  MaxEdits = 1  MaxAborts = 1
  Detectors = {d1, d2}  Gateways = {g1, g2}
  Hour = 2  CoolDown = 2  Limit = 1  MinSample = 1
  MaxRows = 4  MaxTime = 3  MaxFailures = 1
  Steps = {s1, s2, s3}  Keys = {w1, w2}  Deltas <- Spendings  Limits <- AgentLimits  MaxLost = 1
  PrefetchLimit = 2  NearPercent = 92  TraverseLimit = 2
  n1 = n1  n2 = n2  e1 = e1  e2 = e2  e3 = e3  e4 = e4
  Nodes = {n1, n2}  Events = {e1, e2, e3, e4}  Alarms = {e2}  Workers = {w1, w2}
  NodeOf <- NodeOfEvent
  QueueSize = 2  BatchSize = 2  MaxFaults = 2
  Loop = Loop  Closer = Closer
  Assets = {"loom", "press"}
  Taxonomy = {"weaving"}
  TicksPerMin = 2  Interval = 2  DayLength = 4  Drawn = {1, 2}  ErrorPause = 2
  MaxClock = 5
  Runs = {1, 2, 3}  Files <- FiveFiles
  CollectionSpecs <- TwoCollections  PayloadIndexes = {"acl_level", "lang"}  Constraints <- TwoLabels
  Docs <- TwoDocs  Broken = {"d2"}  Datasets <- TwoDatasets
  Nothing = Nothing  MaxLosses = 1  MaxKills = 1
SYMMETRY Symmetric
INVARIANTS
  DraftsHold JudgementsHold LookupsHold
  ReportsTrue ReportHolds StoresAgree AlertsLimited SpendingWatched
  EventsAccounted FaultsAsProfiled ProvisioningHolds
CHECK_DEADLOCK FALSE
