\* Two requests at a time, one key, a cache of one entry, each kind of endpoint;
\* a lifespan in which one dependency fails, one call raises, one cancellation comes.
SPECIFICATION LiveMCSpec
CONSTANTS
  Clients = {c1, c2}
  Keys = {k}
  NoKey = NoKey
  Bodies = {b1, b2}
  Malformed = Malformed
  TTL = 1
  MaxSize = 1
  Offers <- Kinds
  MaxRequests = 3
  MaxNow = 1
  MaxRestarts = 1
  MaxDrops = 1  MaxRaises = 1  MaxCancels = 1
INVARIANTS
  AnswersExplained LifecycleHolds
PROPERTIES
  Served StartsAndStopsEnd
CHECK_DEADLOCK FALSE
