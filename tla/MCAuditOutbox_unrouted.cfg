\* A record of a knowledge agent, nothing fails.
SPECIFICATION MCSpec
CONSTANTS
  Records = {r1}
  Streamless = {r1}
  Replicas = {k1}
  MaxAttempts = 2
  BatchSize = 2
  AckLoss = {FALSE}
  PublishedAt = TRUE
  MaxFaults = 0
  NoRow = NoRow
  None = None
INVARIANTS
  RaisedByTheTable
CHECK_DEADLOCK FALSE
