\* The table as migration 003 creates it: no row is ever shipped.
SPECIFICATION MCSpec
CONSTANTS
  Records = {r1, r2}
  Streamless = {}
  Replicas = {k1}
  MaxAttempts = 2
  BatchSize = 2
  AckLoss = {FALSE}
  PublishedAt = FALSE
  MaxFaults = 0
  NoRow = NoRow
  None = None
PROPERTIES
  OutboxDrains
CHECK_DEADLOCK FALSE
