\* The column the alerts are ordered by has another name in migration 003: every
\* poll fails, and an alert never reaches an open stream.
SPECIFICATION LiveMCSpec
CONSTANTS
  u1 = u1  u2 = u2
  Users = {u1}
  RoleOf <- TwoRoles
  Streams = {s1}
  CreatedAt = FALSE
  Limit = 1  Window = 1  Batch = 2
  MaxRows = 1  MaxNow = 0  MaxConnects = 1  MaxFaults = 0  MaxRestarts = 0
  Planned = 1  MaxEvents = 0  MaxMinutes = 0  MaxOrders = 1  None = None
  m1 = m1  m2 = m2
  Msgs = {m1}
  Replicas = {r1}
  FetchBatch = 1  MaxDeliver = 1  MaxExpiries = 0  MaxFailures = 0
PROPERTIES
  StreamsDeliver
CHECK_DEADLOCK FALSE
