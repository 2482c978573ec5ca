\* Two connections of two people over three alerts or rows; one KPI snapshot;
\* two replicas of each consumer, two messages of any payload.
SPECIFICATION LiveMCSpec
CONSTANTS
  u1 = u1  u2 = u2
  Users = {u1, u2}
  RoleOf <- TwoRoles
  Streams = {s1, s2}
  CreatedAt = TRUE
  Limit = 1  Window = 1  Batch = 2
  MaxRows = 3  MaxNow = 2  MaxConnects = 2  MaxFaults = 1  MaxRestarts = 1
  Planned = 2  MaxEvents = 2  MaxMinutes = 2  MaxOrders = 1  None = None
  m1 = m1  m2 = m2
  Msgs = {m1, m2}
  Replicas = {r1, r2}
  FetchBatch = 2  MaxDeliver = 2  MaxExpiries = 1  MaxFailures = 1
INVARIANTS
  AlertsMetered KpisAgree EffectsFirst
PROPERTIES
  StreamsDeliver Settles
CHECK_DEADLOCK FALSE
