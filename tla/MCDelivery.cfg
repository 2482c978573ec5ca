\* Two replicas retry the same rows in batches of one or two, two faults; a
\* publish that raises may have been stored; the retry loops are fair; the
\* cluster of one record has no subject.  A bridge with two workers, three
\* events of two nodes and two faults.
SPECIFICATION DeliverySpec
CONSTANTS
  Records = {r1, r2, r3}
  Streamless = {r3}
  Replicas = {k1, k2}
  MaxAttempts = 2
  BatchSize = 2
  AckLoss = {TRUE, FALSE}
  PublishedAt = TRUE
  MaxFaults = 2
  NoRow = NoRow
  None = None
  n1 = n1  n2 = n2  e1 = e1  e2 = e2  e3 = e3  w1 = w1  w2 = w2
  Loop = Loop  Closer = Closer
INVARIANTS
  TypeOK RecordsShip CopiesBounded
PROPERTIES
  OutboxDrains BridgeDrains
CHECK_DEADLOCK FALSE
