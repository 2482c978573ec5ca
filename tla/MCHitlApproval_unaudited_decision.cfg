\* approvals.py:244: the node writes the audit row when the graph resumes.
SPECIFICATION Spec
CONSTANTS
  asked = asked
  other = other
  budget = budget
  t1 = t1
  n1 = n1
  n2 = n2
  n3 = n3
  Actions = {asked}
  FreshIds = {n1, n2, n3}
  Threads = {t1}
  Requests = {r1}
  Supervisors = {s1}
  ThreadOf <- AskedThreadOf
  TierOf <- AskedTier
  Detached = {}
  Unauditable = {}
  Verbs = {"approve"}
  Motivations = {"given"}
  ScanLimit = 1
  MaxFaults = 0
  NoRow = NoRow
  None = None
INVARIANTS
  DecisionsAudited
CHECK_DEADLOCK FALSE
