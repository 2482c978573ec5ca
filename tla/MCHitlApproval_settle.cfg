\* Escalation under the fairness of the background loops: a thread's rows, one
\* of them a safety interlock, and a budget row whose audits are refused
\* compete for the one slot of a scan; one fault.
SPECIFICATION LiveSpec
CONSTANTS
  asked = asked
  other = other
  budget = budget
  t1 = t1
  n1 = n1
  n2 = n2
  n3 = n3
  Actions = {asked, other, budget}
  FreshIds = {n1, n2}
  Threads = {t1}
  Requests = {r1}
  Supervisors = {s1}
  ThreadOf <- TwoActionThreadOf
  TierOf <- TwoActionTier
  Detached = {budget}
  Unauditable = {budget}
  Verbs = {"approve", "escalate"}
  Motivations = {"given"}
  ScanLimit = 1
  MaxFaults = 1
  NoRow = NoRow
  None = None
INVARIANTS
  InterlockOnlyByHuman
PROPERTIES
  ImplementsLifecycle
  OpenChainsSettle
CHECK_DEADLOCK FALSE
