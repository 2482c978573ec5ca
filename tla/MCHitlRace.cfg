\* Two people answer, by either endpoint, while a supervisor escalates; or two
\* gateway replicas escalate the same rows while one person answers.  A thread's
\* operator action and its budget row share the thread_id.
SPECIFICATION MCSpec
CONSTANTS
  asked = asked
  other = other
  budget = budget
  t1 = t1
  n1 = n1
  n2 = n2
  n3 = n3
  Actions = {asked, budget}
  FreshIds = {n1, n2}
  Threads = {t1}
  Requests = {r1, r2}
  Supervisors = {s1, s2}
  ThreadOf <- OneThreadOf
  TierOf <- OneThreadTier
  Detached = {budget}
  Unauditable = {budget}
  Verbs = {"approve", "escalate"}
  Motivations = {"given", "placeholder"}
  ScanLimit = 2
  MaxFaults = 1
  NoRow = NoRow
  None = None
SYMMETRY Symmetric
INVARIANTS
  TypeOK DecisionsTrue OneOpenRow EscalationChain EscalationsAudited
PROPERTIES
  DecidedRowsFrozen
CHECK_DEADLOCK FALSE
