\* A thread of any agent: four runs that may overlap, one of which may fail,
\* and content that may change between them.  A thread's audit rows replayed
\* while they are written.
SPECIFICATION MCSpec
CONSTANTS
  t1 = t1  t2 = t2  t3 = t3  t4 = t4  t5 = t5  t6 = t6  t7 = t7  t8 = t8  t9 = t9
  c2 = c2
  unknown = unknown
  a1 = a1  a2 = a2
  Threads = {t1, t2, t3, t4, t5, t6, t7, t8, t9}
  Unrouted = {t8, t9}
  AgentOf <- EveryAgent
  Runs = {1, 2, 3, 4}
  Contents = {c1, c2}
  Nothing = Nothing
  MaxFaults = 1
INVARIANTS
  TypeOK SignedByAnswer RowsExplained ReplayTells
PROPERTIES
  AnswerRecorded
CHECK_DEADLOCK FALSE
