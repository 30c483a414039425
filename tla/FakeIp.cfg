SPECIFICATION FakeIpSpec
CONSTANTS
  Domains = {d1, d2, d3}
  Size = 3
  MaxEntries = 2
  TtlSeconds = 4
  TouchInterval = 2
  MaxTime = 6
  Tasks = {t1, t2}
  d1 = d1
  d2 = d2
  d3 = d3
  e1 = e1
  e2 = e2
  e3 = e3
  t1 = t1
  t2 = t2
INVARIANTS
  PoolConsistent
  MemoryIsDurable
  AnswersStayResolvable
  ViewServesQueries
  ImportRecovers
PROPERTIES
  NoEarlyRebind
SYMMETRY Symmetric
CHECK_DEADLOCK FALSE
