SPECIFICATION NodesEnabledSpec
CONSTANTS
  Nodes = {n1, n2}
  Selectors = {s1, s2}
  Requests = {r1, r2}
  Operations = {"drop"}
  Faults = {}
  Cancels = FALSE
  MaxCommits = 2
  MaxRevision = 2
  n1 = n1
  n2 = n2
  s1 = s1
  s2 = s2
  r1 = r1
  r2 = r2
INVARIANT
  DeletedNodesUnreferenced
SYMMETRY Symmetric
CHECK_DEADLOCK FALSE
