SPECIFICATION ReloadSpec
CONSTANTS
  Nodes = {n1, n2}
  Selectors = {s1, s2}
  Requests = {r1, r2}
  Operations = {"select", "delete", "drop"}
  Faults = {"commit", "build", "handler", "prepare"}
  Cancels = TRUE
  MaxCommits = 2
  MaxRevision = 2
  n1 = n1
  n2 = n2
  s1 = s1
  s2 = s2
  r1 = r1
  r2 = r2
  Inbounds = {web, game}
  Transports <- MCTransports
  Transparent = {web}
  Capacity = 1
  MaxVersion = 1
  web = web
  game = game
  proxy = proxy
INVARIANTS
  SelectorsCurrent
  RunningIsPersisted
  AnnouncedIsServed
  ListenersSettle
PROPERTIES
  CloseNotLost
SYMMETRY Symmetric
CHECK_DEADLOCK FALSE
