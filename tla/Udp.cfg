SPECIFICATION FairUdp
CONSTANTS
  ca = ca
  tcp = tcp
  x = x
  Sources = {ca}
  Targets = {x}
  SessionOf <- MCSessionOf
  Capacity = 1
  MaxPackets = 2
  MaxCloses = 1
INVARIANTS
  WorkersOwned
  ClosesAreCurrent
PROPERTIES
  CloseRequestServed
  SessionEndReleases
CHECK_DEADLOCK FALSE
