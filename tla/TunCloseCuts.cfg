SPECIFICATION TunSpec
CONSTANTS
  TcpFlows = {ta, tb}
  ChannelCap = 2
  TxCap = 1
  ChunkLen = 2
  Budgets <- MCBudgets
  UdpFlows = {sx, sy, tx}
  IcmpFlows = {px}
  SourceOf <- MCSourceOf
  DestOf <- MCDestOf
  UdpChannelCap = 1
  MaxDatagrams = 3
  MaxReplies = 1
  MaxRequests = 1
  Networks = {tcp, udp}
  Sources = {s1, s2}
  Destinations = {x, y}
  Endpoints = {e1, e2}
  IdleTimeout = 2
  MaxTime = 3
  MaxAllocations = 3
  Lookups = {l1, l2, l3, l4}
  PendingKeyOf <- MCPendingKeyOf
  MaxSockets = 3
  MaxCancelled = 1
  Sends = {da, db}
  TargetOf <- MCTargetOf
  Receiver = rx
  RetryFrames = 2
  Attempts = 2
  Fragments <- MCFragments
  MaxAssemblies = 2
  MaxFragments = 3
  MaxPacket = 4
  MaxBuffered = 6
  FragmentTimeout = 2
  MaxClock = 3
  kc = kc
  UotBudgets <- MCUotBudgets
  da = da
  db = db
  l1 = l1
  l2 = l2
  l3 = l3
  l4 = l4
  ka = ka
  kb = kb
  tcp = tcp
  udp = udp
  s1 = s1
  s2 = s2
  e1 = e1
  e2 = e2
  ta = ta
  tb = tb
  sx = sx
  sy = sy
  tx = tx
  px = px
  cs = cs
  ct = ct
  p = p
  x = x
  y = y
INVARIANT
  EndedStreamComplete
CHECK_DEADLOCK FALSE
