SPECIFICATION ConfigurationSpec
CONSTANTS
  MaxVersion = 3
  proxy = proxy
  Patterns <- MCPatterns
  Networks <- MCNetworks
  Hosts <- MCHosts
  Ips <- MCIps
  Lists <- MCLists
  ChunkSize = 2
  MergeFanIn = 2
  Configs <- MCConfigs
  Arrivals <- MCArrivals
  Country <- MCCountry
  MaxPublished = 1
  RuleNames = {1, 2, 3}
  FirstTables <- MCFirstTables
  Clients = {c1, c2}
  MaxPriority = 5
  MaxWrites = 3
INVARIANTS
  NoMissedReload
  TreesExact
  TablesAgree
  FlowsFollowRules
PROPERTIES
  RuleOrderKept
  ReloadsAndStops
  TunOwnerFollows
  InboundEventuallyServed
CHECK_DEADLOCK FALSE
