SPECIFICATION FlowsSpec
CONSTANTS
  Flows = {fa, fb}
  Inbounds = {"i1", "i2"}
  ShardOf <- MCShardOf
  NumShards = 2
  LastHour = 1
  Retention = 0
  DayHours = 2
  Starts <- MCStarts
  fa = fa
  fb = fb
  Queries = {q1, q2, q3, q4}
  KeyOf <- MCKeyOf
  Optimistic = {q1, q2}
  CacheSize = 1
  SweepBudget = 1
  Ttl = 2
  LastSecond = 3
  MaxAsked = 3
  MaxDrops = 1
  FirstCaches <- MCFirstCaches
  a = a
  b = b
  q1 = q1
  q2 = q2
  q3 = q3
  q4 = q4
  Addresses <- MCAddresses
  Permits = 2
  Strategies <- MCStrategies
  Remembered <- MCRemembered
INVARIANTS
  SharingIsSafe
  EveryAddressTried
  
  NothingForgotten
PROPERTIES
  CallsReturn
  ImplementsLedger
  CountsReachTables
CHECK_DEADLOCK FALSE
