SPECIFICATION AccountingSpec
CONSTANTS
  Flows = {fa, fb}
  Inbounds = {"i1", "i2"}
  ShardOf <- MCShardOf
  NumShards = 2
  LastHour = 1
  Retention = 0
  DayHours = 2
  Starts <- MCStarts
  fa = fa
  fb = fb
INVARIANT
  GuardedFlowsListed
CHECK_DEADLOCK FALSE
