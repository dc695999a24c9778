SPECIFICATION FairSpec
CONSTANTS
  Commands = {"a", "q"}
  Queries = {"q"}
  Blank = {}
  Hash <- MCHash
  ShardCounts = {2}
  MaxStarts = 1
PROPERTIES
  StopReturns
CHECK_DEADLOCK FALSE
