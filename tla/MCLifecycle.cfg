SPECIFICATION FairSpec
CONSTANTS
  Commands = {"a", "q", "e"}
  Queries = {"q"}
  Blank = {"e"}
  Hash <- MCHash
  ShardCounts = {2}
  MaxStarts = 2
INVARIANT
  AnsweredIsKept
PROPERTIES
  StopWaitsForQueriesOnly QueryAnswered
CHECK_DEADLOCK FALSE
