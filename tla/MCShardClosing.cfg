SPECIFICATION FairSpec
CONSTANTS
  Keys = {"k0", "k1"}
  Vals = {"v", "w"}
  NShards = 2
  Owner <- MCOwner
  Conns = {"a"}
  Home <- MCHome
  NoConn = "none"
  Requests <- MCCloseRequests
  MaxRequests <- MCThree
  MaxBurst = 2
  Faults = {"eof", "partial", "reset", "werr"}
CHECK_DEADLOCK FALSE
INVARIANT
  ShardInvariant
PROPERTIES
  EveryCommandAnswered ClosingCloses NoHalfDoneCommand ClosedIsFinal
