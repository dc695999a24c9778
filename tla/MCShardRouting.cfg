SPECIFICATION Spec
CONSTANTS
  Keys = {"k0", "j0", "k1"}
  Vals = {"v", "w"}
  NShards = 2
  Owner <- MCOwner
  Conns = {"a", "b"}
  Home <- MCHome
  NoConn = "none"
  Requests <- MCRoutedRequests
  MaxRequests <- MCTwoAndOne
  MaxBurst = 2
  Faults = {}
CHECK_DEADLOCK FALSE
INVARIANTS
  ReplyOrder FaithfulReply FaithfulEffect RemoteOrder Ownership RemainingInFlight
