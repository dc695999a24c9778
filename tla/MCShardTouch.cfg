SPECIFICATION Spec
CONSTANTS
  Keys = {"k0", "k1"}
  Vals = {"v", "w"}
  NShards = 2
  Owner <- MCOwner
  Conns = {"a"}
  Home <- MCHome
  NoConn = "none"
  Requests <- MCTouchRequests
  MaxRequests <- MCTwoAndOne
  MaxBurst = 2
  Faults = {}
CHECK_DEADLOCK FALSE
INVARIANT
  FaithfulEffect
