SPECIFICATION Spec
CONSTANTS
  Keys = {"x", "y"}
  Layout <- MCLayout
  Budget = 2
  IntMax = 9
  Spelling <- MCSpelling
  kRegisters = 9
  Register <- MCRegister
  Rank <- MCRank
  Setups <- MCSetups
  BufLimit = 2
  FsyncPeriod = 2
  MaxCommands = 3
  MaxTime = 4
CHECK_DEADLOCK FALSE
INVARIANTS
  AlwaysIsDurable LossWindow
PROPERTIES
   StopLosesNothing SnapshotIsPointInTime
